CONSTANTS
  t1 = t1
  t2 = t2
  s1 = s1
  s2 = s2
  a1 = a1
  r1 = r1
  r2 = r2
  Tasks <- OneTask
  Steps <- TwoSteps
  Accepts <- MCAccepts
  Roots <- MCRoots
  NoTask = NoTask
  NoStep = NoStep
  NoRoot = NoRoot
  AllowPublish = TRUE
  ControlCalls <- LifecycleControls 
  ResultCalls <- LifecycleResults 
  MaxTokens = 2
  MaxFaults = 0
  MirroredOnly = TRUE
SPECIFICATION Spec
INVARIANTS AcceptanceIsEarned
PROPERTIES ResultIsKept
SYMMETRY Symmetry
