CONSTANTS
  t1 = t1
  t2 = t2
  s1 = s1
  s2 = s2
  a1 = a1
  r1 = r1
  r2 = r2
  Tasks <- TwoTasks
  Steps <- OneStep
  Accepts <- MCAccepts
  Roots <- MCRoots
  NoTask = NoTask
  NoStep = NoStep
  NoRoot = NoRoot
  AllowPublish = TRUE
  ControlCalls <- FencingControls 
  ResultCalls <- FencingResults 
  MaxTokens = 3
  MaxFaults = 2
  MirroredOnly = TRUE
SPECIFICATION Spec
INVARIANTS ActiveClaimIsExecutable MemoryFollowsCommit AuthorizationIsCommitted
PROPERTIES AuthorityNeverReverts DoneIsImmutable
SYMMETRY Symmetry
