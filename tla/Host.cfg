SPECIFICATION HostSpec
CONSTANTS
  \* relay
  a1 = a1
  a2 = a2
  d1 = d1
  rt1 = rt1
  rt2 = rt2
  Accounts = {a1, a2}
  Devices = {d1}
  Runtimes = {rt1, rt2}
  DeviceOf <- MCDeviceOf
  MaxRequests = 3
  MaxEvents = 4
  DeviceLimit = 2
  AccountLimit = 2
  LedgerLimit = 3
  \* local mutations
  uEdit = uEdit
  uNew = uNew
  uDoc = uDoc
  uDocNew = uDocNew
  uDir = uDir
  uMove = uMove
  uCheck = uCheck
  uTurn = uTurn
  NoUnit = NoUnit
  Units <- MCUnits
  UnitKind <- MCKind
  CheckName <- MCName
  MaxUnits = 3
  MaxOutside = 2
  MaxCrashes = 1
  \* stable runtime
  Operators = {1, 2}
  Tasks = {"activate", "recover", "scope", "root", "smoke"}
  Revisions = {"r0", "r1"}
  FirstRevision = "r0"
  MaxSpawns = 5
  MaxActive = 1
  MaxFaults = 2
  SlowStarts = FALSE
  \* App Server connection
  Callers = {"x", "y"}
  MaxKids = 3
  MaxCalls = 4
  \* Desktop Commander child
  Calls = {"c1", "c2"}
  MaxPairs = 4
  \* start at login
  Installers = {1, 2}
  Versions = {"v1", "v2"}
  MaxForeign = 1
  MaxAborts = 1
  \* operating model
  Operations = {"o1", "o2", "o3"}
  Missions = {"m1", "m2"}
  Repositories = {"ra", "rb"}
  Failings = {"executable"}
  MaxObserved = 3
INVARIANTS
  HostTypeOK
  ExecutedAtMostOnce HandleReachesItsRuntime RevokedIsFenced NoStrandedRequest
  OutcomeIsTrue StatusIsTrue ActiveHoldsOwner
  GuardedRollbackIsProven RecordIsProven ServedProfileIsOnDisk
  OnlyBlamedChildEnds NoChildIsLost
  InstalledStarts
  RoutesAreRight WritesFollowMission
  OneChildServes EveryCallSettles
PROPERTY
  CallsKeepTheirPromise
CHECK_DEADLOCK FALSE
