CONSTANTS
  p1 = p1  p2 = p2  p3 = p3
  PThreads = {p1, p2, p3}
  NoPThread = NoPThread
  MaxCalls <- PteCalls
  SEM_VALUE_MAX = 2
  HalfIntMax = 2
  BusyAtDestroy = FALSE
  RwIntMax = 3
  BarrierHeight = 2
  BarrierUsers = {p1, p2}
  OnceCancels = 1
  OsThread = p3
SPECIFICATION Spec
INVARIANTS LocksExclude SemCountsAgree CondGate CallersMeet LocksComeBack
PROPERTIES CallReturns
CHECK_DEADLOCK FALSE
