CONSTANTS
  p1 = p1  p2 = p2  p3 = p3
  PThreads = {p1, p2, p3}
  NoPThread = NoPThread
  MaxCalls <- ThreadCalls
  OsThread = p3
  MaxStructs = 3
  CreateFailures = 1
  ThreadRaces = {}
  k1 = k1  k2 = k2
  PKeys = {k1, k2}
  NoPKey = NoPKey
  KeyCreators = {p3}
  DestructorSets = 1
  PTHREAD_DESTRUCTOR_ITERATIONS = 1
SPECIFICATION Spec
INVARIANTS KeysAreOwn StructHasOneThread JoinGetsStatus CancelIsKept
CHECK_DEADLOCK FALSE
