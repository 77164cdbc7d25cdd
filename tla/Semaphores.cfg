CONSTANTS
  Threads = {t1, t2, t3}
  NoThread = NoThread
  InitialValue = 0
  NumCpus = 2
  MaxOps = 4
  MaxTorn = 1
SPECIFICATION FairSpec
INVARIANTS
  ReadyDiscipline
  PermitConservation
PROPERTIES
  GrantedReturns
  ImplementsCountingSemaphore
CHECK_DEADLOCK FALSE
