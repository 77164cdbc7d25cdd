CONSTANTS
  t1 = t1  t2 = t2
  Threads = {t1, t2}
  NoThread = NoThread
  Handler = Handler
  NR_GRANT_ENTRIES = 7
  SECTORS_PER_PAGE = 2
  ALL_DONE = 3
  Workloads <- MCWorkloads
SPECIFICATION FairSpec
INVARIANTS RingIsSound BuffersAreLent
PROPERTIES ImplementsDisk CallCompletes
CHECK_DEADLOCK FALSE
