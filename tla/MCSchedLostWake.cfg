CONSTANTS
  t1 = t1  t2 = t2  t3 = t3  c1 = c1  c2 = c2
  Threads = {t1, t2}
  NoThread = NoThread
  Cpus = {c1, c2}
  NoCpu = NoCpu
  Workloads <- LostWakeWorkloads
SPECIFICATION FairSpec
PROPERTY JoinReturns
CHECK_DEADLOCK FALSE
