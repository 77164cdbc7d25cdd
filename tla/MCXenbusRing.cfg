CONSTANTS
  t1 = t1  t2 = t2  t3 = t3
  Clients = {t1, t2, t3}
  Watcher = t1
  XenbusThread = XenbusThread
  NR_REQS = 2
  MAX_PATHS = 2
  RingSize = 1
  RspRing = 2
  Workloads <- MCWorkloads
  MaxEvents = 3
SPECIFICATION Spec
INVARIANT RingHasRoom
CHECK_DEADLOCK FALSE
