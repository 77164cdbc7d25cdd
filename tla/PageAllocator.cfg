CONSTANTS
  Threads = {t1}
  BULK_ALLOCATION = 2
  FirstBulk = 1
  FirstEnd = 4
  MaxEnd = 7
  Workloads = {{1, 2, 3}, {2, 3}}
SPECIFICATION FairSpec
INVARIANT PagesAccounted
PROPERTY AllocationReturns
CHECK_DEADLOCK FALSE
