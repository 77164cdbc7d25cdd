CONSTANTS
  \* the heap
  x1 = x1  x2 = x2
  XmThreads = {x1, x2}
  PAGE_SIZE = 6
  HDR = 1
  NumPages = 2
  Sizes = {1, 2, 7}
  NoBlock = NoBlock
  \* the page bitmap
  PAGES_PER_MAPWORD = 3
  MapWords = 3
  MaxRun = 5
  \* page tables
  Fanout = 2
  Levels = 3
  Batch = 2
  TableFrames = {1, 2, 3, 4}
  DemandFrom = 3
  \* event channels
  Cpus = {0, 1}
  Ports = {1, 2}
  PortCpu <- BoundTo1
  LongBits = 8
  ScanBits = 4
  MaxSignals = 2
  \* idle processors
  i1 = i1  i2 = i2
  IdCpus = {0, 1}
  IdThreads = {i1, i2}
  NoIdThread = NoIdThread
  TimeSlice = 1
  DefaultSleep = 2
  IdBudgets <- IdleWork
  \* locks
  k1 = k1  k2 = k2  k3 = k3
  LkCpus = {0, 1}
  LkThreads = {k1, k2, k3}
  LkCpuOf <- TwoOnOne
  MaxLocks <- HandlerOn0
  NoOwner = NoOwner
  \* the clock
  ClockCpus = {0, 1}
  Budgets <- ClockWork
  \* grants
  g1 = g1  g2 = g2
  GrantThreads = {g1, g2}
  NR_RESERVED_ENTRIES = 2
  NR_GRANT_ENTRIES = 4
  Frames = {1, 2}
  NoFrame = 0
  MaxGrants = 3
  MaxCount = 2
  Addresses = {1, 2, 3, 4, 5}
  \* the console
  c1 = c1  c2 = c2
  ConThreads = {c1, c2}
  Unlocked = {}
  RingSize = 2
  IndexSpan = 4
  OverflowLen = 1
  ConTexts <- Lines
  MaxRead = 2
  MaxPrints = 2
  MaxTyped = 2
  NoConThread = NoConThread
  \* the polling client of the store
  ReqRing = 2
  RspRing = 3
  MaxCalls = 2
  MaxPayload = 2
  ValueLength = 1
  \* attributes
  NULL = NULL
  NoValue = NoValue
  PTE_MIN_PRIORITY = 0
  PTE_MAX_PRIORITY = 2
  STACK_SIZE = 4
  Priorities = {2, 3}
  \* the C library
  WORD_BITS = 8
  LOW_BITS = 4
  INT_BITS = 6
  Texts <- ShortTexts
  Bases = {0, 8, 10, 16}
  Numbers <- SomeNumbers
  Widths <- SomeWidths
  Precisions <- SomePrecisions
  Buffers = {1, 6, 12}
  Strings <- Words
  Arrays <- Sortable
  MemSize = 6
  FfsWords <- TwoBits
SPECIFICATION Spec
INVARIANTS
  MemoryIsWhole PageTablesHold EventsAreHandled LocksAreHeld ClockIsRight
  GrantsAreKept RingsAreFaithful RoutinesAgree
CHECK_DEADLOCK FALSE
