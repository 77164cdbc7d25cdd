CONSTANTS
  ReqRing = 2
  RspRing = 3
  MaxCalls = 1
  MaxPayload = 2
  ValueLength = 1
SPECIFICATION XsSpec
INVARIANT ReplyIsAwaited
CHECK_DEADLOCK FALSE
