\* CoreCalls: two sessions over two cores.
CONSTANTS
  s1 = s1
  s2 = s2
  c1 = c1
  c2 = c2
  None = None
  Sessions <- TwoSessions
  Cores <- TwoCores
  JitCapable = TRUE
  MaxFrames = 2
  MaxUnknown = 1
SPECIFICATION CallsSpec
INVARIANTS AnsweredByOwn NoHardwareGame SamePixels
PROPERTY HonoursContract
CHECK_DEADLOCK FALSE
