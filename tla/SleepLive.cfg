\* Two coroutines that read sockets and timers and select nothing.
SPECIFICATION FairSpec
CONSTANTS
  c1 = c1
  c2 = c2
  a = a
  b = b
  Timer = Timer
  None = None
  Coroutine = {c1, c2}
  Io = {a}
  Selects <- NoSelect
  MaxOps = 3
  MaxDelay = 1
  MaxTime = 4
  TickLen = 2
INVARIANTS
  SleepersArmed
PROPERTIES
  SleepEnds
