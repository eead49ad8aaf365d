\* Two coroutines that also select a socket and a timer.
SPECIFICATION FairSpec
CONSTANTS
  c1 = c1
  c2 = c2
  a = a
  b = b
  Timer = Timer
  None = None
  Coroutine = {c1, c2}
  Io = {a}
  Selects <- SocketAndTimer
  MaxOps = 3
  MaxDelay = 1
  MaxTime = 1
  TickLen = 1
PROPERTIES
  SleepEnds
CHECK_DEADLOCK FALSE
