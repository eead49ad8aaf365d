\* Two coroutines, each with two sockets and a timer.  A timeout may get lost.
SPECIFICATION Spec
CONSTANTS
  c1 = c1
  c2 = c2
  a = a
  b = b
  Timer = Timer
  None = None
  Coroutine = {c1, c2}
  Io = {a, b}
  Selects <- SocketsOrTimer
  MaxOps = 2
  MaxDelay = 1
  MaxTime = 1
  TickLen = 1
SYMMETRY Symmetry
INVARIANTS
  RegisteredIffBlocked
  NoTimeoutLeaks
  RightArm
CHECK_DEADLOCK FALSE
