\* Shutdown of two threads with a join across them.
SPECIFICATION Spec
CONSTANTS
  Main = Main
  c1 = c1
  Coroutine = {Main, c1}
  None = None
  N = 2
  MaxOps = 0
  CatchPanics = TRUE
  Joins = TRUE
  Starts = 0
INVARIANT
  NoSendToClosedLoop
