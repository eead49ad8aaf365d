\* catch_panics off, two threads.  A thread that is left behind waits for ever.
SPECIFICATION FairSpec
CONSTANTS
  Main = Main
  c1 = c1
  Coroutine = {Main, c1}
  None = None
  N = 2
  MaxOps = 0
  CatchPanics = FALSE
  Joins = TRUE
  Starts = 0
PROPERTY
  PanicIsGlobal
CHECK_DEADLOCK FALSE
