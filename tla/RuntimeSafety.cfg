\* Two threads, three coroutines, and panics that are not caught.  With one thread
\* gone the other may wait for ever.
SPECIFICATION Spec
CONSTANTS
  Main = Main
  c1 = c1
  c2 = c2
  Coroutine = {Main, c1, c2}
  None = None
  N = 2
  MaxOps = 0
  CatchPanics = FALSE
  Joins = TRUE
  Starts = 0
SYMMETRY Symmetry
INVARIANTS
  MigrateTargetsExist
  TerminateMeansDone
PROPERTIES
  NothingRunsAfterShutdown
CHECK_DEADLOCK FALSE
