\* Two threads, two coroutines, joins, migrations and shutdown.
SPECIFICATION FairSpec
CONSTANTS
  Main = Main
  c1 = c1
  Coroutine = {Main, c1}
  None = None
  N = 2
  MaxOps = 1
  CatchPanics = TRUE
  Joins = TRUE
  Starts = 0
INVARIANTS
  JoinNotified
  OneControl
  EveryoneTold
  AbortsForKilledJoiner
PROPERTIES
  ImplementsInstance
  ShutdownEnds
  LastOneEnds
  ReadyRuns
  JoinWakes
