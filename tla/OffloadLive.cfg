\* Two coroutines that offload and yield.  One whose closure panics or never
\* ends keeps waiting.
SPECIFICATION FairSpec
CONSTANTS
  c1 = c1
  c2 = c2
  None = None
  Coroutine = {c1, c2}
  MaxOps = 2
INVARIANTS
  ThreadMatchesCall
  WakeupUnderway
PROPERTIES
  OthersRun
  OffloadReturns
  ShutdownWaitsForClosures
CHECK_DEADLOCK FALSE
