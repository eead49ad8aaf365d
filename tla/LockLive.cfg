\* Two coroutines on one thread and a thread outside of mioco.
SPECIFICATION FairSpec
CONSTANTS
  c1 = c1
  c2 = c2
  n1 = n1
  t0 = t0
  None = None
  Coroutine = {c1, c2}
  Native = {n1}
  Thread = {t0}
  Home <- OneThread
  MaxOps = 2
INVARIANTS
  GuardsMatchLock
  PoisonReported
PROPERTIES
  HolderGoesOn
  WaitEnds
