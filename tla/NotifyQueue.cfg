\* Two receivers on a loop whose queue has room for one message.
SPECIFICATION FairSpec
CONSTANTS
  r1 = r1
  r2 = r2
  n1 = n1
  n2 = n2
  None = None
  Receiver = {r1, r2}
  Native = {n1, n2}
  Cap = 1
  MaxRetry = 1
  MaxSends = 5
INVARIANTS
  WakeupDelayedOnly
  NoSelfDeadlock
PROPERTIES
  SpinEnds
CHECK_DEADLOCK FALSE
