\* sync_channel(2): two handles race each other and the receiver, the queue fills
\* up, and one message may be received outside of a coroutine.
SPECIFICATION FairSpec
CONSTANTS
  s1 = s1
  s2 = s2
  Senders = {s1, s2}
  Bound = 2
  MaxSends = 2
  MaxNative = 1
  CounterMod = 8
INVARIANTS
  TypeOK
  CounterBalance
  NoLostWakeup
  ResumedWithoutToken
PROPERTIES
  ImplementsFifo
  ParksWhenEmpty
CHECK_DEADLOCK FALSE
