\* A process that retries and one that does not.
CONSTANTS
  p1 = p1
  p2 = p2
  s1 = s1
  s2 = s2
  Free = Free
  Clients <- TwoClients
  Slots <- TwoSlots
  Patience <- OneRetries
  TTL = 1
  MaxTime = 2
SPECIFICATION LockSpec
SYMMETRY Interchangeable
INVARIANTS
  Exclusive
PROPERTY
  ImplementsLease
\* Time ends at MaxTime.
CHECK_DEADLOCK FALSE
