SPECIFICATION FairSpec
CONSTANTS
  r1 = r1
  r2 = r2
  s1 = s1
  Request = {r1}
  Session = {s1}
  Owner <- OneOwner
  Kinds <- JustJob
  MaxPermits = 1
  MaxActive = 1
  MaxTotal = 1
  QueueCap = 1
PROPERTIES EveryCommandEnds
\* A request that is over stays over.
CHECK_DEADLOCK FALSE
