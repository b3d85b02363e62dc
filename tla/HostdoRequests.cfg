SPECIFICATION FairSpec
CONSTANTS
  r1 = r1
  r2 = r2
  s1 = s1
  Request = {r1, r2}
  Session = {s1}
  Owner <- OneOwner
  Kinds <- Mixed
  MaxPermits = 2
  MaxActive = 1
  MaxTotal = 1
  QueueCap = 1
INVARIANTS TypeOK EndedIsDead StartedIsAudited RunningJobsAreKept
PROPERTIES GateHolds NothingWaitsForever
\* A request that is over stays over.
CHECK_DEADLOCK FALSE
