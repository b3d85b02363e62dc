SPECIFICATION RestartSpec
CONSTANTS
  c1 = c1
  c2 = c2
  Client = {c1}
  Cell = {1, 2}
  Picture <- Pictures
  Size = {1, 2}
  Retained = 1
  QueueLimit = 1
  MaxEvents = 2
  MaxKeys = 2
  MaxTimeouts = 1
  MaxResizes = 1
  MaxRestarts = 1
\* Terminals leave at last.
CHECK_DEADLOCK FALSE
INVARIANT NoSleepOverNews
