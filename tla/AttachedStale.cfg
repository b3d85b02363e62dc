SPECIFICATION Spec
CONSTANTS
  c1 = c1
  c2 = c2
  Client = {c1, c2}
  Cell = {1, 2}
  Picture <- Pictures
  Size = {1, 2}
  Retained = 1
  QueueLimit = 1
  MaxEvents = 2
  MaxKeys = 2
  MaxTimeouts = 0
  MaxResizes = 0
  MaxRestarts = 0
\* Terminals leave at last.
CHECK_DEADLOCK FALSE
PROPERTY FramesRepaint
