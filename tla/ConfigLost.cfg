SPECIFICATION Spec
CONSTANTS
  c1 = c1
  c2 = c2
  t1 = t1
  None = None
  Client = {c1, c2}
  Cwd <- Apart
  Dir <- Directories
  Within <- Nested
  Depth <- Components
  Base <- LastPart
  Template = {t1}
  First <- Nothing
  Typed <- JustApp
  MaxEdits = 0
  MaxRefresh = 0
INVARIANT AddedIsNotLost
\* A run of `hat ws` is over at last.
CHECK_DEADLOCK FALSE
