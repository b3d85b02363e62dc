SPECIFICATION FairSpec
CONSTANTS
  c1 = c1
  c2 = c2
  t1 = t1
  None = None
  Client = {c1, c2}
  Cwd <- Inside
  Dir <- Directories
  Within <- Nested
  Depth <- Components
  Base <- LastPart
  Template = {t1}
  First <- App
  Typed <- JustApp
  MaxEdits = 2
  MaxRefresh = 1
INVARIANTS FileKeepsEdits EndsWhereAsked
PROPERTY ClientsEnd
\* A run of `hat ws` is over at last.
CHECK_DEADLOCK FALSE
