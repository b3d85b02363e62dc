SPECIFICATION Spec
CONSTANTS
  w1 = w1
  w2 = w2
  w3 = w3
  Launch = {l1}
  NoLaunch = NoLaunch
  NoWorkspace = NoWorkspace
  Workspace = {w1}
  Files <- OneFile
  Weather = {"up"}
INVARIANT FailedLeavesNothing
