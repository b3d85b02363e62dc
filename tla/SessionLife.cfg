SPECIFICATION FairSpec
CONSTANTS
  w1 = w1
  w2 = w2
  w3 = w3
  Workspace = {w1, w3}
  Launch = {l1, l2}
  NoLaunch = NoLaunch
  NoWorkspace = NoWorkspace
  Files <- OneFile
  Weather = {"up", "absent"}
INVARIANTS TypeOK SessionsAreAuthorized LeftIsRemoved
PROPERTIES RunningIsKept LaunchesEnd GoneIsClosed
