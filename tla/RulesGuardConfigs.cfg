SPECIFICATION FairSpec
CONSTANTS
  Workspace = {w1}
  GlobalFile = glob
  NoFile = NoFile
  w1 = w1
  r1 = r1
  r2 = r2
  tpl = tpl
  MaxVersions <- Versions12
  Request = {}
  MaxRefreshes = 1
  Remembered = {r1}
  HostRules = {}
  TrustTargets = {w1}
  Rule <- MCRule
  InitBodies <- JustEmpty
  EditBodies <- BadEdits
  Configs <- BothConfigs
INVARIANT AlertHoldsTheBlock
PROPERTIES IntactStaysOpen ChangeGetsBlocked
