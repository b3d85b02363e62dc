SPECIFICATION FairSpec
CONSTANTS
  Workspace = {w1}
  GlobalFile = glob
  NoFile = NoFile
  w1 = w1
  r1 = r1
  r2 = r2
  tpl = tpl
  MaxVersions <- Versions22
  Request = {}
  MaxRefreshes = 1
  Remembered = {r1}
  HostRules = {}
  TrustTargets = {}
  Rule <- MCRule
  InitBodies <- JustEmpty
  EditBodies <- OneEdit
  Configs <- OneConfig
PROPERTY ChangeGetsBlocked
