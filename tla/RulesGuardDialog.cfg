SPECIFICATION Spec
CONSTANTS
  Workspace = {w1}
  GlobalFile = glob
  NoFile = NoFile
  w1 = w1
  r1 = r1
  r2 = r2
  tpl = tpl
  MaxVersions <- Versions13
  Request = {}
  MaxRefreshes = 0
  Remembered = {r1}
  HostRules = {}
  TrustTargets <- BothFiles
  Rule <- MCRule
  InitBodies <- JustEmpty
  EditBodies <- TwoEdits
  Configs <- OneConfig
PROPERTY DialogTrustsItsAlert
