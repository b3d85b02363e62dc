SPECIFICATION Spec
CONSTANTS
  Workspace = {w1}
  GlobalFile = glob
  NoFile = NoFile
  w1 = w1
  r1 = r1
  r2 = r2
  tpl = tpl
  MaxVersions <- Versions13
  Request = {}
  MaxRefreshes = 0
  Remembered = {}
  HostRules = {}
  TrustTargets = {w1}
  Rule <- MCRule
  InitBodies <- JustEmpty
  EditBodies <- OneEdit
  Configs <- OneConfig
PROPERTY TrustIsNotUndone
