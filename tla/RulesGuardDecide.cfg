SPECIFICATION Spec
CONSTANTS
  Workspace = {w1}
  GlobalFile = glob
  NoFile = NoFile
  w1 = w1
  r1 = r1
  r2 = r2
  tpl = tpl
  MaxVersions <- Versions13
  Request = {q1}
  MaxRefreshes = 0
  Remembered = {}
  HostRules = {tpl}
  TrustTargets = {w1}
  Rule <- MCRule
  InitBodies <- JustEmpty
  EditBodies <- OneEdit
  Configs <- BothConfigs
INVARIANTS TypeOK DecisionWindow AlertHoldsTheBlock
PROPERTY IntactStaysOpen
