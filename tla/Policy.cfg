SPECIFICATION Spec
CONSTANTS
  w1 = w1
  cargo = cargo
  hat = hat
  glob = glob
  Workspace = {w1}
  Global = glob
  Bodies <- AllBodies
  Request <- Requests
  Command = {cargo, hat}
  Forbidden = {hat}
  AllowedHost <- ApiAllowed
  Forwarded <- AliasForwarded
  Spelling <- Spelled
  Asked = {0, 400}
  MaxPending = 2
  MaxEdits = 2
INVARIANTS DenialsHold RememberedHolds
PROPERTY AllowancesStayNarrow
\* Nothing is asked any more when the rules cannot be loaded.
CHECK_DEADLOCK FALSE
