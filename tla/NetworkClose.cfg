SPECIFICATION Spec
CONSTANTS
  c1 = c1
  c2 = c2
  c3 = c3
  c4 = c4
  s1 = s1
  s2 = s2
  Conn = {c1, c4}
  Session = {s1, s2}
  Owner <- OwnerOf
  Dest <- DestOf
  Tunnel = {c1}
  Template <- OneTemplate
  Workspace <- TwoWorkspaces
  Policies = {"prompt"}
  PerListener = 2
  ChannelCap = 1
  PerSource = 1
  Total = 2
PROPERTIES CloseSparesOthers
\* Connections are over at last.
CHECK_DEADLOCK FALSE
