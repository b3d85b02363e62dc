SPECIFICATION FairSpec
CONSTANTS
  c1 = c1
  c2 = c2
  c3 = c3
  c4 = c4
  s1 = s1
  s2 = s2
  Conn = {c1, c2, c4}
  Session = {s1, s2}
  Owner <- OwnerOf
  Dest <- DestOf
  Tunnel = {c2}
  Template <- OneTemplate
  Workspace <- OneWorkspace
  Policies = {"auto", "deny", "prompt"}
  PerListener = 2
  ChannelCap = 1
  PerSource = 1
  Total = 2
INVARIANTS TypeOK AllowedAsShown NoWaiterIsLost CutAskersAreNotForwarded
PROPERTIES AskersComeToRest
\* Connections are over at last.
CHECK_DEADLOCK FALSE
