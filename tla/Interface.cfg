SPECIFICATION InterfaceSpec
CONSTANTS
  command = command
  connection = connection
  web = web
  api = api
  Configs <- UpToTwo
  ExecRequests = {command}
  NetRequests = {connection}
  Unbuilt = {api}
  MaxSessions = 2
  MaxDrained = 4
  MaxPressed = 6
CONSTRAINT
  Budget
INVARIANTS
  InterfaceOK
  KeyActsOnWhatIsShown
PROPERTIES
  SelectionIsKept
  PointersFollow
