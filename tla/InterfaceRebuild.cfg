SPECIFICATION InterfaceSpec
CONSTANTS
  command = command
  connection = connection
  web = web
  api = api
  Configs <- Two
  ExecRequests = {}
  NetRequests = {}
  Unbuilt = {api, web}
  MaxSessions = 1
  MaxDrained = 2
  MaxPressed = 4
PROPERTY
  RebuildsSameTarget
