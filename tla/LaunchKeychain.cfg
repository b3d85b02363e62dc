SPECIFICATION LaunchSpec
CONSTANTS
  s1 = s1
  s2 = s2
  Session = {s1, s2}
  Label <- Labels
  Workspace <- Apart
  Dockerfile = {"dev"}
  Profile <- Templates
  HostFile <- Files
  HostDir <- Dirs
  HostEnv <- Envs
  Probe <- Probes
  Missing = Missing
  NoPath = NoPath
  Unset = Unset
  MaxUserEdits = 1
SYMMETRY Alike
INVARIANT KeychainIsFallback
\* Every session is gone and the user does nothing more.
CHECK_DEADLOCK FALSE
