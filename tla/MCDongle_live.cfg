CONSTANTS
  Devs = {d1}
  None = none
  DGL_MAX_SCAN_RES = 1
  DGL_MAX_CCCD = 1
  DGL_AUTO_MAX_FAILS = 1
  DiscRetries = 0
  Cmds = {"scan", "watch", "index", "auto"}
SPECIFICATION Spec
PROPERTY ConnectEnds
