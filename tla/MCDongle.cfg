CONSTANTS
  Devs = {d1, d2}
  None = none
  DGL_MAX_SCAN_RES = 2
  DGL_MAX_CCCD = 1
  DGL_AUTO_MAX_FAILS = 2
  DiscRetries = 1
  Cmds = {"scan", "watch", "index", "disc", "pair", "batt"}
SPECIFICATION Spec
INVARIANTS LinkKnown ConnectsToNamed NoReconnectStorm OneAttRequest
SYMMETRY Symmetry
