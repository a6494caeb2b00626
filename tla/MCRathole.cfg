SPECIFICATION Spec
CONSTANTS
  Confs = {c1}
  None = None
  Slots = {s1, s2}
  CAP = 1
  MaxCmds = 3
INVARIANTS
  SlotOwned
  TunnelConf
  NothingCut
PROPERTY
  StopHonoured
CHECK_DEADLOCK FALSE
