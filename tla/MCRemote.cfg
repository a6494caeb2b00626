SPECIFICATION Spec
CONSTANTS
  Confs = {c1}
  None = None
  Reqs = {r1}
  CAP = 1
  BOX = 1
  MaxCmds = 2
  MaxFaults = 1
INVARIANTS
  SessionConf
  RetainedAgrees
  ViewSettles
PROPERTY
  StopSeen
CHECK_DEADLOCK FALSE
