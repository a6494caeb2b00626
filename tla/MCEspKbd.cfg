SPECIFICATION Spec
CONSTANTS
  Keys = {k}
  Release = Release
  Hosts = {h1}
  USB = USB
  None = None
  OPS_CAP = 1
  REPORTS_CAP = 1
  SEQ_MAX = 2
  MaxOps = 1
INVARIANTS
  NoStuckKey
  BondSurvivesRestart
PROPERTY
  EngineNeverBlocks
