SPECIFICATION Spec
CONSTANTS
  Creds = {c1, c2}
  None = None
  Acceptors = {a1}
  Others = {mqtt}
  Bufs = {i1, i2}
  CAP = 1
  MaxSets = 1
INVARIANTS
  BufferUnique
  ServicesTold
PROPERTIES
  SwitchHonoured
  CredsApplied
