CONSTANTS
  Slots = {s1, s2}
  BLE1 = s1
  Multi = TRUE
  Keys = {k1}
  Release = release
  Unmapped = unmapped
  USB = usb
  Empty = empty
  SEQ_MAX_REPORTS = 2
  KEYSTR_MAX = 1
  MaxCmds = 1
SPECIFICATION Spec
PROPERTIES LeftHostFreed
