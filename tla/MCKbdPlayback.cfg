CONSTANTS
  Slots = {s1}
  BLE1 = s1
  Multi = FALSE
  Keys = {k1}
  Release = release
  Unmapped = unmapped
  USB = usb
  Empty = empty
  SEQ_MAX_REPORTS = 2
  KEYSTR_MAX = 2
  MaxCmds = 2
SPECIFICATION Spec
INVARIANTS TypeOK NoStuckKey OneDonePerCommand AnsweredMeansQuiet
PROPERTIES DoneMeansTyped PlaybackEnds
