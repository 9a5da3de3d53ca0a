SPECIFICATION RSpec
CONSTANTS
  MaxRecs = 4
  RecLen <- Mixed
  MaxFrame = 6
  HeaderLen = 1
  SegmentBytes = 3
  CapBytes = 12
  BacklogBytes = 6
  Policy = "DropOldest"
  MaxSeg = 7
  MaxFaults = 1
  MaxCrashes = 1
  MaxRot = 0
  Kinds = {TRUE, FALSE}
INVARIANT ReaderOK
PROPERTY IsEventLog
