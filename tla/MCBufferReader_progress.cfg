SPECIFICATION RFairSpec
CONSTANTS
  MaxRecs = 5
  RecLen <- Flood
  MaxFrame = 6
  HeaderLen = 1
  SegmentBytes = 2
  CapBytes = 8
  BacklogBytes = 6
  Policy = "HeadTail"
  MaxSeg = 8
  MaxFaults = 1
  MaxCrashes = 0
  MaxRot = 0
  Kinds = {TRUE}
INVARIANT GapsExact
PROPERTIES EvictionSafe Progress
