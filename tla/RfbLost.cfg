SPECIFICATION Spec
CONSTANTS
  Streams <- CopyStreams
  fb_Bpp = 4
  fb_depth = 3
  Chunks = {1, 2, 3, 5, 8, 13, 21}
  RQMax = 40
  MaxSessions = 2
INVARIANTS
  NeverLost
CHECK_DEADLOCK FALSE
