\* Four buffers, no frame skip, CommandQueue as short as it may be.
CONSTANTS
  Buffers = {b1, b2, b3, b4}
  MaxEvents = 6
  MaxBuffers = 4
  FrameSkip_Max = 0
  NoBuffer = none
SPECIFICATION FairSpec
INVARIANTS EventsMatch
PROPERTIES KeepsContract StopReturns
