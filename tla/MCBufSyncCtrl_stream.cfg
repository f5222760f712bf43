\* Two buffers a side; producers that send between START and ShutDown.
CONSTANTS
  MaxCommands = 1
  Buffers = {b1, b2}
  NoBuffer = none
  Early = FALSE
  Endless = FALSE
SPECIFICATION FairSpec
INVARIANTS LockedWhileOwned
PROPERTIES NoBufferOrphaned ShutDownReturns CommandsServed
