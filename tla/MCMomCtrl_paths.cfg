\* One path with a queue attached to it now and then; the client stops,
\* starts and detaches while the driver streams.
CONSTANTS
  NumPaths = 1
  Refilled = {1}
  Buffers = {b1, b2}
  NoBuffer = none
  MaxCommands = 2
  QueuePaths = {1}
  CallbackPaths = {}
  OutRoom = 2
  Eager = {"Start", "ShutDown"}
  Orderly = FALSE
SPECIFICATION FairSpec
INVARIANTS OneOwner StopEmptiesQueues IdleOnlyMissed
PROPERTY CommandsServed
