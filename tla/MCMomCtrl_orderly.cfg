\* Two paths of which a restart fills the first again, the first with an
\* attached queue and a callback, the second with neither; the client stops
\* the driver before the control.
CONSTANTS
  NumPaths = 2
  Refilled = {1}
  Buffers = {b1, b2}
  NoBuffer = none
  MaxCommands = 2
  QueuePaths = {1}
  CallbackPaths = {1}
  OutRoom = 1
  Eager = {"Start", "ShutDown"}
  Orderly = TRUE
SPECIFICATION Spec
SYMMETRY BufferSymmetry
INVARIANTS NothingLost FramesAnnounced
