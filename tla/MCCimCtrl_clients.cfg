\* Two clients that start, stop and register at once; the last one shuts down.
CONSTANTS
  Clients = {c1, c2}
  MaxCommands = 1
SPECIFICATION FairSpec
INVARIANT StateAsTold
PROPERTIES ShutDownReturns CommandsServed
