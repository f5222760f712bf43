\* A client that waits for completions, except that it may stop at any time.
CONSTANTS
  MaxCommands = 2
  Pictures = {p1, p2}
  NoPicture = none
  Eager = {"Stop"}
SPECIFICATION FairSpec
INVARIANTS StateAsTold NoTransferIntoFreed
PROPERTIES OnlyRequestedTransfers ShutDownReturns CommandsServed
