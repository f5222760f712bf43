\* Three threads wait for an automatic event, as every event of cam_device is.
CONSTANTS
  Waiters = {t1, t2, t3}
  Automatic = TRUE
  InitState = FALSE
SPECIFICATION EventFairSpec
INVARIANTS NobodySleepsWhileSet
PROPERTY SignalReleases
