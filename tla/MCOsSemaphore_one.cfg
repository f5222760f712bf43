\* One taking thread (the reader of a command queue) and any posters.
CONSTANTS
  Takers = {t1}
  InitCount = 1
  MaxCount = 30
SPECIFICATION SemaphoreSpec
INVARIANTS NoOverdraw NoLostWakeup
