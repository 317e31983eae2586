\* Two readers of one timer.
CONSTANTS
  TmReaders = {r1, r2}
  TmDelay = 2
SPECIFICATION TmFairSpec
PROPERTIES
  SleeperReturns
\* A reader may have been put to sleep for ever.
CHECK_DEADLOCK FALSE
