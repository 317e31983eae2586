\* Two readers of the one timer, one after the other's time is up.
CONSTANTS
  TmReaders = {r1, r2}
  TmDelay = 2
SPECIFICATION TmSpec
INVARIANT
  NotEarly
\* The kernel's list of timers, once corrupted, is not followed further.
CHECK_DEADLOCK FALSE
