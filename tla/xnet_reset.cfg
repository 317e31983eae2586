\* device_wait_reset is never cleared.
CONSTANTS
  Frames <- Boundary
  RingSize = 1
  MaxPkts = 0
  Latency = 0
SPECIFICATION LiveSpec
PROPERTY
  ResetServed
