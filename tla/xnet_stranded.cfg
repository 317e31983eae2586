\* With real interrupt latency the handler unmasks the chip inside xmit.
CONSTANTS
  Frames <- Plain
  RingSize = 1
  MaxPkts = 2
  Latency = 1
SPECIFICATION Spec
INVARIANT
  NoStrandedTx
