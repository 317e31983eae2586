\* Transmission when the process may run on for two steps after an interrupt is
\* due, so that the handler comes between any two lines of xmit, masked or not;
\* and that every accepted packet is sent under LiveSpec's fairness.
CONSTANTS
  Frames <- Plain
  RingSize = 1
  MaxPkts = 3
  Latency = 2
SPECIFICATION LiveSpec
INVARIANTS
  CountTracksSram
  QueueTracksPipeline
  StrandedOnlyByRace
PROPERTIES
  ImplementsPipe
  AcceptedIsSent
