\* Transmission and reception when the process may run on for one step after
\* an interrupt is due: three packets, so that the two-packet pipeline fills,
\* drains and is used again, while frames of every boundary length, errors and
\* a bad first byte come into a ring of two.
CONSTANTS
  Frames <- Boundary
  RingSize = 2
  MaxPkts = 3
  Latency = 1
SPECIFICATION Spec
INVARIANTS
  TypeOK
  NoLostIrq
  AddressRestored
  TxCountCovers
  NoStrandedFrame
  DeliveredIntact
