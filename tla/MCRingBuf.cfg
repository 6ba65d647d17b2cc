\* Safety and refinement: two producers, a ring of eight bytes with a two byte
\* header, so that records of two and four bytes wrap and fill it. The reader may
\* die and be started again. Once every record is reserved and consumed, the
\* reader sleeps for good, so the system may stop.
CONSTANTS
  p1 = p1
  p2 = p2
  Producers <- TwoProducers
  Size = 8
  HdrSz = 2
  Align = 2
  DiscardBit = 16
  PayloadLens = {0, 1}
  Flags = {"default", "no_wakeup", "force_wakeup"}
  MaxRecords = 3
  MaxOpens = 2
SPECIFICATION Spec
INVARIANT TypeOK
INVARIANT IInv
INVARIANT ConsumerBehindProducer
INVARIANT UnconsumedIntact
INVARIANT NoLostWakeup
PROPERTY QueueSpec
CHECK_DEADLOCK FALSE
SYMMETRY Symmetry
