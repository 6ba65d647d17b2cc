\* A ring of twice DiscardBit bytes, as a ring of 2 GiB is one of 2^31 bytes with
\* the discard bit 2^30: Size - 1 keeps the bit in the length of a discarded record.
CONSTANTS
  p1 = p1
  p2 = p2
  Producers <- TwoProducers
  Size = 8
  HdrSz = 2
  Align = 2
  DiscardBit = 4
  PayloadLens = {0, 1}
  Flags = {"default"}
  MaxRecords = 3
  MaxOpens = 1
SPECIFICATION Spec
INVARIANT ConsumerBehindProducer
CHECK_DEADLOCK FALSE
