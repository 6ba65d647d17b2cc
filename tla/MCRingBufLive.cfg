\* Liveness: four records, so that the ring fills and is reused, all of them
\* leaving the notification to the kernel. No symmetry, which is unsound here.
\* The reader sleeps for good after the last record, so the system may stop.
CONSTANTS
  p1 = p1
  p2 = p2
  Producers <- TwoProducers
  Size = 8
  HdrSz = 2
  Align = 2
  DiscardBit = 16
  PayloadLens = {0}
  Flags = {"default"}
  MaxRecords = 4
  MaxOpens = 2
SPECIFICATION FairSpec
PROPERTY EventuallyConsumed
CHECK_DEADLOCK FALSE
