\* Sixteen units: samples of four and six units wrap, fill the pages and are lost,
\* and a LOST record of six is reported later. The reader polls for good after the
\* last sample, so the system may stop.
CONSTANTS
  Size = 16
  HdrSz = 2
  LostSz = 6
  SampleLens = {1, 3}
  MaxSamples = 6
SPECIFICATION FairSpec
INVARIANT TypeOK
INVARIANT EventIntact
INVARIANT NextFoldContinues
PROPERTY EventuallySeen
CHECK_DEADLOCK FALSE
