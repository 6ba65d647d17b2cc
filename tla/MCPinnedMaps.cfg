SPECIFICATION Spec
CONSTANTS
  Loaders = {l1, l2}
  Maps = {rodata, bss, outer}
  Pinned = {rodata, outer}
  Data = {rodata, bss}
  Rodata = {rodata}
  OfMaps = {outer}
  NoMap = NoMap
  Zero = Zero
  App = App
  MaxMaps = 4
SYMMETRY LoaderSymmetry
CHECK_DEADLOCK TRUE
INVARIANTS
  TypeOK
  PinnedShared
  LoadedInitialised
PROPERTY RodataStable
