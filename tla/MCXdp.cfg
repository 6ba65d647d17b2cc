\* Two programs, two interfaces and one pin on each kind of kernel.
CONSTANTS
  p1 = p1
  p2 = p2
  i1 = i1
  i2 = i2
  NoInterface = NoInterface
  Programs <- TwoPrograms
  Interfaces <- TwoInterfaces
  Paths = {"pin"}
  Kernels = {"link", "replace", "legacy"}
  MaxFd = 4
  MaxLoads = 3
  MaxLinks = 3
SPECIFICATION Spec
INVARIANT TypeOK
INVARIANT DescriptorsOwned
PROPERTY UnloadDetaches
PROPERTY PinnedStaysAttached
SYMMETRY Symmetry
