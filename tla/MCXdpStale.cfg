\* A descriptor number that has come to denote another program, on a kernel without XDP links.
CONSTANTS
  p1 = p1
  p2 = p2
  i1 = i1
  i2 = i2
  NoInterface = NoInterface
  Programs <- TwoPrograms
  Interfaces <- TwoInterfaces
  Paths = {"pin"}
  Kernels = {"replace"}
  MaxFd = 4
  MaxLoads = 3
  MaxLinks = 3
SPECIFICATION Spec
PROPERTY DetachClearsOnlyOwn
