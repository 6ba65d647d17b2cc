SPECIFICATION Spec
CONSTANTS
  Threads = {t1, t2}
  Nobody = Nobody
  Kernels = {"tracefs", "pmu", "link"}
  MaxPoints = 2
  MaxNames = 3
  MaxFd = 4
SYMMETRY ThreadSymmetry
INVARIANTS
  TypeOK
  EventsOwned
  NamesUnique
  AllOrNothing
  ModeIsRight
