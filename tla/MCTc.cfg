SPECIFICATION Spec
CONSTANTS
  Programs = {p1, p2}
  Nobody = Nobody
  MaxKey = 2
  MaxTcx = 1
  MaxOwned = 1
SYMMETRY ProgramSymmetry
CONSTRAINT SearchBound
INVARIANTS
  TypeOK
  AttachmentsHeld
  FilterNotShared
PROPERTY DetachByNameComplete
