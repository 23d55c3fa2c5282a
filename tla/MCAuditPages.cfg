SPECIFICATION Spec
CONSTANTS
  PageSize = 2
  MaxInt = 15
  MaxEntries = 5
INVARIANTS
  TypeOK
  WalkMissesNothing
  RightShowsEntries
