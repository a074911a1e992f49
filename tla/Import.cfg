CONSTANTS
  MaxImports = 3
SPECIFICATION Spec
CHECK_DEADLOCK FALSE
INVARIANTS
  TypeOK
  NothingLost
  NoCrash
PROPERTIES
  ProgressEnds
