CONSTANT NumElems = 5
SPECIFICATION FairSpec
INVARIANTS
  TypeOK
  FlagsNeverWrong
PROPERTIES
  AllocateEnds
  ImplementsBlockPool
CHECK_DEADLOCK FALSE
