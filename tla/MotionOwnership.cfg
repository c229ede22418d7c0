SPECIFICATION Spec
CONSTANT MaxMotions = 2
CHECK_DEADLOCK FALSE
INVARIANTS
  TypeOK
  HandedBack
  SuccessLeavesNothingPending
PROPERTIES
  ImplementsOwnership
  MotionEnds
