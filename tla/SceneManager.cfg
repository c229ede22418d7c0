SPECIFICATION Spec
CONSTANTS
  box = box
  mesh = mesh
  Objects <- MCObjects
  Boxes <- MCBoxes
  MaxEvents = 4
  MaxRequests = 2
CHECK_DEADLOCK FALSE
INVARIANTS
  TypeOK
  ViewMatchesScene
  HeldLeavesWorld
  CheckFollowsFlag
PROPERTY HandlerEnds
