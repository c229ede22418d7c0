SPECIFICATION Spec
CONSTANTS
  box = box
  mesh = mesh
  Objects <- MCObjects
  Boxes <- MCBoxes
  MaxEvents = 2
  MaxRequests = 1
CHECK_DEADLOCK FALSE
INVARIANT ResetIsTransparent
