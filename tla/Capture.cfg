SPECIFICATION Spec
CONSTANTS
  Slack = 1
  Deployments <- MCDeployments
  Contents <- MCContents
  Ages <- MCAges
  MaxTime = 2
  MaxMessages = 3
CHECK_DEADLOCK FALSE
INVARIANT TypeOK
PROPERTIES
  CaptureIsOfThisTrigger
  WaypointsOfNewest
  NodeEnds
