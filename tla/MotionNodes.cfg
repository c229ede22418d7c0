SPECIFICATION Spec
CONSTANTS
  h = h
  p = p
  w = w
  Places <- MCPlaces
  Links = {"tip", "tool"}
  Tip = "tip"
  Frames = {"base", "part"}
  Base = "base"
  Home = h
  Pipelines = {"pilz", "ompl", "chomp"}
  LaunchMode = "ompl"
  PlanRetries = 1
  Waypoints = {w}
  PathFiles <- MCPathFiles
  ProcessFiles <- MCProcessFiles
  Setups <- MCSetups
  Planners = {"", "ompl_chomp", "stomp"}
  PlanCodes = {"NO_IK_SOLUTION", "TIMED_OUT"}
  Defects = {"JOINT_JUMP", "START_STATE_COLLISION"}
  MaxTicks = 2
INVARIANTS
  TypeOK GoalsAsAsked FailureToldTruly
  RunIsEventFree EventAtItsState AcceptedPathRuns
CHECK_DEADLOCK FALSE
