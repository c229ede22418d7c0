SPECIFICATION Spec
CONSTANT MaxMotions = 2
CHECK_DEADLOCK FALSE
INVARIANTS
  TypeOK
  MotionInFlightIsStopped
  StopOnlyWhileTreeRuns
  ExitTellsOutcome
PROPERTY ShutdownEndsRun
