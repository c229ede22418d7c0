SPECIFICATION Spec
CONSTANTS
  Actuators <- MCActuators
  ServerAnswers <- MCAnswers
  Refusals = {"UNKNOWN_TARGET"}
  WindowFailures = {"STATE_STALE"}
  MaxGoals = 2
CHECK_DEADLOCK FALSE
INVARIANTS
  TypeOK
  LateAcceptCancelled
  CancelsAsAllowed
  NoUnattendedGoal
  AppliedButUnrecordedIsLatched
  SceneSignalShowsNewestDone
PROPERTY CommandEnds
