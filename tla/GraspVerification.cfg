SPECIFICATION Spec
CONSTANTS
  Tol = 1
  MaxAge = 1
  Wirings <- MCWirings
  Readings <- MCReadings
  Start = 4
  MaxTime = 6
  MaxCommands = 2
CHECK_DEADLOCK FALSE
INVARIANT TypeOK
PROPERTIES
  ConfirmedIsThisCommand
  VerdictOfThisGrasp
  WaitEnds
