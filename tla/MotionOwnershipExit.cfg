SPECIFICATION Spec
CONSTANT MaxMotions = 1
CHECK_DEADLOCK FALSE
PROPERTY PausedOnEveryExit
