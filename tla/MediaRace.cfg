\* The main control pauses while the play() it asked for is pending.
SPECIFICATION Spec
CONSTANTS
  MaxTasks = 3
CHECK_DEADLOCK FALSE
INVARIANTS
  PausedStaysQuiet
