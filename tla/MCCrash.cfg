SPECIFICATION FairRunSpec
CONSTANTS
  MaxInterrupts = 1
  MaxLockings = 1
CHECK_DEADLOCK FALSE
PROPERTIES CrashTerminates
