CONSTANTS
  MaxTime = 4
  Attempts <- MCAttempts
  Durations <- MCDurations
  SaveCanFail = TRUE
SPECIFICATION Spec
PROPERTY RestartKeepsLockout
