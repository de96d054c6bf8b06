\* One failure anywhere, and a judgment that is the same when it is repeated.
SPECIFICATION FairSpec
CONSTANTS
  Verdicts <- RollVerdict
  RequiresRoll <- OnlyAutoDeclines
  Mystery = FALSE
  Warning = FALSE
  MaxAttempts = 1
  MaxDeliver = 2
  MaxQueued = 2
  MaxFaults = 1
  None = None
PROPERTIES
  TurnEnds
CHECK_DEADLOCK FALSE
