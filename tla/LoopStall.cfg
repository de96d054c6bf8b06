\* A repeated adjudication may judge differently, and every process runs.
SPECIFICATION FairSpec
CONSTANTS
  Verdicts <- EitherVerdict
  RequiresRoll <- OnlyAutoDeclines
  Mystery = FALSE
  Warning = FALSE
  MaxAttempts = 1
  MaxDeliver = 2
  MaxQueued = 2
  MaxFaults = 1
  None = None
PROPERTIES
  TurnEnds
CHECK_DEADLOCK FALSE
