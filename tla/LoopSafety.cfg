\* A mystery turn through the whole pipeline, with one failure anywhere.
SPECIFICATION Spec
CONSTANTS
  Verdicts <- RollVerdict
  RequiresRoll <- OnlyAutoDeclines
  Mystery = TRUE
  Warning = TRUE
  MaxAttempts = 2
  MaxDeliver = 2
  MaxQueued = 2
  MaxFaults = 1
  None = None
INVARIANTS
  RecordPrecedesPhase
PROPERTIES
  ImplementsProgress
  SpokenOnce
CHECK_DEADLOCK FALSE
