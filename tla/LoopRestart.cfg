\* Two failures, a budget of one retry, and an adjudicator that may judge a
\* repeated task differently.
SPECIFICATION Spec
CONSTANTS
  Verdicts <- EitherVerdict
  RequiresRoll <- OnlyAutoDeclines
  Mystery = FALSE
  Warning = FALSE
  MaxAttempts = 1
  MaxDeliver = 2
  MaxQueued = 2
  MaxFaults = 2
  None = None
INVARIANTS
  
  EffectsAgreeWithDice
PROPERTIES
  AbandonedHadNoTask
CHECK_DEADLOCK FALSE
