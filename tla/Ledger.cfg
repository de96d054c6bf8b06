\* Two writers; one turn in play and one that ended unannounced before them.
SPECIFICATION FairSpec
CONSTANTS
  TurnOrder <- TwoTurns
  Ended = {"t1"}
  Writers = {"w1", "w2"}
  Verdicts = {"auto", "plain"}
  PageLimit = 1
  Timely = TRUE
  MaxJudgments = 2
  MaxFaults = 1
  None = None
INVARIANTS
  
  BoundMeansWhole
  
PROPERTIES
  NotifiedIsArchived
CHECK_DEADLOCK FALSE
