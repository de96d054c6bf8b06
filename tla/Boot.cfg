\* Two processes of one experience and one of another; crashes and failures anywhere.
SPECIFICATION FairSpec
CONSTANTS
  Engines = {"e1", "e2", "e3"}
  Requested <- OthersDiffer
  Plan <- HeroThenBond
  Members <- OnlyHero
  Impatient = TRUE
  Faulty = TRUE
  MaxStarts = 2
  None = None
INVARIANTS
  ServedWorldIsWhole
  MarkerCertifiesImport
  PassWaitsForOwnRules
PROPERTIES
  PlayIsNeverUndone
  BootSettles
CHECK_DEADLOCK FALSE
