\* One process, started twice, with nothing failing and no wait cut short.
SPECIFICATION FairSpec
CONSTANTS
  Engines = {"e1"}
  Requested <- OthersDiffer
  Plan <- HeroThenBond
  Members <- OnlyHero
  Impatient = FALSE
  Faulty = FALSE
  MaxStarts = 2
  None = None
INVARIANT
  MarkedCampaignIsServed
CHECK_DEADLOCK FALSE
