\* Two players of one case, two turns in flight, one failure anywhere.
SPECIFICATION Spec
CONSTANTS
  t1 = t1 t2 = t2 t3 = t3 ann = ann bob = bob anne = anne boris = boris watson = watson
  victim = victim butler = butler letter = letter poison = poison greed = greed study = study
  None = None
  Turns = {t1, t2, t3}
  PlayerOf <- MCPlayerOf
  Controls <- MCControls
  CompanionOf <- MCCompanionOf
  Choices <- MCChoices
  Places = {study}
  CaseEvidence = {letter, poison, greed}
  CaseCharacters = {victim, butler}
  Victim = victim
  Solution <- MCSolution
  Reveal <- MCReveal
  Beliefs <- MCBeliefs
  StartPhases = {"cold-open", "investigation"}
  StartKnown <- MCStartKnown
  MaxFaults = 1
INVARIANTS
  SolvedByAResult NoReceiptAhead ReceiptMeansGranted SolutionStaysLocked HintsClimb
 
CHECK_DEADLOCK FALSE
