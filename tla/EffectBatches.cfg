\* Three turns, colliding batches, three failed round trips or repeated triggers.
SPECIFICATION Spec
CONSTANTS
  Turns = {t1, t2, t3}
  Entities = {"ada", "bob", "hall"}
  Predicates <- Facts
  Family <- Families
  MultiValued <- Relations
  Objects = {"a", "b"}
  Batches <- SmallBatches
  Admissible <- KnownKinds
  World0 <- Imported
  MaxFaults = 3
SYMMETRY TurnSymmetry

  
PROPERTIES
  OnlyNamedFactsChange
  
CHECK_DEADLOCK FALSE
