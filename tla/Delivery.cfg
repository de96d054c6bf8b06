\* Three connections against a cap of two, one result and one that can never be composed.
SPECIFICATION Spec
CONSTANTS
  Players = {"ada", "bob"}
  MaxConns = 3
  Turns = {"t1", "t2"}
  Owner <- TurnOwner
  Broken = {"t2"}
  MaxPerPlayer = 2
INVARIANTS
  TypeOK
PROPERTIES
  OnlyOwnResults
  SettledReachedAll
  EveryNotificationSettles
  ShutdownEndsEverySocket
CHECK_DEADLOCK FALSE
