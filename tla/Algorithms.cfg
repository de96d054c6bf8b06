SPECIFICATION Spec
INVARIANTS
  ViewsAreWhole
  ProjectionsAreAuthorized
  RulesFireInOrder
  AcceptedWorldIsPlayable
  RulesStayInScope
CHECK_DEADLOCK FALSE
