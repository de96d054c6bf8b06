\* One player on two connections with two keys, a consumer that moves and
\* ends turns with one transition in flight per turn, and
\* every round trip able to fail.
SPECIFICATION AdmissionSpec
CONSTANTS
  Turns = {"t1", "t2"}
  Players = {"p1"}
  PlayerOf <- OneOwner
  Consumers = {"engine"}
  Calls <- OneEngine
  Malformed = {}
  Absent = Absent
  NoTurn = NoTurn
  Faulty = TRUE
  SingleFlight = TRUE
  MaxStamp = 1
  Clients = {"c1", "c2"}
  SenderOf <- Bound
  Keys <- TheKeys
  KeysOf <- OwnKey
  TurnFor <- TurnOfKey
  Requests <- GoodOrBad
INVARIANTS
  AcceptedIsNotLost
PROPERTIES
  HeldTurnNotAbandoned
  AnswerIsKept
  NoTurnOverHeldTurn
  
CHECK_DEADLOCK FALSE
