SPECIFICATION AuditSpec
CONSTANTS
  Player <- OnePlayer
  NumBoxes = 2
  MaxBets <- RoomForAll
  Null = Null
  Number <- Pockets
  Covers <- RealCovers
  PayRate <- RealRates
  MaxAmount = 1
  MaxPlayers = 0
  InitialFunds = 2
  Budget = 40
  Amount = {1}
  Exits = {"esc", "drop"}
  MaxSent = 1
  MaxHandled = 2
  MaxSessions = 2
CHECK_DEADLOCK FALSE
INVARIANTS
  StakeWithinLimit
  BankSolvent
  RepeatsOnlyAtEnd
  LostBeforeJoin
PROPERTIES
  ServesEach
