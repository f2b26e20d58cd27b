SPECIFICATION AuditSpec
CONSTANTS
  Player <- TwoPlayers
  NumBoxes = 2
  MaxBets <- RoomForAll
  Null = Null
  Number <- Pockets
  Covers <- RealCovers
  PayRate <- RealRates
  MaxAmount = 1
  MaxPlayers = 0
  InitialFunds = 2
  Budget = 80
  Amount = {1}
  Exits = {}
  MaxSent = 1
  MaxHandled = 2
  MaxSessions = 1
CHECK_DEADLOCK FALSE
INVARIANTS
  SlipsMatchNumber
  RoundSettled
