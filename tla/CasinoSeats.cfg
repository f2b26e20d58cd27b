SPECIFICATION Spec
CONSTANTS
  Player <- ThreePlayers
  NumBoxes = 1
  MaxBets <- RoomForAll
  Null = Null
  Number <- Pockets
  Covers <- RealCovers
  PayRate <- RealRates
  MaxAmount = 1
  MaxPlayers = 1
  InitialFunds = 2
  Budget = 36
  Amount = {1}
  Exits = {}
  MaxSent = 0
  MaxHandled = 1
  MaxSessions = 1
CHECK_DEADLOCK FALSE
INVARIANTS
  ServedIsSeated
