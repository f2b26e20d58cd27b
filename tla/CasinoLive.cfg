SPECIFICATION FairSpec
CONSTANTS
  Player <- OnePlayer
  NumBoxes = 1
  MaxBets <- RoomForAll
  Null = Null
  Number <- Pockets
  Covers <- RealCovers
  PayRate <- RealRates
  MaxAmount = 1
  MaxPlayers = 0
  InitialFunds = 2
  Budget = 36
  Amount = {1}
  Exits = {"esc", "drop"}
  MaxSent = 2
  MaxHandled = 3
  MaxSessions = 1
CHECK_DEADLOCK FALSE
PROPERTIES
  RoundEnds
  BetAnswered
  
  ClosedIsRemoved
