SPECIFICATION MirrorSpec
CONSTANTS
  Player <- TwoPlayers
  NumBoxes = 1
  MaxBets <- RoomForOne
  Null = Null
  Number <- WinningPocket
  Covers <- WinningCovers
  PayRate <- RealRates
  MaxAmount = 1
  MaxPlayers = 0
  InitialFunds = 2
  Budget = 80
  Amount = {1}
  Exits = {"esc"}
  MaxSent = 1
  MaxHandled = 2
  MaxSessions = 1
CHECK_DEADLOCK FALSE
INVARIANTS
  EnteredKnowsAll
  

  
  
