SPECIFICATION FairSpec
CONSTANTS
  Amount = {1}
  InitialFunds = 1
  Prize = 1
  Null = Null
  MaxRounds = 1
CHECK_DEADLOCK FALSE
INVARIANTS
  AnswerIsTrue
  
  OneLateBet
  
PROPERTIES
  KeepsToService
  AnswerHeard
  ClientEnds
