SPECIFICATION Spec
CONSTANTS
  NumClients = 2
  MaxPlayers = 1
  MaxCasts = 2
  MaxKeys = 2
  Null = Null
CHECK_DEADLOCK FALSE
INVARIANTS
  
  CrashCauses
  
  JoinAnswered
  
