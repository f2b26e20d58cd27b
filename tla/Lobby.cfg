SPECIFICATION Spec
CONSTANTS
  MaxPlayers = 1
  MaxCalls = 3
  MaxWalks = 1
  Null = Null
CHECK_DEADLOCK FALSE
CONSTRAINT Straight
INVARIANTS
  NoLostWakeup
  CrashCauses
  OnePerHost
  AddressesMatch
  Heard
