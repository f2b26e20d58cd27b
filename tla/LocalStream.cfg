SPECIFICATION FairSpec
CONSTANTS
  Msg = {m1, m2}
  Null = Null
  croupier = croupier
  listenClient = listenClient
  handleKeyboard = handleKeyboard
  listenServer = listenServer
  Thread <- AllThreads
  EndOf <- EndOfThread
  Writer <- Senders
  Reader <- Listeners
CHECK_DEADLOCK FALSE
PROPERTIES
  BothAreChannels
  
