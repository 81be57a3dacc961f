CONSTANTS
  llvs = llvs  client = client
  Threads <- LoopAndClient
  Calls <- ServerCalls
SPECIFICATION FairSpec
INVARIANTS AtMostOneLateFrame SettledAtRest
PROPERTY RunningIsComputed
