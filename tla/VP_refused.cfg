CONSTANTS
  llvs = llvs  client = client
  Threads <- OneCaller
  Calls <- AllCalls
SPECIFICATION Spec
INVARIANT RefusedStartIsNotRunning
