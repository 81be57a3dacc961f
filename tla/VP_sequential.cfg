CONSTANTS
  llvs = llvs  client = client
  Threads <- OneCaller
  Calls <- AllCalls
SPECIFICATION Spec
PROPERTY ImplementsLifecycle
