CONSTANTS
  NbCameras = 1
  Buffers = 1
  Main = main
  client = client
  Threads <- MainAndClient
  StoppedCaptureFails = TRUE
  MaxSigints = 2
SPECIFICATION FairServerSpec
CHECK_DEADLOCK FALSE
INVARIANTS OneFrameAfterStop NoBufferLost MainNeverOrphaned ExitReleasesCameras
PROPERTIES SigintEndsServer StopsReturn
