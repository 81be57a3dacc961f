CONSTANTS
  NbCameras = 2
  Wide = 1
  InitialModes <- BothModes
  NewModes <- NoMode
  NewDumpModes <- NoMode
  ClientProcs <- NoProc
  Frames = 3
SPECIFICATION FairSpec
PROPERTIES OneFramePerTrigger TriggerServed
