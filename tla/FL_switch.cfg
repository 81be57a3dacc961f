CONSTANTS
  NbCameras = 2
  Wide = 1
  InitialModes <- BothModes
  NewModes <- BothModes
  NewDumpModes <- AllDumpModes
  ClientProcs <- NoProc
  Frames = 3
SPECIFICATION Spec
VIEW ControlView
INVARIANTS TriggeredFrameHasImage StopBoundsFrames
PROPERTY SingleDumpsOnce
