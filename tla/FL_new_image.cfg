CONSTANTS
  NbCameras = 1
  Wide = 0
  InitialModes <- TriggerMode
  NewModes <- NoMode
  NewDumpModes <- NoMode
  ClientProcs <- NoProc
  Frames = 3
SPECIFICATION Spec
PROPERTY TriggeredImageIsNew
