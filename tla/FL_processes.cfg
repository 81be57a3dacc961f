CONSTANTS
  NbCameras = 1
  Wide = 0
  InitialModes <- FlowMode
  NewModes <- NoMode
  NewDumpModes <- NoMode
  ClientProcs <- AllProcs
  Frames = 3
SPECIFICATION Spec
VIEW DataView
INVARIANT DatumOfThisFrame
