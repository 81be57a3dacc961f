CONSTANTS
  c1 = c1  c2 = c2  c3 = c3
  Profiles <- TheProfiles
  Buses <- TheBuses
  MaxProfiles = 3
  Semantics = {0, 1}
  ImageSizes = {1, 2}
  FirstSize = 2
  Wide = 1
  Connections <- BothCameras
  Rendered <- TheRendered
  Wanted <- TheWanted
  CameraCounts = {1, 2, 4}
  m_MaxSI = 4
  MaxStored = 7
  ImageHeights = {1, 2, 3}
  ImageWidths = {1, 2}
  Paddings = {0, 1, 4}
  PointCounts = {1, 2}
  MaxTargets = 3
  MaxTracked = 3
  HarrisWidth = 5
  HarrisHeight = 4
  Border = 1
  Ratios = {0, 2, 3}
  SeparationSpace = 2
  MaxNbOfFeaturesByTile = 1
  MaxNumberOfPoints = 1
  Flows <- TheFlows
  Setters <- TwoSetters
  EdgeSettings = {"RANGE"}
  Settings = {"1", "2"}
  Garbage <- TheGarbage
  Samples = 2
  Instants = {0, 1, 3}
  Halves = {0, 1}
  Second = 3
  FrameLag = 1
  SensorDelay = 2
  Offset = 2
  Clients <- ThreeClients
  Numbers <- TheNumbers
  Heights = {0}
  Motions <- TheMotions
  Speeds <- TheSpeeds
  MaxCalls = 2
  BoardSizes <- TheBoards
  AskedSizes <- TheAsked
  MaxImages = 2
  PixelCounts = {1, 2}
  FirstCount = 2
  MaxFrame = 2
  MaxParameters = 3
  Askers <- TwoSetters
  Maps = {"map"}
  DefaultMap = "default"
  NoMap = "no"
  Directories <- TheDirectories
  WantedSizes <- TheWantedSizes
  SlamConfigs <- TheConfigs
  StateTypes = {"VEL_OBJ", "ACC_CAM", "CTL_CAM"}
  MaxTime = 2
  Calibrations = {"other"}
  ImagePairs <- ThePairs
  PairSizes = {1, 2}
  CameraFiles = {"calibrated"}
  AlgoParameters = {"set"}
  Slots = 2
  MaxDifferences = 2
  Callers <- TwoSetters
  CameraPaths = {"file"}
  CameraNames = {"wide", "left"}
  Widths = {320, 640}
  Entries <- TheEntries
  Converted = 2
SPECIFICATION PartsSpec
VIEW PartsView
CHECK_DEADLOCK FALSE
INVARIANTS
  CamerasOfTheProfile SizesAgree StampsOfTheFiles
  VelocityFollowsTracker PoseOfItsPoints HarrisPointsOK
  SettingsTakeEffect GrabbingPromise
  SpeedWithinLimits BoardFollowsCalls PointsKeepTheirData ImagesOfTheFile
  BattleSlamOK KalmanOK StereoVisionOK
PROPERTIES
  BestProfileChosen AccessesStayInImages SlamMeasurements PixelsWhereTheyBelong RobotStops
