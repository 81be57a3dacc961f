------------------------------ MODULE MCParts ------------------------------
(* One instance of every part of the server that runs apart from the       *)
(* others, for TLC: a behaviour is one of the part it starts with, and the *)
(* variables of the others keep one initial value.                         *)
EXTENDS VisionProfile, ServerImages, SimulatorImages, StampedFiles,
        ImageConversion, ControlLaw, MotionLimits, PointTracker, HarrisPoints,
        ClientSettings, SlamSensors, BoardShot, Subsampling,
        Disparity, FileImages, BattleSlam, KalmanTracker, StereoVision, StereoGrabbing

CONSTANTS c1, c2, c3

ThreeClients == {c1, c2, c3}
TwoSetters == {c1, c2}

(* Profiles of two cameras, one with the rate that has no period, and one  *)
(* of a camera that is never there.                                        *)
LeftRight == <<[guid |-> "a", semantic |-> 0, fps |-> 30], [guid |-> "b", semantic |-> 1, fps |-> 15]>>
WideLeft == <<[guid |-> "c", semantic |-> 3, fps |-> 60], [guid |-> "a", semantic |-> 0, fps |-> 15]>>
Unknown == <<[guid |-> "absent", semantic |-> 2, fps |-> 30]>>
TheProfiles == {LeftRight, WideLeft, Unknown}
TheBuses == {<<>>, <<"a">>, <<"b", "a">>, <<"c", "b", "a">>}

BothCameras == {<<0, 1>>}

TheRendered == {<<4, 4>>, <<6, 4>>, <<12, 8>>}
TheWanted == {1, 2, 3, 4, 6} \X {1, 2, 4}
TheFlows == {<<0, 0>>, <<1, 0>>, <<0, 1>>, <<2, 1>>, <<0, -1>>}
TheGarbage == {-1, 0}

TheNumbers == {<<20>>, <<40, 0, 60>>}
TheMotions == {<<-10, 10, 30>>}
TheSpeeds == {<<50, 0, -21>>, <<20, 50, 19>>}
TheBoards == {<<4, 4>>, <<8, 4>>, <<6, 4>>}
TheAsked == {2, 3, 4, 8} \X {2, 4}

(* Directories with missing files, and with images of several depths, one  *)
(* after the other in their file.                                          *)
Stored(columns, rows, depth) == [size |-> <<columns, rows>>, depth |-> depth]
BytesBefore(images, n) ==
  FoldLeft(LAMBDA sum, image : sum + 1 + BytesOf(image), 0, SubSeq(images, 1, n - 1))
FileOf(images) ==
  [n \in DOMAIN images |-> [at |-> BytesBefore(images, n), size |-> images[n].size, depth |-> images[n].depth]]
TheFiles == {<<>>, FileOf(<<Stored(2, 1, 1)>>), FileOf(<<Stored(1, 2, 1), Stored(2, 1, 1)>>),
             FileOf(<<Stored(2, 2, 3), Stored(2, 1, 1)>>),
             FileOf(<<Stored(2, 1, 3), Stored(1, 2, 3), Stored(2, 2, 3)>>),
             FileOf(<<Stored(1, 1, 1), Stored(2, 2, 1), Stored(1, 1, 1), Stored(2, 1, 1)>>)}
TheDirectories == UNION {[1 .. n -> TheFiles] : n \in 1 .. 2}
TheWantedSizes == {<<1, 1>>, <<2, 1>>}

TheConfigs == {<< <<"plain">> >>, << <<"plain">>, <<"left", "wide">> >>,
               << <<"right", "wide">>, <<"bad">>, <<"plain">> >>}

ThePairs == {[left |-> 1, right |-> 1, channels |-> 3], [left |-> 2, right |-> 2, channels |-> 1],
             [left |-> 1, right |-> 2, channels |-> 1]}

(* A file with the wide camera's calibrations, and one of the left's.      *)
CalibrationOf(name, projection, columns, rows) ==
  [path |-> "file", name |-> name, projection |-> projection, width |-> columns, height |-> rows]
TheEntries == {CalibrationOf("wide", "perspectiveProjWithoutDistortion", 320, 240),
               CalibrationOf("wide", "perspectiveProjWithoutDistortion", 640, 480),
               CalibrationOf("wide", "perspectiveProjWithDistortion", 320, 240),
               CalibrationOf("left", "perspectiveProjWithDistortion", 320, 240)}

-----------------------------------------------------------------------------
VARIABLE part

Parts == {"profiles", "images", "simulator", "files", "board", "subsampling", "stack",
          "differences", "conversion", "servoing", "limits", "points", "Harris points",
          "disparity", "parameters", "calibration", "SLAM", "Battle SLAM",
          "maps", "Kalman", "range map", "stereo"}

(* A part that does not run starts in the first of its initial states.     *)
Elsewhere(p, still) == part = p \/ still

PartsInit ==
  /\ part \in Parts
  /\ BoardInit /\ Elsewhere("profiles", bus = <<>>)
  /\ ImagesInit /\ Elsewhere("images", cameras = <<0, 1>>)
  /\ SimulatorInit /\ Elsewhere("simulator", rendered = <<4, 4>>)
  /\ FileInit /\ Elsewhere("files", directory = << <<>> >> /\ wantedSize[0] = <<1, 1>>)
  /\ ShotInit
  /\ SubsamplingInit /\ Elsewhere("subsampling", boardSize = <<4, 4>> /\ imageSize = <<2, 2>>)
  /\ StackInit /\ Elsewhere("stack", m_NumberOfImagesToStack = 1)
  /\ DifferenceInit /\ Elsewhere("differences", m_ImagesOnWhichToProcess = {0, 1})
  /\ ConversionInit /\ Elsewhere("conversion", m_conversion = "MAT_VISPU8")
  /\ ControlInit
  /\ LimitsInit
  /\ PointInit /\ Elsewhere("points", m_NbPoint = 0)
  /\ HarrisInit /\ Elsewhere("Harris points", m_SizeOfTheImage = 2)
  /\ DisparityInit /\ Elsewhere("disparity", m_ErrorModel = "unknown")
  /\ ParametersInit /\ Elsewhere("parameters", m_ParametersSize = 1)
  /\ CalibrationInit /\ Elsewhere("calibration", tracker = "point")
  /\ SlamInit /\ Elsewhere("SLAM", m_cxt /\ connected)
  /\ BattleInit
  /\ MapsInit
  /\ KalmanInit /\ Elsewhere("Kalman", kalmanPose = IdentityPose)
  /\ StereoVisionInit
  /\ Init /\ Elsewhere("stereo", grabbing = 0 /\ m_LLVSGrabbingStatus = 0)

(* An image whose camera was away has no size that matters, a meeting of   *)
(* operations leaves nothing to compare: what no property looks at until   *)
(* it is set again is left out of the view.                                *)
ImagesView ==
  <<serverImages, cameras, [s \in Semantics |-> IF s \in away THEN 0 ELSE cameraSize[s]],
    formatOf, resize, grab, copy, away,
    reformatted \ (away \union {s \in Semantics : resize = [pc |-> "depth", camera |-> s]})>>

MapsView ==
  <<members, slamRuns, stopping, unsure, Busy /\ crowded,
    IF Busy /\ crowded THEN <<[t \in Askers |-> [asking[t] EXCEPT !.into = NoMap]], NoMap>>
    ELSE <<asking, IF Stops THEN saved ELSE NoMap>>,
    IF "file" \in unsure THEN NoMap ELSE lastAsked, "wish" \notin unsure /\ planned>>

(* Whether a clean-up stopped the robot matters until the law starts again. *)
ControlView ==
  <<trackerVars, lawVars, frameVars, looppc, orbpc, sotVelocity, failed, stoppedMidFrame,
    orbpc = "clean-up" /\ outrun, (orbpc = "cleaned" \/ lawState = "CLEANED") /\ (unheard \/ outrun)>>

View(p) ==
  CASE p = "profiles" -> boardAll
    [] p = "images" -> ImagesView
    [] p = "simulator" -> simulatorVars
    [] p = "files" -> fileVars
    [] p = "board" -> shotVars
    [] p = "subsampling" -> subsamplingVars
    [] p = "stack" -> stackVars
    [] p = "differences" -> differenceVars
    [] p = "conversion" -> conversionVars
    [] p = "servoing" -> ControlView
    [] p = "limits" -> limitVars
    [] p = "points" -> pointVars
    [] p = "Harris points" -> harrisVars
    [] p = "disparity" -> disparityVars
    [] p = "parameters" -> parameterVars
    [] p = "calibration" -> calibVars
    [] p = "SLAM" -> slamVars
    [] p = "Battle SLAM" -> battleVars
    [] p = "maps" -> MapsView
    [] p = "Kalman" -> kalmanVars
    [] p = "range map" -> stereoVisionVars
    [] p = "stereo" -> vars

PartsView == <<part, View(part)>>

(* A step of part p is one of no other part.                               *)
Alone(p) ==
  /\ UNCHANGED part
  /\ IF p = "profiles" THEN TRUE ELSE UNCHANGED boardAll
  /\ IF p = "images" THEN TRUE ELSE UNCHANGED imageVars
  /\ IF p = "simulator" THEN TRUE ELSE UNCHANGED simulatorVars
  /\ IF p = "files" THEN TRUE ELSE UNCHANGED fileVars
  /\ IF p = "board" THEN TRUE ELSE UNCHANGED shotVars
  /\ IF p = "subsampling" THEN TRUE ELSE UNCHANGED subsamplingVars
  /\ IF p = "stack" THEN TRUE ELSE UNCHANGED stackVars
  /\ IF p = "differences" THEN TRUE ELSE UNCHANGED differenceVars
  /\ IF p = "conversion" THEN TRUE ELSE UNCHANGED conversionVars
  /\ IF p = "servoing" THEN TRUE ELSE UNCHANGED controlVars
  /\ IF p = "limits" THEN TRUE ELSE UNCHANGED limitVars
  /\ IF p = "points" THEN TRUE ELSE UNCHANGED pointVars
  /\ IF p = "Harris points" THEN TRUE ELSE UNCHANGED harrisVars
  /\ IF p = "disparity" THEN TRUE ELSE UNCHANGED disparityVars
  /\ IF p = "parameters" THEN TRUE ELSE UNCHANGED parameterVars
  /\ IF p = "calibration" THEN TRUE ELSE UNCHANGED calibVars
  /\ IF p = "SLAM" THEN TRUE ELSE UNCHANGED slamVars
  /\ IF p = "Battle SLAM" THEN TRUE ELSE UNCHANGED battleVars
  /\ IF p = "maps" THEN TRUE ELSE UNCHANGED mapVars
  /\ IF p = "Kalman" THEN TRUE ELSE UNCHANGED kalmanVars
  /\ IF p = "range map" THEN TRUE ELSE UNCHANGED stereoVisionVars
  /\ IF p = "stereo" THEN TRUE ELSE UNCHANGED vars

PartsNext ==
  \/ part = "profiles" /\ BoardNext /\ Alone("profiles")
  \/ part = "images" /\ ImagesNext /\ Alone("images")
  \/ part = "simulator" /\ SimulatorNext /\ Alone("simulator")
  \/ part = "files" /\ FileNext /\ Alone("files")
  \/ part = "board" /\ ShotNext /\ Alone("board")
  \/ part = "subsampling" /\ SubsamplingNext /\ Alone("subsampling")
  \/ part = "stack" /\ StackNext /\ Alone("stack")
  \/ part = "differences" /\ DifferenceNext /\ Alone("differences")
  \/ part = "conversion" /\ ConversionNext /\ Alone("conversion")
  \/ part = "servoing" /\ ControlNext /\ Alone("servoing")
  \/ part = "limits" /\ LimitsNext /\ Alone("limits")
  \/ part = "points" /\ PointNext /\ Alone("points")
  \/ part = "Harris points" /\ HarrisNext /\ Alone("Harris points")
  \/ part = "disparity" /\ DisparityNext /\ Alone("disparity")
  \/ part = "parameters" /\ ParametersNext /\ Alone("parameters")
  \/ part = "calibration" /\ CalibrationNext /\ Alone("calibration")
  \/ part = "SLAM" /\ SlamNext /\ Alone("SLAM")
  \/ part = "Battle SLAM" /\ BattleNext /\ Alone("Battle SLAM")
  \/ part = "maps" /\ MapsNext /\ Alone("maps")
  \/ part = "Kalman" /\ KalmanNext /\ Alone("Kalman")
  \/ part = "range map" /\ StereoVisionNext /\ Alone("range map")
  \/ part = "stereo" /\ Next /\ Alone("stereo")

everything == <<part, boardAll, imageVars, simulatorVars, fileVars, shotVars,
                subsamplingVars, stackVars, differenceVars, conversionVars,
                controlVars, limitVars, pointVars, harrisVars, disparityVars,
                parameterVars, calibVars, slamVars, battleVars,
                mapVars, kalmanVars, stereoVisionVars, vars>>

(* The fairness of the servoing, the one part that states any.             *)
PartsSpec ==
  /\ PartsInit /\ [][PartsNext]_everything
  /\ WF_controlVars(part = "servoing" /\ ControlLoop)
  /\ WF_controlVars(part = "servoing" /\ OrbProceeds)
  /\ SF_controlVars(part = "servoing" /\ LawWrites(TRUE))

-----------------------------------------------------------------------------
(* An image that is subsampled by the simulator's input or by the board's, *)
(* or converted between two libraries, has every pixel where it belongs.   *)
PixelsWhereTheyBelong ==
  []GrabIsTheSubsampledImage /\ []AveragesOfTheirBoxes /\ PixelsInPlace
=============================================================================
