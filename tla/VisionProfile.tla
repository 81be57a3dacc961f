--------------------------- MODULE VisionProfile ---------------------------
(***************************************************************************)
(* The vision system profiles of HRP2IEEE1394DCImagesInputMethod.  A       *)
(* profile lists cameras by their GUID, each with the semantic it has for  *)
(* the robot (0 LEFT, 1 RIGHT, 2 CYCL, 3 WIDE) and its frame rate.  When   *)
(* the board is initialised, the profile with most cameras on the bus is   *)
(* chosen and the cameras are put in its order.  Three lists are indexed   *)
(* by one number after that: the profile's, the cameras', and the map from *)
(* semantics to cameras, which the reading of a profile writes.            *)
(*                                                                         *)
(* Indices start at 1 here; 0 stands for the code's -1.  Of a frame rate,  *)
(* 60, 30 or 15, the grabbing period is kept as the same number; 0 is the  *)
(* period of a camera whose rate InitializeCameras does not know.  The     *)
(* module is one thread's view, between the calls of the other.            *)
(***************************************************************************)
EXTENDS Integers, SequencesExt, Selection

CONSTANTS
  Profiles,       \* the profiles that files may hold
  Buses,          \* the sequences of GUIDs the bus may enumerate
  MaxProfiles     \* bound: the profiles read

RobotSemantics == 0 .. 3
Entry == [guid : UNION {ToSet(b) : b \in Buses} \cup {"absent"},
          semantic : RobotSemantics, fps : {60, 30, 15}]

ASSUME ProfileAssumption ==
  /\ \A p \in Profiles : /\ p \in Seq(Entry)
                         /\ \A i, j \in DOMAIN p :
                              i # j => p[i].guid # p[j].guid /\ p[i].semantic # p[j].semantic
  /\ \A b \in Buses : b \in Seq(ToSet(b)) /\ IsInjective(b)   \* a camera is found once
  /\ MaxProfiles \in Nat

VARIABLES
  boardState,                     \* "constructing", "initialized", "starting",
                                  \* "started", "stopped", or "absent"
  bus,                            \* the cameras connected now
  detectedOn,                     \* history: the bus of the last InitializeBoard
  emptied,                        \* history: m_DC1394Cameras was empty before it
  m_VisionSystemProfiles,
  m_CurrentVisionSystemProfileID,
  m_MapFromSemanticToRealCamera,
  lastRead,                       \* history: the profile that wrote the map last
  m_DC1394Cameras,
  m_GrabbingPeriod,
  m_Format,
  initializedBy                   \* the camera whose features each entry has set

profileVars == <<m_VisionSystemProfiles, m_MapFromSemanticToRealCamera, lastRead>>
boardVars == <<detectedOn, emptied, m_CurrentVisionSystemProfileID, m_DC1394Cameras,
               m_GrabbingPeriod, m_Format, initializedBy>>
boardAll == <<boardState, bus, profileVars, boardVars>>

-----------------------------------------------------------------------------
(* Reading a profile.                                                      *)

(* The map is written at once, whatever profile is or will be chosen, and  *)
(* the entries of an earlier profile stay.                                 *)
MapAfterReading(p, map) ==
  [s \in RobotSemantics |->
     IF \E i \in DOMAIN p : p[i].semantic = s
     THEN CHOOSE i \in DOMAIN p : p[i].semantic = s
     ELSE map[s]]

ReadConfigurationFileVSPFormat(p) ==
  /\ m_VisionSystemProfiles' = Append(m_VisionSystemProfiles, p)
  /\ m_MapFromSemanticToRealCamera' = MapAfterReading(p, m_MapFromSemanticToRealCamera)
  /\ lastRead' = Len(m_VisionSystemProfiles) + 1

(* The older format has no semantics: an entry's is its position, and the  *)
(* map is left alone.                                                      *)
InVVVFormat(p) == [i \in DOMAIN p |-> [p[i] EXCEPT !.semantic = i - 1]]

ReadConfigurationFileVVVFormat(p) ==
  /\ m_VisionSystemProfiles' = Append(m_VisionSystemProfiles, InVVVFormat(p))
  /\ UNCHANGED <<m_MapFromSemanticToRealCamera, lastRead>>

(* The constructor reads Default.vsp and Unibrain.vsp, if they exist.      *)
ReadDefaults ==
  /\ boardState = "constructing" /\ Len(m_VisionSystemProfiles) < 2
  /\ \E p \in Profiles : ReadConfigurationFileVSPFormat(p)
  /\ UNCHANGED <<boardState, bus, boardVars>>

pSetParameter ==
  /\ boardState \notin {"constructing", "absent"}
  /\ Len(m_VisionSystemProfiles) < MaxProfiles
  /\ \E p \in Profiles : \/ ReadConfigurationFileVSPFormat(p)
                         \/ ReadConfigurationFileVVVFormat(p)
  /\ UNCHANGED <<boardState, bus, boardVars>>

-----------------------------------------------------------------------------
(* DetectTheBestVisionSystemProfile.                                       *)

(* Every camera of the list that an entry names counts, a camera that is   *)
(* in the list twice counts twice.                                         *)
Score(p, cameras) ==
  Cardinality({jk \in (DOMAIN p) \X (DOMAIN cameras) : p[jk[1]].guid = cameras[jk[2]]})

(* The first of the profiles with the highest score, if that is not 0.     *)
BestCandidate(scores) ==
  LET best == {i \in DOMAIN scores : /\ scores[i] > 0
                                     /\ \A j \in DOMAIN scores : scores[j] <= scores[i]}
  IN  IF best = {} THEN 0 ELSE CHOOSE i \in best : \A j \in best : i <= j

NoTie(scores, best, current) == FALSE

(* Another profile with the best score, be it 0.                           *)
Tie(scores, best, current) ==
  \E k \in DOMAIN scores :
    k # current /\ scores[k] = IF best = 0 THEN 0 ELSE scores[best]

GUIDs(p) == [i \in DOMAIN p |-> p[i].guid]
BusOrder(p, cameras) == Selected(cameras, ToSet(GUIDs(p)))
KeptCameras(p, cameras) == IF Len(p) < Len(cameras) THEN BusOrder(p, cameras) ELSE cameras

(* One camera for each entry that has one, with no gap for the others.     *)
InProfileOrder(p, cameras) == Selected(GUIDs(p), ToSet(cameras))

-----------------------------------------------------------------------------
(* InitializeBoard.                                                        *)

(* The camera at i gets the frame rate of the entry at i.                  *)
DecideBasicFeatureOnCamera(p, i) == p[i].fps

(* resize to the cameras, the known rates written, resize to four.         *)
PeriodsSet(p, cameras) ==
  [i \in 1 .. 4 |->
     IF i > Len(cameras) THEN 0
     ELSE IF DecideBasicFeatureOnCamera(p, i) \in {30, 15}
          THEN DecideBasicFeatureOnCamera(p, i)
          ELSE IF i \in DOMAIN m_GrabbingPeriod THEN m_GrabbingPeriod[i] ELSE 0]

(* An entry's features go, through the map, to the camera of its semantic. *)
InitializeCamera(p, cameras) ==
  [s \in RobotSemantics |->
     LET i == m_MapFromSemanticToRealCamera[s] IN
     IF /\ \E e \in ToSet(p) : e.semantic = s /\ e.guid \in ToSet(cameras)
        /\ i \in DOMAIN cameras
     THEN cameras[i]
     ELSE "none"]

InitializeCameras(p, cameras) ==
  /\ m_GrabbingPeriod' = PeriodsSet(p, cameras)
  /\ initializedBy' = InitializeCamera(p, cameras)
  /\ m_Format' = [i \in DOMAIN cameras |-> "RGB"]

(* The cameras of the bus are added to the list, and the detection may     *)
(* refuse: the list and the chosen profile are then as they have become.   *)
InitializeBoard(then, otherwise) ==
  LET found == m_DC1394Cameras \o bus
      scores == [i \in DOMAIN m_VisionSystemProfiles |-> Score(m_VisionSystemProfiles[i], found)]
      best == BestCandidate(scores)
      current == IF best # 0 THEN best ELSE m_CurrentVisionSystemProfileID
  IN
  /\ detectedOn' = bus
  /\ emptied' = (m_DC1394Cameras = <<>>)
  /\ m_CurrentVisionSystemProfileID' = current
  /\ IF current = 0 \/ Tie(scores, best, current)
     THEN /\ m_DC1394Cameras' = found
          /\ boardState' = otherwise
          /\ UNCHANGED <<m_GrabbingPeriod, m_Format, initializedBy>>
     ELSE LET p == m_VisionSystemProfiles[current]
              cameras == InProfileOrder(p, KeptCameras(p, found))
          IN  /\ m_DC1394Cameras' = cameras
              /\ InitializeCameras(p, cameras)
              /\ boardState' = then
  /\ UNCHANGED <<bus, profileVars>>

Construct ==
  /\ boardState = "constructing"
  /\ InitializeBoard("initialized", "absent")

StartProcess_board ==
  /\ boardState \in {"initialized", "stopped"}
  /\ InitializeBoard("started", "starting")

(* StopBoard and CleanMemory empty the list and the periods.               *)
StopBoard ==
  /\ boardState \in {"initialized", "starting", "started"}
  /\ boardState' = "stopped"
  /\ m_DC1394Cameras' = <<>> /\ m_GrabbingPeriod' = <<>>
  /\ UNCHANGED <<bus, profileVars, detectedOn, emptied, m_CurrentVisionSystemProfileID,
                 m_Format, initializedBy>>

-----------------------------------------------------------------------------
(* Calls that name a camera by its semantic.                               *)

(* The index of the camera, or 0 for one of the errors.                    *)
GetCameraIdOf(s) ==
  LET i == m_MapFromSemanticToRealCamera[s]
  IN  IF i \in DOMAIN m_DC1394Cameras THEN i ELSE 0

(* pSetParameter("Format", f): the prefix of the whole word is not that of *)
(* a camera, and LEFT it is.  m_Format may be shorter than the list.       *)
SetFormatOfLeft(f) ==
  LET i == GetCameraIdOf(0) IN
  /\ boardState \notin {"constructing", "absent"}
  /\ i \in DOMAIN m_Format
  /\ m_Format' = [m_Format EXCEPT ![i] = f]
  /\ UNCHANGED <<boardState, bus, profileVars, detectedOn, emptied,
                 m_CurrentVisionSystemProfileID, m_DC1394Cameras, m_GrabbingPeriod,
                 initializedBy>>

(* A camera is plugged in or out.                                          *)
Plug ==
  /\ bus' \in Buses
  /\ UNCHANGED <<boardState, profileVars, boardVars>>

-----------------------------------------------------------------------------
BoardInit ==
  /\ boardState = "constructing"
  /\ bus \in Buses
  /\ detectedOn = <<>> /\ emptied = TRUE
  /\ m_VisionSystemProfiles = <<>> /\ lastRead = 0
  /\ m_MapFromSemanticToRealCamera = [s \in RobotSemantics |-> 0]
  /\ m_CurrentVisionSystemProfileID = 0
  /\ m_DC1394Cameras = <<>>
  /\ m_GrabbingPeriod = [i \in 1 .. 4 |-> 0]
  /\ m_Format = <<>>
  /\ initializedBy = [s \in RobotSemantics |-> "none"]

BoardNext ==
  \/ ReadDefaults \/ Construct \/ StartProcess_board \/ StopBoard \/ pSetParameter \/ Plug
  \/ \E f \in {"RGB", "PGM"} : SetFormatOfLeft(f)

BoardSpec == BoardInit /\ [][BoardNext]_boardAll

-----------------------------------------------------------------------------
(* Properties.                                                             *)

BoardTypeOK ==
  /\ boardState \in {"constructing", "initialized", "starting", "started", "stopped", "absent"}
  /\ m_CurrentVisionSystemProfileID \in 0 .. Len(m_VisionSystemProfiles)
  /\ m_MapFromSemanticToRealCamera \in [RobotSemantics -> 0 .. 4]
  /\ m_GrabbingPeriod = <<>> \/ m_GrabbingPeriod \in [1 .. 4 -> {0, 15, 30}]
  /\ boardState = "started" => Len(m_Format) = Len(m_DC1394Cameras)

Current == m_VisionSystemProfiles[m_CurrentVisionSystemProfileID]
Present(p, cameras) == {p[i].guid : i \in DOMAIN p} \cap ToSet(cameras)
OnBus(p) == Present(p, detectedOn)
Complete == OnBus(Current) = {Current[i].guid : i \in DOMAIN Current}

(* "The one with the highest number of camera present win": a start from   *)
(* an empty list that succeeds has chosen a profile with more cameras on   *)
(* the bus than any other that was there, or there was no choice.  (The    *)
(* profiles read since are not looked at.)                                 *)
BestProfileChosen ==
  [][ /\ boardState' = "started" /\ boardState # "started"
      /\ m_DC1394Cameras = <<>>
      => LET chosen == m_CurrentVisionSystemProfileID'
             Cameras(i) == Cardinality(Present(m_VisionSystemProfiles[i], bus))
         IN  \A i \in (DOMAIN m_VisionSystemProfiles) \ {chosen} :
               Cameras(i) < Cameras(chosen)
    ]_boardAll

(* The cameras kept are those of the profile that are on the bus, once     *)
(* each, even when the list was not emptied before (a start of a process   *)
(* that was initialised and never stopped) and each was found twice.       *)
CamerasKept ==
  boardState = "started" /\ ToSet(m_DC1394Cameras) \subseteq ToSet(detectedOn) =>
    /\ IsInjective(m_DC1394Cameras)
    /\ ToSet(m_DC1394Cameras) = OnBus(Current)
    /\ \A i, j \in DOMAIN m_DC1394Cameras : \A k, l \in DOMAIN Current :
         /\ i < j
         /\ Current[k].guid = m_DC1394Cameras[i]
         /\ Current[l].guid = m_DC1394Cameras[j]
         => k < l

(* Every image reaches the buffer of the camera it comes from, at its      *)
(* rate: the camera found for a semantic of the profile is the one the     *)
(* profile gives that semantic, and it has been set with the features of   *)
(* its own entry.  It takes that none of the profile's cameras is missing, *)
(* and, for the image, that the profile was the last to write the map,     *)
(* when the board was set up and since; without either the camera is       *)
(* another one's.  A rate of 60 has no period: that of the board's         *)
(* initialisation stays, if it was not stopped.                            *)
ImageOfItsCamera ==
  boardState = "started" /\ Complete =>
    \A e \in ToSet(Current) :
      /\ e.fps # 60 =>
           \A i \in DOMAIN m_DC1394Cameras :
             m_DC1394Cameras[i] = e.guid => m_GrabbingPeriod[i] = e.fps
      /\ lastRead = m_CurrentVisionSystemProfileID =>
           /\ GetCameraIdOf(e.semantic) # 0
           /\ m_DC1394Cameras[GetCameraIdOf(e.semantic)] = e.guid
           /\ initializedBy[e.semantic] = e.guid

(* Both: the server grabs from the cameras of its profile, in its order,   *)
(* each with its own settings and into its own buffer.                     *)
CamerasOfTheProfile == CamerasKept /\ ImageOfItsCamera
=============================================================================
