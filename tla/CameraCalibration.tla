------------------------- MODULE CameraCalibration -------------------------
(***************************************************************************)
(* The calibration of the camera the two trackers work with                *)
(* (HRP2PointTrackingProcess and HRP2nmbtTrackingProcess).  It is looked   *)
(* up in a file of calibrations, by the camera's name, the projection and  *)
(* the size of the image, each time one of those is set; a file without    *)
(* such an entry leaves the calibration in use.  Clients set them, and the *)
(* loop converts the points of a frame, with no lock between them.  The    *)
(* point tracker converts each point with the calibration of that moment,  *)
(* the model tracker works with the one it was given last.                 *)
(*                                                                         *)
(* The parser is ViSP's: the entry is looked for with the settings as they *)
(* are when it is called, and stored when it returns.  A calibration is    *)
(* the entry it was read from.                                             *)
(***************************************************************************)
EXTENDS Naturals, Sequences, SequencesExt, FiniteSets

CONSTANTS
  Callers,        \* the threads of the ORB
  CameraPaths,    \* calibration files
  CameraNames,    \* cameras
  Widths,         \* the widths of the images the trackers may be given
  Entries,        \* the entries of the files: [path, name, projection, width, height]
  Converted       \* the points of a target

ASSUME CalibrationAssumption ==
  /\ Callers # {} /\ Converted \in Nat \ {0}
  /\ "file" \in CameraPaths /\ "wide" \in CameraNames
  /\ CameraPaths \intersect {"given", "none", "half written"} = {}

VARIABLES
  tracker,        \* which of the two this is
  sought,         \* m_pathCam, m_nameCam, m_projType, m_imageWidth and m_imageHeight
  cam,            \* m_cam
  camOfTracker,   \* the model tracker's own copy
  caller,         \* the call of each thread
  points,         \* the calibration of each point of this frame converted so far
  camGiven,       \* history: SetCameraParameters gave the calibration, not a file
  overtaken,      \* history: two calls overlapped, and none was made alone since
  changed,        \* history: a call was under way in this frame
  unsaid          \* history: the calibration was changed by a parameter

camera == <<sought, cam, camOfTracker>>
frameOfPoints == <<points, changed>>
calibVars == <<tracker, camera, caller, frameOfPoints, camGiven, overtaken, unsaid>>

NotCalling == [at |-> "idle"]
Quiet == caller = [c \in Callers |-> NotCalling]
Projections == {"perspectiveProjWithDistortion", "perspectiveProjWithoutDistortion"}
Default == [path |-> "file", name |-> "wide", projection |-> "perspectiveProjWithoutDistortion",
            width |-> 320, height |-> 240]

(* Calibrations of no file: the one SetCameraParameters gives, none at     *)
(* all, and what is looked for when a name is half written.                *)
NoFile(which) == [Default EXCEPT !.path = which]

(* Parsing gives the entry that was looked for, or what there was.         *)
EntryOr(settings, entry) == IF settings \in Entries THEN settings ELSE entry

-----------------------------------------------------------------------------
(* Between the frames, by who owns the tracker: the calibration itself, or *)
(* the images.                                                             *)

BetweenFrames == Quiet /\ points = <<>>
TellTracker(entry) == camOfTracker' = IF tracker = "model" THEN entry ELSE camOfTracker

SetCameraParameters ==
  /\ BetweenFrames
  /\ cam' = NoFile("given") /\ camGiven' = TRUE
  /\ TellTracker(NoFile("given"))
  /\ unsaid' = FALSE
  /\ UNCHANGED <<tracker, sought, caller, frameOfPoints, overtaken>>

(* Images of another width: the calibration is looked up anew, for a       *)
(* height that is the width, and the model tracker is told.                *)
SetInputVispImages ==
  /\ BetweenFrames
  /\ \E width \in Widths \ {sought.width} :
       sought' = [sought EXCEPT !.width = width, !.height = width]
  /\ cam' = EntryOr(sought', cam)
  /\ TellTracker(cam')
  /\ camGiven' = (camGiven /\ sought' \notin Entries)
  /\ unsaid' = FALSE
  /\ UNCHANGED <<tracker, caller, frameOfPoints, overtaken>>

-----------------------------------------------------------------------------
(* pSetParameter: PATH_CAM, CAME_NAME and CAME_PROJ_TYP.                   *)

Parameters ==
  [setting : {"path"}, value : CameraPaths] \union [setting : {"name"}, value : CameraNames]
    \union [setting : {"projection"}, value : Projections \union {"unknown"}]

SetCalibration(c) ==
  /\ caller[c] = NotCalling
  /\ \E p \in Parameters : caller' = [caller EXCEPT ![c] = [at |-> "assign", parameter |-> p]]
  /\ overtaken' = (overtaken \/ ~Quiet) /\ changed' = (points # <<>>)
  /\ UNCHANGED <<tracker, camera, points, camGiven, unsaid>>

(* A projection that is neither is refused with -2.                        *)
RefuseProjection(c) ==
  /\ caller[c].at = "assign" /\ caller[c].parameter.value = "unknown"
  /\ caller' = [caller EXCEPT ![c] = NotCalling]
  /\ UNCHANGED <<tracker, camera, frameOfPoints, camGiven, overtaken, unsaid>>

AssignOnly(c) ==
  /\ caller[c].at = "assign" /\ caller[c].parameter.value # "unknown"
  /\ sought' = [sought EXCEPT ![caller[c].parameter.setting] = caller[c].parameter.value]
  /\ caller' = [caller EXCEPT ![c] = IF caller[c].parameter.setting = "projection" THEN NotCalling
                                     ELSE [at |-> "parse"]]
  /\ overtaken' = \E d \in Callers \ {c} : caller[d] # NotCalling
  /\ UNCHANGED <<tracker, cam, camOfTracker, frameOfPoints, camGiven, unsaid>>

AssignSetting(c) ==
  /\ caller[c].at = "assign" /\ caller[c].parameter.value # "unknown"
  /\ sought' = [sought EXCEPT ![caller[c].parameter.setting] = caller[c].parameter.value]
  /\ caller' = [caller EXCEPT ![c] = [at |-> "parse"]]
  /\ overtaken' = \E d \in Callers \ {c} : caller[d] # NotCalling
  /\ UNCHANGED <<tracker, cam, camOfTracker, frameOfPoints, camGiven, unsaid>>

(* A name that another call is assigning may be read half written: then no *)
(* entry has it.                                                           *)
ParseCamParam(c) ==
  /\ caller[c].at = "parse"
  /\ \/ caller' = [caller EXCEPT ![c] = [at |-> "store", entry |-> sought]]
     \/ /\ \E d \in Callers : caller[d].at = "assign"
        /\ caller' = [caller EXCEPT ![c] = [at |-> "store", entry |-> NoFile("half written")]]
  /\ UNCHANGED <<tracker, camera, frameOfPoints, camGiven, overtaken, unsaid>>

(* The calibration is stored; the model tracker is not told.               *)
StoreCam(c) ==
  /\ caller[c].at = "store"
  /\ cam' = EntryOr(caller[c].entry, cam)
  /\ camGiven' = (camGiven /\ caller[c].entry \notin Entries)
  /\ unsaid' = (unsaid \/ cam' # cam)
  /\ caller' = [caller EXCEPT ![c] = NotCalling]
  /\ UNCHANGED <<tracker, sought, camOfTracker, frameOfPoints, overtaken>>

-----------------------------------------------------------------------------
(* A frame of the tracker.                                                 *)

(* computePose of the point tracker converts one point after the other ... *)
ConvertPoint ==
  /\ tracker = "point" /\ Len(points) < Converted
  /\ points' = Append(points, cam)
  /\ changed' = IF points = <<>> THEN ~Quiet ELSE changed
  /\ UNCHANGED <<tracker, camera, caller, camGiven, overtaken, unsaid>>

(* ... and has the pose of all of them.                                    *)
computePoseOfPoints ==
  /\ Len(points) = Converted
  /\ points' = <<>> /\ changed' = FALSE
  /\ UNCHANGED <<tracker, camera, caller, camGiven, overtaken, unsaid>>

-----------------------------------------------------------------------------
CalibrationInit ==
  /\ tracker \in {"point", "model"}
  /\ sought = Default
  /\ cam = EntryOr(Default, NoFile("none"))
  /\ camOfTracker = cam
  /\ caller = [c \in Callers |-> NotCalling]
  /\ points = <<>> /\ changed = FALSE
  /\ camGiven = FALSE /\ overtaken = FALSE /\ unsaid = FALSE

CalibrationNext ==
  \/ SetCameraParameters \/ SetInputVispImages
  \/ \E c \in Callers : \/ SetCalibration(c) \/ RefuseProjection(c) \/ AssignSetting(c)
                        \/ ParseCamParam(c) \/ StoreCam(c)
  \/ ConvertPoint \/ computePoseOfPoints

CalibrationSpec == CalibrationInit /\ [][CalibrationNext]_calibVars

-----------------------------------------------------------------------------
(* Properties.                                                             *)

(* Once the calls have returned the calibration is the one the settings    *)
(* ask for, if the file has it, whatever was set before and in which order *)
(* ("if the dimension are different from the stored one update the         *)
(* dimension and the calib param"), unless it was given, or two calls      *)
(* overlapped, the one that looked first may store last, and the next call *)
(* has not mended that.                                                    *)
CalibrationOfTheSettings ==
  Quiet /\ ~camGiven /\ ~overtaken /\ sought \in Entries => cam = sought

(* The points of a pose are converted with one calibration, unless a       *)
(* parameter was set in its frame; the model tracker's own copy is that of *)
(* the process, which a parameter changes without telling it.              *)
PoseOfOneCalibration ==
  /\ ~changed => Cardinality(ToSet(points)) <= 1
  /\ tracker = "model" /\ ~unsaid => camOfTracker = cam
=============================================================================
