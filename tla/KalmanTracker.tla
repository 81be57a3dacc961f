---------------------------- MODULE KalmanTracker ----------------------------
(***************************************************************************)
(* HRP2KalmanOnNMBTProcess (src/ModelTracker/nmbt/kalmanOnNMBTProcess.cpp):*)
(* the model tracker with a Kalman filter around it.  A frame predicts the *)
(* pose, tracks from it and updates the filter with what was found.  The   *)
(* filter and the tracker are libraries: the model keeps what each pose is *)
(* and of which time, and the sizes of what the filter is built from.      *)
(* Clients set parameters at any point of a frame.                         *)
(***************************************************************************)
EXTENDS Integers

CONSTANTS
  StateTypes,      \* of VEL_CAM, VEL_OBJ, ACC_CAM, ACC_OBJ, CTL_CAM, CTL_OBJ
  MaxTime,         \* bound of the model: the time of the last image
  Calibrations     \* what PATH_CAM, CAME_NAME and CAME_PROJ_TYP may select

ASSUME KalmanAssumption ==
  /\ StateTypes \subseteq {"VEL_CAM", "VEL_OBJ", "ACC_CAM", "ACC_OBJ", "CTL_CAM", "CTL_OBJ"}
  /\ MaxTime \in Nat /\ "default" \notin Calibrations

VARIABLES
  clock,                \* m_timestamps[CAMERA_WIDE], *m_TimeStampLLVS
  m_LastTimeStamp,
  m_StateType,
  sizeOfP,              \* the rows of m_P
  m_Kalman,             \* the filter, or NoFilter
  m_ReIntializedNMBT,
  kalmanPose,           \* of m_tracker
  kalmanOutput,         \* m_outputcMo
  m_cam, trackerCam,    \* the camera of the process and that of its tracker
  projectedWith,        \* the cameras m_projectedObjectCoG comes from
  kalmanRuns,           \* m_Computing
  kalmanAt,             \* of the loop: "limbo" before the first start, "idle", ...
  initialised,          \* history: the time of the initialisation
  unordered,            \* history: a type of another size was not followed by a KALMAN_PVAR
                        \* before the start, or came after it
  recalibrated          \* history: a camera's parameter was set

filterVars == <<m_LastTimeStamp, m_Kalman>>
poseVars == <<kalmanPose, kalmanOutput, projectedWith>>
settingVars == <<m_StateType, sizeOfP, m_ReIntializedNMBT, m_cam, trackerCam>>
kalmanHistories == <<initialised, unordered, recalibrated>>
kalmanVars == <<clock, filterVars, poseVars, settingVars, kalmanRuns, kalmanAt, kalmanHistories>>

NoFilter == [size |-> 0]
Pose(from, time) == [from |-> from, time |-> time]
IdentityPose == Pose("identity", 0)

-----------------------------------------------------------------------------
(* Parameters.                                                             *)

m_StateSize(type) == IF type \in {"ACC_CAM", "ACC_OBJ"} THEN 15 ELSE 12

SetState(type) ==
  /\ m_StateType' = type
  /\ unordered' = (unordered \/ m_StateSize(type) # m_StateSize(m_StateType))
  /\ UNCHANGED <<clock, filterVars, poseVars, sizeOfP, m_ReIntializedNMBT, m_cam, trackerCam,
                 kalmanRuns, kalmanAt, initialised, recalibrated>>

(* m_P gets the size of the state; the filter has a copy of it.            *)
SetPVar ==
  /\ sizeOfP' = m_StateSize(m_StateType)
  /\ unordered' = (unordered /\ m_Kalman # NoFilter)
  /\ UNCHANGED <<clock, filterVars, poseVars, m_StateType, m_ReIntializedNMBT, m_cam, trackerCam,
                 kalmanRuns, kalmanAt, initialised, recalibrated>>

SetReinit(on) ==
  /\ m_ReIntializedNMBT' = on
  /\ UNCHANGED <<clock, filterVars, poseVars, m_StateType, sizeOfP, m_cam, trackerCam, kalmanRuns,
                 kalmanAt, kalmanHistories>>

(* The camera is parsed again from what the parameters name, and stays as  *)
(* it is where the file has none; the tracker is not told.                 *)
SetCameraParameter(parsed) ==
  /\ m_cam' = parsed
  /\ recalibrated' = TRUE
  /\ UNCHANGED <<clock, filterVars, poseVars, m_StateType, sizeOfP, m_ReIntializedNMBT, trackerCam,
                 kalmanRuns, kalmanAt, initialised, unordered>>

SetKalmanParameter ==
  \/ \E type \in StateTypes : SetState(type)
  \/ SetPVar
  \/ \E on \in BOOLEAN : SetReinit(on)
  \/ \E parsed \in Calibrations : SetCameraParameter(parsed)

-----------------------------------------------------------------------------
(* The first start initialises, the others do not.                         *)

(* Sizes that do not go together leave the library to do anything.         *)
MayFail(sizesAgree) == {"idle"} \cup (IF sizesAgree THEN {} ELSE {"dead"})

(* The first image is tracked from the pose of the file; the filter starts *)
(* from that pose, found in the image or not.                              *)
InitializeKalman(found) ==
  /\ kalmanAt = "limbo"
  /\ kalmanPose' = IF found THEN Pose("tracked", clock) ELSE kalmanPose
  /\ kalmanOutput' = IdentityPose
  /\ m_Kalman' = [size |-> m_StateSize(m_StateType), covered |-> 0, state |-> Pose("file", 0)]
  /\ m_LastTimeStamp' = clock
  /\ initialised' = clock
  /\ kalmanRuns' = TRUE
  /\ kalmanAt' \in MayFail(sizeOfP = m_StateSize(m_StateType))
  /\ UNCHANGED <<clock, projectedWith, settingVars, unordered, recalibrated>>

StartOrStopKalman ==
  /\ kalmanAt \notin {"limbo", "dead"}
  /\ kalmanRuns' = ~kalmanRuns
  /\ UNCHANGED <<clock, filterVars, poseVars, settingVars, kalmanAt, kalmanHistories>>

-----------------------------------------------------------------------------
(* The loop: an image of the wide camera, then its frame.                  *)

GrabWide(time) ==
  /\ kalmanAt \in {"limbo", "idle"} /\ time >= clock
  /\ clock' = time
  /\ UNCHANGED <<filterVars, poseVars, settingVars, kalmanRuns, kalmanAt, kalmanHistories>>

StampNotTaken ==
  /\ kalmanAt = "idle" /\ kalmanRuns
  /\ m_Kalman' = [m_Kalman EXCEPT !.covered = @ + (clock - m_LastTimeStamp), !.state = Pose("prediction", clock)]
  /\ kalmanPose' = Pose("prediction", clock)
  /\ kalmanAt' = "track"
  /\ UNCHANGED <<clock, m_LastTimeStamp, kalmanOutput, projectedWith, settingVars, kalmanRuns,
                 kalmanHistories>>

(* The filter predicts over the time since the last frame; the tracker     *)
(* goes on from there and not from where it was.  KalmanOnSoT, before it   *)
(* with CTL_CAM, has no data: nothing fills its queue.                     *)
KalmanPredicts ==
  /\ kalmanAt = "idle" /\ kalmanRuns
  /\ m_LastTimeStamp' = clock
  /\ m_Kalman' = [m_Kalman EXCEPT !.covered = @ + (clock - m_LastTimeStamp), !.state = Pose("prediction", clock)]
  /\ kalmanPose' = Pose("prediction", clock)
  /\ kalmanAt' = "track"
  /\ UNCHANGED <<clock, kalmanOutput, projectedWith, settingVars, kalmanRuns, kalmanHistories>>

(* A tracking that gets lost makes the output the identity.  The object's  *)
(* centre is projected with the process's camera.                          *)
KalmanTracks(found) ==
  /\ kalmanAt = "track"
  /\ IF found THEN /\ kalmanPose' = Pose("tracked", clock)
                   /\ kalmanOutput' = kalmanPose'
                   /\ projectedWith' = <<m_cam, trackerCam>>
     ELSE kalmanOutput' = IdentityPose /\ UNCHANGED <<kalmanPose, projectedWith>>
  /\ kalmanAt' = "update"
  /\ UNCHANGED <<clock, filterVars, settingVars, kalmanRuns, kalmanHistories>>

(* The filter is updated with the output, an identity too, and gives the   *)
(* new one.                                                                *)
KalmanUpdates ==
  /\ kalmanAt = "update"
  /\ m_Kalman' = [m_Kalman EXCEPT !.state = [from |-> "update", time |-> clock, measure |-> kalmanOutput]]
  /\ kalmanOutput' = m_Kalman'.state
  /\ kalmanPose' = IF m_ReIntializedNMBT THEN m_Kalman'.state ELSE kalmanPose
  /\ kalmanAt' = "dump"
  /\ UNCHANGED <<clock, m_LastTimeStamp, projectedWith, settingVars, kalmanRuns, kalmanHistories>>

(* The diagonals of the filter's matrices are written as far as            *)
(* m_StateSize, which may be out of them by now.                           *)
KalmanDumps ==
  /\ kalmanAt = "dump"
  /\ kalmanAt' \in MayFail(m_StateSize(m_StateType) <= m_Kalman.size)
  /\ UNCHANGED <<clock, filterVars, poseVars, settingVars, kalmanRuns, kalmanHistories>>

(* SetDefaultParam: the pose is that of the file, or identity without one. *)
KalmanInit ==
  /\ clock = 0 /\ m_LastTimeStamp = 0
  /\ m_StateType = "VEL_OBJ" /\ sizeOfP = 12 /\ m_Kalman = NoFilter
  /\ m_ReIntializedNMBT = FALSE
  /\ kalmanPose \in {Pose("file", 0), IdentityPose} /\ kalmanOutput = IdentityPose
  /\ m_cam = "default" /\ trackerCam = "default" /\ projectedWith = <<"default", "default">>
  /\ kalmanRuns = FALSE /\ kalmanAt = "limbo"
  /\ initialised = 0 /\ unordered = FALSE /\ recalibrated = FALSE

KalmanNext ==
  \/ kalmanAt # "dead" /\ SetKalmanParameter
  \/ \E found \in BOOLEAN : InitializeKalman(found) \/ KalmanTracks(found)
  \/ StartOrStopKalman
  \/ \E time \in 0 .. MaxTime : GrabWide(time)
  \/ KalmanPredicts \/ KalmanUpdates \/ KalmanDumps

KalmanSpec == KalmanInit /\ [][KalmanNext]_kalmanVars

-----------------------------------------------------------------------------
(* Properties.                                                             *)

(* The predictions of the filter cover the time from its initialisation to *)
(* the last frame, each instant once, over stops and lost tracking.        *)
PredictionsCoverTime ==
  m_Kalman # NoFilter => m_Kalman.covered = m_LastTimeStamp - initialised

(* Each frame tracks from the prediction for its own time, whatever the    *)
(* last one left, and its output is the filter updated with what it found: *)
(* its own pose or the identity.                                           *)
OutputOfThisFrame ==
  /\ kalmanAt = "track" => kalmanPose = Pose("prediction", m_LastTimeStamp)
  /\ kalmanOutput.from = "update" =>
       /\ kalmanOutput.time = m_LastTimeStamp \/ kalmanAt = "track"
       /\ kalmanOutput.measure \in {IdentityPose, Pose("tracked", kalmanOutput.time)}

(* The sizes go together, of the matrices given to the filter and of those *)
(* written of it, if the variances are set after the state's type and both *)
(* before the start; and a pose is projected with the camera it was found  *)
(* with until a parameter of the camera is set.                            *)
SettingsGoTogether ==
  /\ kalmanAt = "dead" => unordered
  /\ projectedWith[1] # projectedWith[2] => recalibrated

KalmanOK == PredictionsCoverTime /\ OutputOfThisFrame /\ SettingsGoTogether
=============================================================================
