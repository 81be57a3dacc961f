--------------------------- MODULE ServoingProofs ---------------------------
(***************************************************************************)
(* Theorems about the way from an image to the robot's velocity: the poses *)
(* of the point tracker (PointTracker), for any numbers of points, targets *)
(* and frames; the Kalman filter around the model tracker (KalmanTracker), *)
(* for any times, state types and calibrations; the control law that       *)
(* follows the tracker (ControlLaw); and its limits (MotionLimits), for    *)
(* any limits, heights, motions and velocities, and any number of calls.   *)
(***************************************************************************)
EXTENDS ClientSettings, PointTracker, KalmanTracker, ControlLaw, MotionLimits,
        SequenceTheorems, FiniteSetTheorems, TLAPS

-----------------------------------------------------------------------------
(* The point tracker (PointSpec).                                          *)

ListCounts == {0} \union PointCounts
PointPoses == [target : Nat, points : Nat, frame : Nat]
PointLists == [target : Nat, frame : Nat, count : ListCounts]
PointData == [pose : PointPoses, points : PointLists, raced : BOOLEAN]

PointTypes ==
  /\ m_NbPoint \in ListCounts
  /\ m_PointList \in [target : Nat, count : ListCounts]
  /\ m_vpIPList \in PointLists
  /\ m_outputcMo \in PointPoses
  /\ datum \in PointData /\ published \in PointData
  /\ init \in [pc : {"idle", "lists", "dots", "done"}, target : Nat, count : ListCounts]
  /\ pointpc \in {"idle", "track", "pose", "copy pose", "copy points", "save"}
  /\ frame \in Nat /\ targets \in Nat

PointFlags == m_InitDone \in BOOLEAN /\ overlapped \in BOOLEAN

(* The lists are those of one target, and from the resize on they have the *)
(* number of points of m_NbPoint.                                          *)
ListInv ==
  /\ m_PointList.target = m_vpIPList.target
  /\ init.pc \in {"dots", "done"} \/ (init.pc = "idle" /\ m_InitDone)
       => m_NbPoint = m_vpIPList.count
  /\ m_vpIPList.target <= targets
  /\ init.pc \in {"lists", "dots", "done"} => init.target = targets
  /\ init.pc = "lists" => m_vpIPList.target < targets /\ m_NbPoint = init.count

(* A frame no Init overlapped runs while none is under way.                *)
QuietInv == ~overlapped /\ pointpc # "idle" => init.pc = "idle"

(* There is no pose before the first Init has ended.                       *)
NoPoseInv ==
  ~m_InitDone => /\ m_outputcMo = Identity /\ datum.pose = Identity
                 /\ pointpc \notin {"track", "pose"}

(* A pose is that of the lists as they are.                                *)
OfLists(pose) ==
  /\ pose.target = m_vpIPList.target
  /\ pose.points = m_vpIPList.target
  /\ pose.frame = m_vpIPList.frame

(* What is known of the datum on its way, in a frame no Init overlapped.   *)
DatumInv ==
  ~overlapped =>
    /\ pointpc = "copy pose" /\ m_outputcMo # Identity => OfLists(m_outputcMo)
    /\ pointpc \in {"copy points", "save"} /\ datum.pose # Identity => OfLists(datum.pose)
    /\ pointpc = "save" /\ datum.pose # Identity => datum.points = m_vpIPList

(* Nothing is published of a target that is not in the lists yet.          *)
OldInv ==
  /\ datum.points.target <= m_vpIPList.target
  /\ published.points.target <= m_vpIPList.target

PointInv ==
  /\ PointTypes /\ PointFlags /\ ListInv /\ QuietInv /\ NoPoseInv /\ DatumInv /\ OldInv
  /\ PoseOfItsPoints

-----------------------------------------------------------------------------

LEMMA PointInvInit == PointInit => PointInv
<1> SUFFICES ASSUME PointInit PROVE PointInv
  OBVIOUS
<1> USE PointAssumption DEF PointInit, Identity, NoPoints
<1>1. PointFlags
  BY Zenon DEF PointFlags
<1>2. PointTypes
  BY DEF PointTypes, ListCounts, PointPoses, PointLists, PointData
<1>3. ListInv /\ QuietInv /\ NoPoseInv /\ DatumInv /\ OldInv /\ PoseOfItsPoints
  BY DEF ListInv, QuietInv, NoPoseInv, DatumInv, OldInv, PoseOfItsPoints
<1>4. QED
  BY <1>1, <1>2, <1>3 DEF PointInv

LEMMA PointFlagStep == PointFlags /\ [PointNext]_pointVars => PointFlags'
<1> SUFFICES ASSUME PointFlags, [PointNext]_pointVars PROVE PointFlags'
  OBVIOUS
<1>1. /\ m_InitDone' = m_InitDone \/ m_InitDone' = TRUE
      /\ \/ overlapped' = overlapped \/ overlapped' = TRUE \/ overlapped' = (init.pc # "idle")
  BY Zenon DEF PointNext, pointVars, InitServant, LoopFrame, NewTarget, NewPoints, InitTracking,
               InitDone, FrameBegins, Tracked, Lost, computePose, CopyPose, CopyPoints, SaveDatum,
               trackerPoints
<1>2. QED
  BY <1>1, Zenon DEF PointFlags

LEMMA PointTypeStep == PointTypes /\ PointFlags /\ [PointNext]_pointVars => PointTypes'
<1> SUFFICES ASSUME PointTypes, PointFlags, [PointNext]_pointVars PROVE PointTypes'
  OBVIOUS
<1> USE PointAssumption DEF PointTypes, trackerPoints, results, buffer, Goto, InitAt, InitGoes
<1>a. Identity \in PointPoses
  BY DEF Identity, PointPoses
<1>b. 0 \in ListCounts /\ PointCounts \subseteq ListCounts
  BY DEF ListCounts
<1>c. frame + 1 \in Nat /\ targets + 1 \in Nat
  <2>1. frame \in Nat /\ targets \in Nat
    OBVIOUS
  <2>2. QED
    BY ONLY <2>1
<1>1. CASE InitServant
  <2>1. CASE NewTarget
    <3>1. PICK n \in PointCounts :
            /\ init' = [pc |-> "lists", target |-> targets + 1, count |-> n]
            /\ m_NbPoint' = n
      BY <2>1 DEF NewTarget
    <3>2. init' \in [pc : {"idle", "lists", "dots", "done"}, target : Nat, count : ListCounts]
      BY ONLY <1>b, <1>c, <3>1
    <3>3. QED
      BY <2>1, <1>b, <1>c, <3>1, <3>2 DEF NewTarget
  <2>2. CASE NewPoints
    BY <2>2 DEF NewPoints, PointLists
  <2>3. CASE InitTracking
    BY <2>3, <1>a DEF InitTracking
  <2>4. CASE InitDone
    BY <2>4 DEF InitDone
  <2>5. QED
    BY <1>1, <2>1, <2>2, <2>3, <2>4 DEF InitServant
<1>2. CASE LoopFrame
  <2>1. CASE FrameBegins
    BY <2>1, <1>c DEF FrameBegins
  <2>2. CASE Tracked
    BY <2>2 DEF Tracked, PointLists
  <2>3. CASE Lost
    BY <2>3, <1>a DEF Lost, PointLists
  <2>4. CASE computePose
    BY <2>4 DEF computePose, PointPoses, PointLists
  <2>5. CASE CopyPose
    BY <2>5 DEF CopyPose, PointData
  <2>6. CASE CopyPoints
    <3> DEFINE count == IF datum.points.count = m_vpIPList.count
                        THEN datum.points.count ELSE m_NbPoint
               copied == [target |-> m_vpIPList.target, frame |-> m_vpIPList.frame, count |-> count]
    <3>1. copied \in PointLists
      BY DEF PointLists, PointData
    <3>2. datum' = [datum EXCEPT !.points = copied]
      BY <2>6 DEF CopyPoints
    <3> HIDE DEF copied
    <3>3. datum' \in PointData
      BY <3>1, <3>2 DEF PointData
    <3>4. QED
      BY <2>6, <3>3 DEF CopyPoints
  <2>7. CASE SaveDatum
    <3>1. published' \in PointData
      BY <2>7 DEF SaveDatum, PointData, PointFlags
    <3>2. QED
      BY <2>7, <3>1 DEF SaveDatum
  <2>8. QED
    BY <1>2, <2>1, <2>2, <2>3, <2>4, <2>5, <2>6, <2>7 DEF LoopFrame
<1>3. CASE UNCHANGED pointVars
  BY <1>3 DEF pointVars
<1>4. QED
  BY <1>1, <1>2, <1>3 DEF PointNext

-----------------------------------------------------------------------------
(* The servant's steps.  NewTarget and NewPoints disturb the lists, under  *)
(* an overlapped frame; what is published is of an older target.           *)

LEMMA PointInitStep == PointInv /\ InitServant /\ PointTypes' => PointInv'
<1> SUFFICES ASSUME PointInv, InitServant, PointTypes', PointFlags' PROVE PointInv'
  BY PointFlagStep DEF PointInv, PointNext
<1>1. PointTypes /\ ListInv /\ QuietInv /\ NoPoseInv /\ DatumInv /\ OldInv /\ PoseOfItsPoints
  BY DEF PointInv
<1> USE DEF trackerPoints, results, buffer, InitAt, InitGoes
<1>2. CASE NewTarget
  <2>1. /\ init.pc = "idle" /\ init'.pc = "lists" /\ init'.target = targets + 1
        /\ m_NbPoint' = init'.count /\ targets' = targets + 1 /\ overlapped'
        /\ UNCHANGED <<m_PointList, m_vpIPList, m_InitDone, m_outputcMo, datum, published, pointpc>>
    BY <1>2 DEF NewTarget
  <2>2. m_vpIPList.target \in Nat /\ targets \in Nat
    BY <1>1 DEF PointTypes, PointLists
  <2>3. ListInv'
    BY <1>1, <2>1, <2>2 DEF ListInv
  <2>4. QuietInv' /\ NoPoseInv' /\ DatumInv' /\ OldInv' /\ PoseOfItsPoints'
    BY <1>1, <2>1 DEF QuietInv, NoPoseInv, DatumInv, OldInv, PoseOfItsPoints
  <2>5. QED
    BY <2>3, <2>4 DEF PointInv
<1>3. CASE NewPoints
  <2>1. /\ init.pc = "lists" /\ init' = [init EXCEPT !.pc = "dots"]
        /\ m_PointList' = [target |-> init.target, count |-> init.count]
        /\ m_vpIPList' = [target |-> init.target, frame |-> 0, count |-> init.count]
        /\ UNCHANGED <<m_NbPoint, m_InitDone, m_outputcMo, datum, published, pointpc, targets,
                      overlapped>>
    BY <1>3 DEF NewPoints
  <2>2. /\ init'.pc = "dots" /\ init'.target = init.target /\ init'.count = init.count
        /\ init.target = targets /\ m_NbPoint = init.count
        /\ m_vpIPList.target < m_vpIPList'.target
    BY <1>1, <2>1 DEF PointTypes, ListInv
  <2>3. /\ datum.points.target \in Nat /\ published.points.target \in Nat
        /\ m_vpIPList.target \in Nat /\ m_vpIPList'.target \in Nat
    BY <1>1, <2>1 DEF PointTypes, PointData, PointLists
  <2>4. ListInv'
    BY <1>1, <2>1, <2>2, <2>3 DEF ListInv
  <2>5. overlapped \/ pointpc = "idle"
    BY <1>1, <2>1 DEF QuietInv
  <2>6. QuietInv' /\ NoPoseInv' /\ DatumInv'
    BY <1>1, <2>1, <2>5 DEF QuietInv, NoPoseInv, DatumInv
  <2>7. OldInv' /\ published.points.target # m_vpIPList'.target
    BY <1>1, <2>1, <2>2, <2>3 DEF OldInv
  <2>8. PoseOfItsPoints'
    BY <1>1, <2>1, <2>7 DEF PoseOfItsPoints
  <2>9. QED
    BY <2>4, <2>6, <2>7, <2>8 DEF PointInv
<1>4. CASE InitTracking
  <2>1. /\ init.pc = "dots" /\ init' = [init EXCEPT !.pc = "done"] /\ m_outputcMo' = Identity
        /\ UNCHANGED <<m_NbPoint, m_PointList, m_vpIPList, m_InitDone, datum, published, pointpc,
                      targets, overlapped>>
    BY <1>4 DEF InitTracking
  <2>2. init'.pc = "done" /\ init'.target = init.target /\ init'.count = init.count
    BY <1>1, <2>1 DEF PointTypes
  <2>3. ListInv' /\ QuietInv' /\ NoPoseInv' /\ DatumInv' /\ OldInv'
    BY <1>1, <2>1, <2>2 DEF ListInv, QuietInv, NoPoseInv, DatumInv, OldInv, OfLists
  <2>4. PoseOfItsPoints'
    BY <1>1, <2>1 DEF PoseOfItsPoints
  <2>5. QED
    BY <2>3, <2>4 DEF PointInv
<1>5. CASE InitDone
  <2>1. /\ init.pc = "done" /\ init' = [init EXCEPT !.pc = "idle"] /\ m_InitDone'
        /\ UNCHANGED <<m_NbPoint, m_PointList, m_vpIPList, m_outputcMo, datum, published, pointpc,
                      targets, overlapped>>
    BY <1>5 DEF InitDone
  <2>2. init'.pc = "idle" /\ init'.target = init.target /\ init'.count = init.count
    BY <1>1, <2>1 DEF PointTypes
  <2>3. ListInv' /\ QuietInv' /\ NoPoseInv' /\ DatumInv' /\ OldInv'
    BY <1>1, <2>1, <2>2 DEF ListInv, QuietInv, NoPoseInv, DatumInv, OldInv, OfLists
  <2>4. PoseOfItsPoints'
    BY <1>1, <2>1 DEF PoseOfItsPoints
  <2>5. QED
    BY <2>3, <2>4 DEF PointInv
<1>6. QED
  BY <1>2, <1>3, <1>4, <1>5 DEF InitServant

-----------------------------------------------------------------------------
(* The loop's steps.  A frame that Tracked or Lost moves the image points  *)
(* is not at a place where a pose is on its way.                           *)

LEMMA PointLoopStep == PointInv /\ LoopFrame /\ PointTypes' => PointInv'
<1> SUFFICES ASSUME PointInv, LoopFrame, PointTypes', PointFlags' PROVE PointInv'
  BY PointFlagStep DEF PointInv, PointNext
<1>1. /\ PointTypes /\ PointFlags /\ ListInv /\ QuietInv /\ NoPoseInv /\ DatumInv /\ OldInv
      /\ PoseOfItsPoints
  BY DEF PointInv
<1> USE DEF trackerPoints, results, buffer, Goto
<1>2. CASE FrameBegins
  <2>1. /\ UNCHANGED <<m_NbPoint, m_PointList, m_vpIPList, m_InitDone, m_outputcMo, datum,
                      published, init, targets>>
        /\ overlapped' <=> init.pc # "idle"
        /\ \/ m_InitDone /\ pointpc' = "track"
           \/ ~m_InitDone /\ pointpc' = "copy pose"
    BY <1>2 DEF FrameBegins
  <2>2. ListInv' /\ OldInv' /\ PoseOfItsPoints'
    BY <1>1, <2>1 DEF ListInv, OldInv, PoseOfItsPoints
  <2>3. QuietInv' /\ NoPoseInv' /\ DatumInv'
    BY <1>1, <2>1 DEF QuietInv, NoPoseInv, DatumInv
  <2>4. QED
    BY <2>2, <2>3 DEF PointInv
<1>3. CASE Tracked \/ Lost
  <2>1. /\ pointpc = "track" /\ m_InitDone
        /\ \/ m_vpIPList' = [m_vpIPList EXCEPT !.frame = frame]
           \/ m_vpIPList' = m_vpIPList
        /\ \/ pointpc' = "pose" /\ UNCHANGED m_outputcMo
           \/ pointpc' = "copy pose" /\ m_outputcMo' = Identity
        /\ UNCHANGED <<m_NbPoint, m_PointList, m_InitDone, datum, published, init, targets,
                      overlapped>>
    BY <1>1, <1>3 DEF Tracked, Lost, NoPoseInv
  <2>2. m_vpIPList'.target = m_vpIPList.target /\ m_vpIPList'.count = m_vpIPList.count
    BY <1>1, <2>1 DEF PointTypes, PointLists
  <2>3. ListInv' /\ OldInv'
    BY <1>1, <2>1, <2>2 DEF ListInv, OldInv
  <2>4. QuietInv' /\ NoPoseInv' /\ DatumInv'
    BY <1>1, <2>1 DEF QuietInv, NoPoseInv, DatumInv
  <2>5. PoseOfItsPoints'
    BY <1>1, <2>1, <2>2 DEF PoseOfItsPoints
  <2>6. QED
    BY <2>3, <2>4, <2>5 DEF PointInv
<1>4. CASE computePose
  <2>1. /\ pointpc = "pose" /\ pointpc' = "copy pose" /\ m_InitDone
        /\ m_outputcMo' = [target |-> m_PointList.target, points |-> m_vpIPList.target,
                          frame |-> m_vpIPList.frame]
        /\ UNCHANGED <<m_NbPoint, m_PointList, m_vpIPList, m_InitDone, datum, published, init,
                      targets, overlapped>>
    BY <1>1, <1>4 DEF computePose, NoPoseInv
  <2>2. OfLists(m_outputcMo)'
    BY <1>1, <2>1 DEF ListInv, OfLists
  <2>3. ListInv' /\ OldInv' /\ PoseOfItsPoints'
    BY <1>1, <2>1 DEF ListInv, OldInv, PoseOfItsPoints
  <2>4. QuietInv' /\ NoPoseInv' /\ DatumInv'
    BY <1>1, <2>1, <2>2 DEF QuietInv, NoPoseInv, DatumInv
  <2>5. QED
    BY <2>3, <2>4 DEF PointInv
<1>5. CASE CopyPose
  <2>1. /\ pointpc = "copy pose" /\ pointpc' = "copy points"
        /\ datum'.pose = m_outputcMo /\ datum'.points = datum.points
        /\ UNCHANGED <<m_NbPoint, m_PointList, m_vpIPList, m_InitDone, m_outputcMo, published,
                      init, targets, overlapped>>
    BY <1>1, <1>5 DEF CopyPose, PointTypes, PointData
  <2>2. ListInv' /\ OldInv' /\ PoseOfItsPoints'
    BY <1>1, <2>1 DEF ListInv, OldInv, PoseOfItsPoints
  <2>3. QuietInv' /\ NoPoseInv' /\ DatumInv'
    BY <1>1, <2>1 DEF QuietInv, NoPoseInv, DatumInv, OfLists
  <2>4. QED
    BY <2>2, <2>3 DEF PointInv
<1>6. CASE CopyPoints
  <2> DEFINE count == IF datum.points.count = m_vpIPList.count
                      THEN datum.points.count ELSE m_NbPoint
             copied == [target |-> m_vpIPList.target, frame |-> m_vpIPList.frame, count |-> count]
  <2>1. /\ pointpc = "copy points" /\ pointpc' = "save"
        /\ datum' = [datum EXCEPT !.points = copied]
        /\ UNCHANGED <<m_NbPoint, m_PointList, m_vpIPList, m_InitDone, m_outputcMo, published,
                      init, targets, overlapped>>
    BY <1>6 DEF CopyPoints
  <2>2. datum'.pose = datum.pose /\ datum'.points = copied
    <3> HIDE DEF copied
    <3> QED
      BY <1>1, <2>1 DEF PointTypes, PointData
  <2>3. m_InitDone /\ ~overlapped => copied = m_vpIPList
    <3>1. m_InitDone /\ ~overlapped => count = m_vpIPList.count
      BY <1>1, <2>1 DEF QuietInv, ListInv
    <3> HIDE DEF count
    <3>2. QED
      BY <1>1, <3>1 DEF PointTypes, PointLists
  <2>4. copied.target = m_vpIPList.target
    OBVIOUS
  <2> HIDE DEF copied
  <2>5. m_vpIPList.target <= m_vpIPList.target
    <3>1. m_vpIPList.target \in Nat
      BY <1>1 DEF PointTypes, PointLists
    <3>2. QED
      BY ONLY <3>1
  <2>6. ListInv' /\ OldInv' /\ PoseOfItsPoints'
    BY <1>1, <2>1, <2>2, <2>4, <2>5 DEF ListInv, OldInv, PoseOfItsPoints
  <2>7. QuietInv' /\ NoPoseInv' /\ DatumInv'
    BY <1>1, <2>1, <2>2, <2>3 DEF QuietInv, NoPoseInv, DatumInv, OfLists
  <2>8. QED
    BY <2>6, <2>7 DEF PointInv
<1>7. CASE SaveDatum
  <2>1. /\ pointpc = "save" /\ pointpc' = "idle"
        /\ published'.pose = datum.pose /\ published'.points = datum.points
        /\ published'.raced = overlapped
        /\ UNCHANGED <<m_NbPoint, m_PointList, m_vpIPList, m_InitDone, m_outputcMo, datum, init,
                      targets, overlapped>>
    <3>1. published' = [datum EXCEPT !.raced = overlapped] /\ datum \in PointData
      BY <1>1, <1>7 DEF SaveDatum, PointTypes
    <3>2. /\ published'.pose = datum.pose /\ published'.points = datum.points
          /\ published'.raced = overlapped
      BY ONLY <3>1 DEF PointData
    <3>3. QED
      BY <1>7, <3>2 DEF SaveDatum
  <2>2. PoseOfItsPoints'
    BY <1>1, <2>1 DEF DatumInv, OfLists, PoseOfItsPoints
  <2>3. ListInv' /\ QuietInv' /\ NoPoseInv' /\ DatumInv' /\ OldInv'
    BY <1>1, <2>1 DEF ListInv, QuietInv, NoPoseInv, DatumInv, OldInv
  <2>4. QED
    BY <2>2, <2>3 DEF PointInv
<1>8. QED
  BY <1>2, <1>3, <1>4, <1>5, <1>6, <1>7 DEF LoopFrame

LEMMA PointInvStep == PointInv /\ [PointNext]_pointVars => PointInv'
<1> SUFFICES ASSUME PointInv, [PointNext]_pointVars PROVE PointInv'
  OBVIOUS
<1>1. PointTypes'
  BY PointTypeStep DEF PointInv
<1>2. CASE UNCHANGED pointVars
  BY <1>2 DEF pointVars, trackerPoints, results, buffer, PointInv, PointTypes, PointFlags,
     ListInv, QuietInv,
              NoPoseInv, DatumInv, OldInv, OfLists, PoseOfItsPoints
<1>3. QED
  BY <1>1, <1>2, PointInitStep, PointLoopStep DEF PointNext

-----------------------------------------------------------------------------
(* What a client reads of the point tracker in a frame that no Init of the *)
(* servant overlapped: the pose, if there is one, is that of the points it *)
(* comes with, of one target and one image, and has all of them.           *)
THEOREM PublishedPoses == PointSpec => []PoseOfItsPoints
<1>1. PointInv => PoseOfItsPoints
  BY DEF PointInv
<1>2. QED
  BY PointInvInit, PointInvStep, <1>1, PTL DEF PointSpec

-----------------------------------------------------------------------------
(* The Kalman filter around the model tracker (KalmanSpec).                *)

(* From the first start on there is a filter, which has predicted over all *)
(* the time since; images come between the frames.                         *)
FilterInv ==
  /\ clock \in Nat /\ m_LastTimeStamp \in Nat /\ initialised \in Nat
  /\ kalmanAt = "limbo" => m_Kalman = NoFilter
  /\ kalmanAt # "limbo" =>
       /\ m_Kalman = [size |-> m_Kalman.size, covered |-> m_Kalman.covered, state |-> m_Kalman.state]
       /\ m_Kalman.size \in {12, 15}
       /\ m_Kalman.covered = m_LastTimeStamp - initialised
  /\ kalmanAt \in {"track", "update"} => clock = m_LastTimeStamp

(* The output that the filter is updated with is one of this frame.        *)
MeasureInv ==
  /\ OutputOfThisFrame
  /\ kalmanAt = "update" => kalmanOutput \in {IdentityPose, Pose("tracked", clock)}

(* Settings in order leave the sizes equal, before the start and after it. *)
SizesInv ==
  /\ ~unordered =>
       IF kalmanAt = "limbo" THEN sizeOfP = m_StateSize(m_StateType)
       ELSE m_Kalman.size = m_StateSize(m_StateType)
  /\ kalmanAt = "dead" => unordered
  /\ m_cam # trackerCam => recalibrated
  /\ projectedWith[1] # projectedWith[2] => recalibrated

KalmanInv == FilterInv /\ MeasureInv /\ SizesInv

LEMMA KalmanInvInit == KalmanInit => KalmanInv
<1> SUFFICES ASSUME KalmanInit
             PROVE  KalmanInv
  OBVIOUS
<1>1. FilterInv
  BY DEF KalmanInit, FilterInv
<1>2. MeasureInv
  BY DEF KalmanInit, MeasureInv, OutputOfThisFrame, Pose, IdentityPose
<1>3. SizesInv
  BY DEF KalmanInit, SizesInv, m_StateSize
<1> QED
  BY <1>1, <1>2, <1>3 DEF KalmanInv

LEMMA KalmanParameterStep ==
  KalmanInv /\ kalmanAt # "dead" /\ SetKalmanParameter => KalmanInv'
<1> SUFFICES ASSUME KalmanInv, kalmanAt # "dead", SetKalmanParameter
             PROVE  KalmanInv'
  OBVIOUS
<1>1. UNCHANGED <<clock, filterVars, poseVars, trackerCam, kalmanAt, initialised>>
  BY DEF SetKalmanParameter, SetState, SetPVar, SetReinit, SetCameraParameter, kalmanHistories
<1>2. FilterInv'
  BY <1>1 DEF KalmanInv, FilterInv, filterVars
<1>3. MeasureInv'
  BY <1>1 DEF KalmanInv, MeasureInv, OutputOfThisFrame, filterVars, poseVars
<1>4. ASSUME NEW type \in StateTypes, SetState(type)
      PROVE  SizesInv'
  BY <1>4 DEF SetState, KalmanInv, SizesInv, filterVars, poseVars
<1>5. ASSUME SetPVar
      PROVE  SizesInv'
  <2>1. kalmanAt # "limbo" => m_Kalman # NoFilter
    BY DEF KalmanInv, FilterInv, NoFilter
  <2>2. kalmanAt # "limbo" /\ unordered => unordered'
    BY <1>5, <2>1 DEF SetPVar
  <2>3. /\ sizeOfP' = m_StateSize(m_StateType)
        /\ UNCHANGED <<m_Kalman, kalmanAt, m_StateType, projectedWith, m_cam, trackerCam, recalibrated>>
    BY <1>5 DEF SetPVar, filterVars, poseVars
  <2> QED
    BY <2>2, <2>3 DEF KalmanInv, SizesInv
<1>6. ASSUME NEW on \in BOOLEAN, SetReinit(on)
      PROVE  SizesInv'
  BY <1>6 DEF SetReinit, KalmanInv, SizesInv, filterVars, poseVars, kalmanHistories
<1>7. ASSUME NEW parsed \in Calibrations, SetCameraParameter(parsed)
      PROVE  SizesInv'
  BY <1>7 DEF SetCameraParameter, KalmanInv, SizesInv, filterVars, poseVars
<1> QED
  BY <1>2, <1>3, <1>4, <1>5, <1>6, <1>7 DEF KalmanInv, SetKalmanParameter

LEMMA KalmanFrameStep == KalmanInv /\ [KalmanNext]_kalmanVars => KalmanInv'
<1> SUFFICES ASSUME KalmanInv, [KalmanNext]_kalmanVars
             PROVE  KalmanInv'
  OBVIOUS
<1> USE DEF KalmanInv, filterVars, poseVars, settingVars, kalmanHistories
<1>1. ASSUME NEW found \in BOOLEAN, InitializeKalman(found)
      PROVE  KalmanInv'
  <2>1. FilterInv'
    BY <1>1 DEF InitializeKalman, FilterInv, MayFail, m_StateSize
  <2>2. MeasureInv'
    BY <1>1 DEF InitializeKalman, MeasureInv, OutputOfThisFrame, MayFail, Pose, IdentityPose
  <2>3. SizesInv'
    BY <1>1 DEF InitializeKalman, SizesInv, MayFail
  <2> QED
    BY <2>1, <2>2, <2>3
<1>2. ASSUME NEW found \in BOOLEAN, KalmanTracks(found)
      PROVE  KalmanInv'
  <2>1. FilterInv'
    BY <1>2 DEF KalmanTracks, FilterInv
  <2>2. MeasureInv'
    BY <1>2 DEF KalmanTracks, FilterInv, MeasureInv, OutputOfThisFrame, Pose, IdentityPose
  <2>3. SizesInv'
    BY <1>2 DEF KalmanTracks, SizesInv
  <2> QED
    BY <2>1, <2>2, <2>3
<1>3. CASE StartOrStopKalman
  BY <1>3 DEF StartOrStopKalman, FilterInv, MeasureInv, OutputOfThisFrame, SizesInv
<1>4. ASSUME NEW time \in 0 .. MaxTime, GrabWide(time)
      PROVE  KalmanInv'
  <2>1. FilterInv'
    BY <1>4, KalmanAssumption DEF GrabWide, FilterInv
  <2>2. MeasureInv' /\ SizesInv'
    BY <1>4 DEF GrabWide, MeasureInv, OutputOfThisFrame, SizesInv
  <2> QED
    BY <2>1, <2>2
<1>5. CASE KalmanPredicts
  <2>1. FilterInv'
    <3>1. kalmanAt = "idle" /\ kalmanAt' = "track"
      BY <1>5 DEF KalmanPredicts
    <3>2. m_Kalman' = [size |-> m_Kalman.size, covered |-> m_Kalman.covered + (clock - m_LastTimeStamp),
                       state |-> Pose("prediction", clock)]
      BY <1>5, <3>1 DEF KalmanPredicts, FilterInv
    <3>3. m_LastTimeStamp' = clock /\ UNCHANGED <<clock, initialised>>
      BY <1>5 DEF KalmanPredicts
    <3> QED
      BY <3>1, <3>2, <3>3 DEF FilterInv
  <2>2. MeasureInv'
    BY <1>5 DEF KalmanPredicts, MeasureInv, OutputOfThisFrame
  <2>3. SizesInv'
    BY <1>5 DEF KalmanPredicts, FilterInv, SizesInv
  <2> QED
    BY <2>1, <2>2, <2>3
<1>6. CASE KalmanUpdates
  <2>1. FilterInv'
    BY <1>6 DEF KalmanUpdates, FilterInv
  <2>2. MeasureInv'
    BY <1>6 DEF KalmanUpdates, FilterInv, MeasureInv, OutputOfThisFrame, Pose, IdentityPose
  <2>3. SizesInv'
    BY <1>6 DEF KalmanUpdates, FilterInv, SizesInv
  <2> QED
    BY <2>1, <2>2, <2>3
<1>7. CASE KalmanDumps
  <2>1. FilterInv' /\ MeasureInv'
    BY <1>7 DEF KalmanDumps, MayFail, FilterInv, MeasureInv, OutputOfThisFrame
  <2>2. SizesInv'
    BY <1>7 DEF KalmanDumps, MayFail, SizesInv, m_StateSize
  <2> QED
    BY <2>1, <2>2
<1>8. CASE UNCHANGED kalmanVars
  BY <1>8 DEF kalmanVars, FilterInv, MeasureInv, OutputOfThisFrame, SizesInv
<1> QED
  BY <1>1, <1>2, <1>3, <1>4, <1>5, <1>6, <1>7, <1>8, KalmanParameterStep DEF KalmanNext

(* Over stops, lost tracking and changes of the settings at any point of a *)
(* frame, the filter's predictions cover the time once, each frame tracks  *)
(* from its own prediction and puts out its own measure, and settings made *)
(* in order go together.                                                   *)
THEOREM KalmanFollowsFrames == KalmanSpec => []KalmanOK
<1>1. KalmanInv => KalmanOK
  BY DEF KalmanInv, FilterInv, MeasureInv, SizesInv, KalmanOK, PredictionsCoverTime,
     SettingsGoTogether
<1> QED
  BY <1>1, KalmanInvInit, KalmanFrameStep, PTL DEF KalmanSpec

-----------------------------------------------------------------------------
(* The control law (ControlSpec).                                          *)

(* Unless the tracker was stopped in its frame, its flag is up only for a  *)
(* pose it has just found and has not been initialised since; a stop or an *)
(* initialisation under way keeps the loop out of the tracker.             *)
TrackerInv ==
  /\ orbpc = "stop" => trackerComputing = 0
  /\ trackSuccess \in BOOLEAN
  /\ ~stoppedMidFrame =>
       /\ orbpc \in {"init", "init and start"} => trackerState = "INITIALIZING"
       /\ looppc = "tracking" => trackerState \in {"EXECUTING", "STOPPING"}
       /\ trackSuccess \/ looppc = "pose" =>
            trackerPose = "tracked" /\ trackerState \in {"EXECUTED", "STOPPING"}
       /\ "blind" \notin {velref, sotVelocity}

(* A stop of the tracker may fall anywhere in its frame and in the law's.  *)
LEMMA TrackerStep == TrackerInv /\ [ControlNext]_controlVars => TrackerInv'
<1> SUFFICES ASSUME TrackerInv, [ControlNext]_controlVars
             PROVE  TrackerInv'
  OBVIOUS
<1> USE DEF TrackerInv, LoopGoto, OrbGoto, Realizable, trackerVars, lawVars, frameVars, histories
<1>1. CASE SetCorbaReference
  BY <1>1 DEF SetCorbaReference
<1>2. CASE InitConnection
  BY <1>2 DEF InitConnection
<1>3. CASE TrackerBegins
  BY <1>3 DEF TrackerBegins
<1>4. CASE TrackerSkipped
  BY <1>4 DEF TrackerSkipped
<1>5. CASE TrackerEnds
  <2> PICK found \in BOOLEAN : /\ trackSuccess' = found
                              /\ trackerPose' = IF found THEN "tracked" ELSE "identity"
    BY <1>5 DEF TrackerEnds
  <2>1. trackSuccess' \in BOOLEAN /\ (trackSuccess' => trackerPose' = "tracked")
    OBVIOUS
  <2> QED
    BY <1>5, <2>1 DEF TrackerEnds
<1>6. CASE LawSkipped
  BY <1>6 DEF LawSkipped
<1>7. CASE LawBegins
  BY <1>7 DEF LawBegins
<1>8. CASE LawComputes
  BY <1>8 DEF LawComputes
<1>9. CASE LawDecides
  BY <1>9 DEF LawDecides
<1>10. CASE LawEnds
  BY <1>10 DEF LawEnds
<1>11. ASSUME NEW heard \in BOOLEAN, LawWrites(heard)
      PROVE  TrackerInv'
  BY <1>11 DEF LawWrites
<1>12. ASSUME NEW then, InitializeTracker(then)
      PROVE  TrackerInv'
  BY <1>12 DEF InitializeTracker
<1>13. CASE StartTracker
  BY <1>13 DEF StartTracker
<1>14. CASE StopTracker
  BY <1>14 DEF StopTracker
<1>15. CASE CleanUpTracker
  BY <1>15 DEF CleanUpTracker
<1>16. CASE InitializeLaw
  BY <1>16 DEF InitializeLaw
<1>17. CASE StartLaw
  BY <1>17 DEF StartLaw
<1>18. CASE StopLaw
  BY <1>18 DEF StopLaw
<1>19. CASE SetcdMo
  BY <1>19 DEF SetcdMo
<1>20. CASE CleanUpLaw
  BY <1>20 DEF CleanUpLaw
<1>21. CASE TrackerInitialized
  BY <1>21 DEF TrackerInitialized
<1>22. CASE TrackerStopped
  BY <1>22 DEF TrackerStopped
<1>23. CASE TargetSet
  BY <1>23 DEF TargetSet
<1>24. ASSUME NEW heard \in BOOLEAN, CleanUpWrites(heard)
      PROVE  TrackerInv'
  BY <1>24 DEF CleanUpWrites
<1>25. CASE LawCleanedUp
  BY <1>25 DEF LawCleanedUp
<1>26. CASE UNCHANGED controlVars
  BY <1>26 DEF controlVars
<1> QED
  BY <1>1, <1>2, <1>3, <1>4, <1>5, <1>6, <1>7, <1>8, <1>9, <1>10, <1>11, <1>12,
     <1>13, <1>14, <1>15, <1>16, <1>17, <1>18, <1>19, <1>20, <1>21, <1>22, <1>23, <1>24,
     <1>25, <1>26
     DEF ControlNext, ControlLoop, ControlCalls, OrbProceeds

(* A clean-up under way keeps the flag down, so that a frame that has not  *)
(* decided yet will write zero.  What the robot has after it is zero until *)
(* the law is given a target, decides for it and writes.                   *)
CleanUpInv ==
  /\ orbpc \in {"clean-up", "cleaned"} => ~m_RealiseControlLaw
  /\ ~outrun /\ ~m_RealiseControlLaw /\ looppc = "write" =>
       (lawState = "CLEANED" \/ orbpc \in {"clean-up", "cleaned"} => velref = "zero")
  /\ ~outrun /\ ~unheard /\ (lawState = "CLEANED" \/ orbpc = "cleaned") =>
       sotVelocity = "zero" \/ (m_RealiseControlLaw /\ looppc = "written")

LEMMA CleanUpStep == CleanUpInv /\ [ControlNext]_controlVars => CleanUpInv'
<1> SUFFICES ASSUME CleanUpInv, [ControlNext]_controlVars
             PROVE  CleanUpInv'
  OBVIOUS
<1> USE DEF CleanUpInv, LoopGoto, OrbGoto, trackerVars, lawVars, frameVars, histories
<1>1. CASE SetCorbaReference
  BY <1>1 DEF SetCorbaReference
<1>2. CASE InitConnection
  BY <1>2 DEF InitConnection
<1>3. CASE TrackerBegins
  BY <1>3 DEF TrackerBegins
<1>4. CASE TrackerSkipped
  BY <1>4 DEF TrackerSkipped
<1>5. CASE TrackerEnds
  BY <1>5 DEF TrackerEnds
<1>6. CASE LawSkipped
  BY <1>6 DEF LawSkipped
<1>7. CASE LawBegins
  BY <1>7 DEF LawBegins
<1>8. CASE LawComputes
  BY <1>8 DEF LawComputes
<1>9. CASE LawDecides
  BY <1>9 DEF LawDecides
<1>10. CASE LawEnds
  BY <1>10 DEF LawEnds
<1>11. ASSUME NEW heard \in BOOLEAN, LawWrites(heard)
      PROVE  CleanUpInv'
  BY <1>11 DEF LawWrites
<1>12. ASSUME NEW then, InitializeTracker(then)
      PROVE  CleanUpInv'
  BY <1>12 DEF InitializeTracker
<1>13. CASE StartTracker
  BY <1>13 DEF StartTracker
<1>14. CASE StopTracker
  BY <1>14 DEF StopTracker
<1>15. CASE CleanUpTracker
  BY <1>15 DEF CleanUpTracker
<1>16. CASE InitializeLaw
  BY <1>16 DEF InitializeLaw
<1>17. CASE StartLaw
  BY <1>17 DEF StartLaw
<1>18. CASE StopLaw
  BY <1>18 DEF StopLaw
<1>19. CASE SetcdMo
  BY <1>19 DEF SetcdMo
<1>20. CASE CleanUpLaw
  BY <1>20 DEF CleanUpLaw
<1>21. CASE TrackerInitialized
  BY <1>21 DEF TrackerInitialized
<1>22. CASE TrackerStopped
  BY <1>22 DEF TrackerStopped
<1>23. CASE TargetSet
  BY <1>23 DEF TargetSet
<1>24. ASSUME NEW heard \in BOOLEAN, CleanUpWrites(heard)
      PROVE  CleanUpInv'
  BY <1>24 DEF CleanUpWrites
<1>25. CASE LawCleanedUp
  BY <1>25 DEF LawCleanedUp
<1>26. CASE UNCHANGED controlVars
  BY <1>26 DEF controlVars
<1> QED
  BY <1>1, <1>2, <1>3, <1>4, <1>5, <1>6, <1>7, <1>8, <1>9, <1>10, <1>11, <1>12,
     <1>13, <1>14, <1>15, <1>16, <1>17, <1>18, <1>19, <1>20, <1>21, <1>22, <1>23, <1>24,
     <1>25, <1>26
     DEF ControlNext, ControlLoop, ControlCalls, OrbProceeds

(* Whatever the order in which the loop and a client's calls interleave,   *)
(* the robot moves only on poses the tracker found, unless the tracker was *)
(* stopped in the middle of its frame.  It stands still while the law is   *)
(* cleaned up and has no new target, if the stack of tasks heard the zero  *)
(* and no frame had already decided on another velocity.                   *)
THEOREM RobotFollowsTracker == ControlSpec => []VelocityFollowsTracker
<1>1. ControlInit => TrackerInv /\ CleanUpInv
  BY DEF ControlInit, TrackerInv, CleanUpInv
<1>2. TrackerInv /\ CleanUpInv => VelocityFollowsTracker
  BY DEF TrackerInv, CleanUpInv, VelocityFollowsTracker, VelocityFromTrackedPose,
         CleanUpStopsRobot
<1> QED
  BY <1>1, <1>2, TrackerStep, CleanUpStep, PTL DEF ControlSpec

-----------------------------------------------------------------------------
(* The limits of the control law (LimitsSpec).                             *)

Tests == {"FREE", "HEIGHT_LIMITED", "ON_GROUND", "PLAN_MOTION"}
Limits == {"m_ModelHeightLimit", "m_RxLimit", "m_RyLimit", "Vx", "Vy", "Rz"}
Fields == Limits \union {"m_MotionTested", "m_IninitHeight"}
Values == Int \union Tests

(* The numbers a limit may be: of each, a twentieth is a number too.       *)
Twenties == {n \in Nat : n % 20 = 0}

(* The limits of a setting are never negative.                             *)
Good(s) ==
  s \in [Fields -> Values] /\ s["m_IninitHeight"] \in Int /\ \A f \in Limits : s[f] \in Twenties

(* An assignment keeps a setting good.                                     *)
Assignments ==
  {a \in Fields \X Values : /\ a[1] \in Limits => a[2] \in Twenties
                            /\ a[1] = "m_IninitHeight" => a[2] \in Int}

-----------------------------------------------------------------------------
(* A factor that keeps a speed in a limit still does if it is made lesser. *)

LEMMA ProductOrder ==
  ASSUME NEW a \in Nat, NEW b \in Nat, NEW c \in Nat, a <= b
  PROVE  a * c <= b * c /\ c * a <= c * b
OBVIOUS

LEMMA CancelFactor ==
  ASSUME NEW a \in Int, NEW b \in Int, NEW c \in Nat \ {0}, a * c <= b * c
  PROVE  a <= b
OBVIOUS

LEMMA LesserKeepsLimit ==
  ASSUME NEW x \in Nat, NEW v \in Nat, NEW f1 \in Nat, NEW f2 \in Nat \ {0},
         NEW g1 \in Nat, NEW g2 \in Nat \ {0},
         x * f1 <= v * f2, g1 * f2 <= f1 * g2
  PROVE  x * g1 <= v * g2
<1>1. x * (g1 * f2) <= x * (f1 * g2)
  OBVIOUS
<1>2. (x * f1) * g2 <= (v * f2) * g2
  OBVIOUS
<1>3. (x * g1) * f2 <= (v * g2) * f2
  BY <1>1, <1>2
<1>4. QED
  BY <1>3, CancelFactor

-----------------------------------------------------------------------------
(* The calls assign what keeps a setting good.                             *)

LEMMA FieldIsNat == ASSUME NEW n \in Numbers, NEW k \in 1 .. 3 PROVE Field(n, k) \in Twenties
<1>1. n \in Seq(Nat) /\ n # <<>> /\ \A i \in DOMAIN n : n[i] % 20 = 0
  BY LimitsAssumption
<1>2. Len(n) \in Nat \ {0}
  BY <1>1, EmptySeq
<1>3. QED
  BY <1>1, <1>2, ElementOfSeq DEF Field, Twenties

LEMMA VelmaxAssigns == ASSUME NEW n \in Numbers PROVE SetVelmax(n) \in Seq(Assignments)
<1>1. \A k \in 1 .. 3 : Axes[k] \in Limits
  BY DEF Axes, Limits
<1>2. \A k \in 1 .. 3 : <<Axes[k], Field(n, k)>> \in Assignments
  BY <1>1, FieldIsNat DEF Assignments, Fields, Values, Twenties
<1>3. SetVelmax(n) \in [1 .. 3 -> Assignments]
  BY <1>2 DEF SetVelmax
<1>4. QED
  BY <1>3, SeqDef

LEMMA MotionTestAssigns ==
  ASSUME NEW test \in Tests, NEW n \in Numbers
  PROVE  SetMotionTest(test, n) \in Seq(Assignments)
<1> DEFINE first == <<<<"m_MotionTested", test>>>>
           height == <<"m_ModelHeightLimit", Field(n, 1)>>
           Rx == <<"m_RxLimit", Field(n, 2)>>
           Ry == <<"m_RyLimit", Field(n, 3)>>
<1>1. <<"m_MotionTested", test>> \in Assignments
  BY DEF Assignments, Fields, Values, Limits
<1>2. first \in Seq(Assignments)
  BY <1>1
<1>3. height \in Assignments /\ Rx \in Assignments /\ Ry \in Assignments
  BY FieldIsNat DEF Assignments, Fields, Values, Limits, Twenties
<1> HIDE DEF first, height, Rx, Ry
<1>4. <<>> \in Seq(Assignments) /\ <<height>> \in Seq(Assignments)
      /\ <<height, Rx, Ry>> \in Seq(Assignments)
  BY <1>3
<1>5. CASE test = "FREE"
  <2>1. SetMotionTest(test, n) = first \o <<>>
    BY <1>5 DEF SetMotionTest, first
  <2>2. QED
    BY <1>2, <1>4, <2>1, ConcatProperties
<1>6. CASE test = "HEIGHT_LIMITED"
  <2>1. SetMotionTest(test, n) = first \o <<height>>
    BY <1>6 DEF SetMotionTest, first, height
  <2>2. QED
    BY <1>2, <1>4, <2>1, ConcatProperties
<1>7. CASE test \in {"ON_GROUND", "PLAN_MOTION"}
  <2>1. SetMotionTest(test, n) = first \o <<height, Rx, Ry>>
    BY <1>7 DEF SetMotionTest, first, height, Rx, Ry
  <2>2. QED
    BY <1>2, <1>4, <2>1, ConcatProperties
<1>8. QED
  BY <1>5, <1>6, <1>7 DEF Tests

LEMMA HeightAssigns == ASSUME NEW h \in Heights PROVE SetInitialHeight(h) \in Seq(Assignments)
<1>1. <<"m_IninitHeight", h>> \in Assignments
  BY LimitsAssumption DEF Assignments, Fields, Values, Limits
<1>2. QED
  BY <1>1 DEF SetInitialHeight

LEMMA AssignKeepsGood ==
  ASSUME NEW s, Good(s), NEW a \in Assignments
  PROVE  Good([s EXCEPT ![a[1]] = a[2]])
BY DEF Good, Assignments, Fields

-----------------------------------------------------------------------------
(* The invariant.                                                          *)

LimitTypes ==
  /\ Good(setting) /\ todo \in Seq(Assignments)
  /\ where \in {"idle", "free", "height limited", "on ground", "height", "Rx", "Ry", "copy",
               "bound", "smooth", "write"}
  /\ tested \in {"FREE", "HEIGHT_LIMITED", "ON_GROUND"}
  /\ motion \in Int \X Int \X Int /\ raw \in Int \X Int \X Int
  /\ axis \in 1 .. 3

(* Factors and the bounds of the smoothing are never negative, the bounds  *)
(* differ but for a limit of zero, and a factor is a number unless the     *)
(* frame just came past an axis at rest that may not move.                 *)
FactorInv ==
  /\ fac[1] \in Nat /\ fac[2] \in Nat
  /\ fac[2] = 0 =>
       /\ fac[1] = 0
       /\ \/ where = "bound" /\ axis > 1 /\ AtRestAtZero(axis - 1)
          \/ where = "write" /\ AtRestAtZero(3)
  /\ \A k \in 1 .. 3 :
       /\ Vinf[k] \in Nat /\ Vsup[k] \in Nat
       /\ Vsup[k] = Vinf[k] \/ Vinf[k] = 0 \/ Vsup[k] = 0 => Vsup[k] = 0 /\ Vinf[k] = 0

(* The settings since the frame began are good, and the present one is     *)
(* among them.                                                             *)
SeenInv == (\A s \in seen : Good(s)) /\ (where # "idle" => setting \in seen)

(* The axes that the frame has come past are bounded, but for what an axis *)
(* at rest that may not move made it forget.                               *)
Kept(k, last) == \A j \in k .. last : ~AtRestAtZero(j)

BoundInv ==
  /\ where = "bound" => \A k \in 1 .. 3 : k < axis /\ Kept(k, axis - 1) => WithinLimit(k)
  /\ where = "smooth" => \A k \in 1 .. 3 : k <= axis /\ Kept(k, axis - 1) => WithinLimit(k)
  /\ where = "write" => \A k \in 1 .. 3 : Kept(k, 3) => WithinLimit(k)

TestSeen(test) == \E s \in seen : s.m_MotionTested = test
HeightSeen == \E s \in seen : Abs(motion[1] - s.m_IninitHeight) < s.m_ModelHeightLimit
RxSeen == \E s \in seen : Abs(motion[2]) < s.m_RxLimit
RySeen == \E s \in seen : Abs(motion[3]) < s.m_RyLimit

Accepted ==
  \/ TestSeen("FREE")
  \/ TestSeen("HEIGHT_LIMITED") /\ HeightSeen
  \/ TestSeen("ON_GROUND") /\ HeightSeen /\ RxSeen /\ RySeen

(* What the tests that the motion has passed have seen.                    *)
TestInv ==
  /\ where = "height" =>
       tested \in {"HEIGHT_LIMITED", "ON_GROUND"} /\ TestSeen(tested)
  /\ where \in {"Rx", "Ry"} => TestSeen("ON_GROUND") /\ HeightSeen
  /\ where = "Ry" => RxSeen
  /\ where \in {"copy", "bound", "smooth", "write"} => Accepted

LimitInv == LimitTypes /\ FactorInv /\ SeenInv /\ BoundInv /\ TestInv

LEMMA LimitInvInit == LimitsInit => LimitInv
<1> SUFFICES ASSUME LimitsInit PROVE LimitInv
  OBVIOUS
<1>1. PICK height \in Heights :
        setting = [m_MotionTested |-> "FREE", m_ModelHeightLimit |-> 180, m_RxLimit |-> 0,
                   m_RyLimit |-> 0, m_IninitHeight |-> height, Vx |-> 20, Vy |-> 20, Rz |-> 20]
  BY DEF LimitsInit
<1>2. Good(setting)
  BY <1>1, LimitsAssumption DEF Good, Fields, Limits, Values, Tests, Twenties
<1>3. LimitTypes /\ FactorInv
  BY <1>2 DEF LimitsInit, LimitTypes, FactorInv
<1>4. SeenInv /\ BoundInv /\ TestInv
  BY DEF LimitsInit, SeenInv, BoundInv, TestInv
<1>5. QED
  BY <1>3, <1>4 DEF LimitInv

(* A thread's call, and one of its assignments, in the middle of a frame.  *)
LEMMA CallStep ==
  ASSUME LimitInv, NEW assignments \in Seq(Assignments), SetLimits(assignments)
  PROVE  LimitInv'
BY ZenonT(60)
   DEF LimitInv, SetLimits, limitFrame, LimitTypes, FactorInv, SeenInv, BoundInv, Kept,
       AtRestAtZero, WithinLimit, TestInv, TestSeen, HeightSeen, RxSeen, RySeen, Accepted

LEMMA SeenGrows ==
  ASSUME BoundInv, TestInv, seen \subseteq seen', UNCHANGED limitFrame
  PROVE  BoundInv' /\ TestInv'
<1> USE DEF limitFrame
<1>1. \A k \in 1 .. 3 : WithinLimit(k) => WithinLimit(k)'
  BY DEF WithinLimit
<1>2. BoundInv'
  BY <1>1 DEF BoundInv, Kept, AtRestAtZero
<1>3. /\ \A test \in Tests : TestSeen(test) => TestSeen(test)'
      /\ (HeightSeen => HeightSeen') /\ (RxSeen => RxSeen') /\ (RySeen => RySeen')
  BY DEF TestSeen, HeightSeen, RxSeen, RySeen
<1>4. Accepted => Accepted'
  BY <1>3 DEF Accepted, Tests
<1>5. TestInv'
  BY <1>3, <1>4 DEF TestInv, Tests
<1>6. QED
  BY <1>2, <1>5

LEMMA AssignStep == LimitInv /\ Assign => LimitInv'
<1> SUFFICES ASSUME LimitInv, Assign PROVE LimitInv'
  OBVIOUS
<1>1. LimitTypes /\ FactorInv /\ SeenInv /\ BoundInv /\ TestInv
  BY DEF LimitInv
<1>2. Head(todo) \in Assignments /\ Tail(todo) \in Seq(Assignments)
  BY <1>1, HeadTailProperties DEF Assign, LimitTypes
<1>3. Good(setting)'
  BY <1>1, <1>2, AssignKeepsGood DEF Assign, LimitTypes
<1>4. LimitTypes' /\ FactorInv'
  BY <1>1, <1>2, <1>3 DEF Assign, limitFrame, LimitTypes, FactorInv, AtRestAtZero
<1>5. SeenInv'
  <2>1. Good(setting')
    BY <1>3 DEF Good
  <2>2. seen' \subseteq seen \cup {setting'} /\ (where # "idle" => setting' \in seen')
    BY DEF Assign
  <2>3. \A s \in seen' : Good(s)
    BY <1>1, <2>1, <2>2 DEF SeenInv
  <2>4. where' = where
    BY DEF Assign, limitFrame
  <2>5. QED
    BY <2>2, <2>3, <2>4 DEF SeenInv, Good
<1>6. BoundInv' /\ TestInv'
  <2>1. CASE where = "idle"
    BY <2>1 DEF Assign, limitFrame, BoundInv, TestInv
  <2>2. CASE where # "idle"
    BY <1>1, <2>2, SeenGrows DEF Assign
  <2>3. QED
    BY <2>1, <2>2
<1>7. QED
  BY <1>4, <1>5, <1>6 DEF LimitInv

-----------------------------------------------------------------------------
(* The steps of the frame.                                                 *)

IsFactor(f) == f[1] \in Nat /\ f[2] \in Nat \ {0}

LEMMA LesserOfFactors ==
  ASSUME NEW f, IsFactor(f), NEW g, IsFactor(g), NEW x \in Nat, NEW v \in Nat,
         x * f[1] <= v * f[2] \/ x * g[1] <= v * g[2]
  PROVE  IsFactor(Lesser(f, g)) /\ x * Lesser(f, g)[1] <= v * Lesser(f, g)[2]
<1> USE DEF IsFactor
<1>1. g[1] * f[2] \in Nat /\ f[1] * g[2] \in Nat
  OBVIOUS
<1>2. CASE f[1] * g[2] < g[1] * f[2]
  <2>1. Lesser(f, g) = f
    BY <1>2 DEF Lesser
  <2>2. f[1] * g[2] <= g[1] * f[2]
    BY <1>1, <1>2
  <2>3. x * f[1] <= v * f[2]
    BY <2>2, LesserKeepsLimit
  <2>4. QED
    BY <2>1, <2>3
<1>3. CASE ~(f[1] * g[2] < g[1] * f[2])
  <2>1. Lesser(f, g) = g
    BY <1>3 DEF Lesser
  <2>2. g[1] * f[2] <= f[1] * g[2]
    BY <1>1, <1>3
  <2>3. x * g[1] <= v * g[2]
    BY <2>2, LesserKeepsLimit
  <2>4. QED
    BY <2>1, <2>3
<1>4. QED
  BY <1>2, <1>3

LEMMA LesserIsFactor ==
  ASSUME NEW f, IsFactor(f), NEW g, IsFactor(g) PROVE IsFactor(Lesser(f, g))
BY DEF Lesser

(* Of a factor that is not a number and another one, min is the second.    *)
LEMMA LesserForgets ==
  ASSUME NEW f, NEW g, f[1] \in Nat, f[2] \in Nat, g[1] \in Nat, g[2] \in Nat,
         (f[1] = 0 /\ f[2] = 0) \/ (g[1] = 0 /\ g[2] = 0)
  PROVE  Lesser(f, g) = g
<1>1. CASE f[1] = 0 /\ f[2] = 0
  <2>1. f[1] * g[2] = 0 /\ g[1] * f[2] = 0
    BY <1>1
  <2>2. QED
    BY <2>1 DEF Lesser
<1>2. CASE g[1] = 0 /\ g[2] = 0
  <2>1. f[1] * g[2] = 0 /\ g[1] * f[2] = 0
    BY <1>2
  <2>2. QED
    BY <2>1 DEF Lesser
<1>3. QED
  BY <1>1, <1>2

LEMMA AxisIsLimit == \A k \in 1 .. 3 : Axes[k] \in Limits
BY DEF Axes, Limits

LEMMA SpeedIsInt == ASSUME raw \in Int \X Int \X Int, NEW k \in 1 .. 3 PROVE raw[k] \in Int
OBVIOUS

LEMMA SpeedIsNat == ASSUME raw \in Int \X Int \X Int, NEW k \in 1 .. 3 PROVE Abs(raw[k]) \in Nat
BY SpeedIsInt DEF Abs

(* What keeps the seen settings, the motion and the velocity.              *)
LEMMA TestStep ==
  LimitInv /\ (LawFrameBegins \/ TestObjectMotion \/ heightInLimit \/ objectOnGround) => LimitInv'
<1> SUFFICES ASSUME LimitInv, LawFrameBegins \/ TestObjectMotion \/ heightInLimit \/ objectOnGround
             PROVE  LimitInv'
  OBVIOUS
<1>1. LimitTypes /\ FactorInv /\ SeenInv /\ BoundInv /\ TestInv
  BY DEF LimitInv
<1> USE DEF FrameGoto, Refused
<1>2. CASE LawFrameBegins
  <2>1. LimitTypes'
    BY <1>1, <1>2, LimitsAssumption DEF LawFrameBegins, LimitTypes, Good
  <2>2. FactorInv' /\ SeenInv' /\ BoundInv' /\ TestInv'
    BY <1>1, <1>2 DEF LawFrameBegins, LimitTypes, FactorInv, SeenInv, BoundInv, TestInv, Good
  <2>3. QED
    BY <2>1, <2>2 DEF LimitInv
<1>3. ASSUME UNCHANGED <<setting, todo, motion, raw, axis, Vinf, Vsup, fac, seen>>, where # "idle",
             where' \in {"idle", "height limited", "on ground", "height", "Rx", "Ry", "copy"},
             where \notin {"bound", "write"}, tested' \in {"FREE", "HEIGHT_LIMITED", "ON_GROUND"}
      PROVE  LimitTypes' /\ FactorInv' /\ SeenInv' /\ BoundInv'
  <2>1. fac'[2] # 0
    BY <1>1, <1>3 DEF FactorInv
  <2>2. FactorInv'
    BY <1>1, <1>3, <2>1 DEF FactorInv
  <2>3. QED
    BY <1>1, <1>3, <2>2 DEF LimitTypes, SeenInv, BoundInv, Good
<1>4. CASE TestObjectMotion
  <2>1. /\ UNCHANGED <<setting, todo, motion, raw, axis, Vinf, Vsup, fac, seen>>
        /\ where \in {"free", "height limited", "on ground"}
        /\ where' \in {"idle", "height limited", "on ground", "height", "copy"}
        /\ where' = "copy" => setting.m_MotionTested = "FREE"
        /\ where' = "height" => tested' \in {"HEIGHT_LIMITED", "ON_GROUND"}
                              /\ setting.m_MotionTested = tested'
        /\ tested' \in {"FREE", "HEIGHT_LIMITED", "ON_GROUND"}
    BY <1>4 DEF TestObjectMotion
  <2>2. setting \in seen
    BY <1>1, <2>1 DEF SeenInv
  <2>3. TestInv'
    BY <2>1, <2>2 DEF TestInv, TestSeen, Accepted
  <2>4. QED
    BY <1>3, <2>1, <2>3 DEF LimitInv
<1>5. CASE heightInLimit
  <2>1. /\ UNCHANGED <<setting, todo, tested, motion, raw, axis, Vinf, Vsup, fac, seen>>
        /\ where = "height" /\ where' \in {"idle", "Rx", "copy"}
        /\ where' = "Rx" <=> where' # "idle" /\ tested = "ON_GROUND"
        /\ where' # "idle" =>
             ~(Abs(motion[1] - setting.m_IninitHeight) >= setting.m_ModelHeightLimit)
    BY <1>5 DEF heightInLimit
  <2>2. setting \in seen
    BY <1>1, <2>1 DEF SeenInv
  <2>3. where' # "idle" => HeightSeen
    <3>1. motion[1] \in Int
      BY <1>1 DEF LimitTypes
    <3>2. setting.m_IninitHeight \in Int /\ setting.m_ModelHeightLimit \in Nat
      BY <1>1 DEF LimitTypes, Good, Limits, Twenties
    <3>3. Abs(motion[1] - setting.m_IninitHeight) \in Int
      BY <3>1, <3>2 DEF Abs
    <3>4. where' # "idle" =>
            Abs(motion[1] - setting.m_IninitHeight) < setting.m_ModelHeightLimit
      BY <2>1, <3>2, <3>3
    <3>5. QED
      BY <2>2, <3>4 DEF HeightSeen
  <2>4. TestSeen(tested)
    BY <1>1, <2>1 DEF TestInv
  <2>5. TestInv'
    BY <1>1, <2>1, <2>3, <2>4 DEF TestInv, TestSeen, HeightSeen, Accepted, LimitTypes
  <2>6. QED
    BY <1>1, <1>3, <2>1, <2>5 DEF LimitInv, LimitTypes
<1>6. CASE objectOnGround
  <2>1. /\ UNCHANGED <<setting, todo, tested, motion, raw, axis, Vinf, Vsup, fac, seen>>
        /\ where \in {"Rx", "Ry"} /\ where' \in {"idle", "Ry", "copy"}
        /\ where' = "Ry" => Abs(motion[2]) < setting.m_RxLimit
        /\ where' = "copy" => where = "Ry" /\ Abs(motion[3]) < setting.m_RyLimit
    BY <1>6 DEF objectOnGround
  <2>2. setting \in seen
    BY <1>1, <2>1 DEF SeenInv
  <2>3. TestInv'
    BY <1>1, <2>1, <2>2 DEF TestInv, TestSeen, HeightSeen, RxSeen, RySeen, Accepted
  <2>4. QED
    BY <1>1, <1>3, <2>1, <2>3 DEF LimitInv, LimitTypes
<1>7. QED
  BY <1>2, <1>4, <1>5, <1>6

(* The bounds of the smoothing are apart, but for a limit of zero.         *)
LEMMA BoundsApart ==
  ASSUME NEW v \in Twenties
  PROVE  /\ v \div 20 \in Nat /\ v - v \div 20 \in Nat
         /\ v - v \div 20 = 0 \/ v + v \div 20 = v - v \div 20 \/ v + v \div 20 = 0 => v = 0
<1>1. v \in Nat /\ v = 20 * (v \div 20)
  BY DEF Twenties
<1>2. QED
  BY <1>1

LEMMA CopyStep == LimitInv /\ CopyLimits => LimitInv'
<1> SUFFICES ASSUME LimitInv, CopyLimits PROVE LimitInv'
  OBVIOUS
<1>1. LimitTypes /\ FactorInv /\ SeenInv /\ BoundInv /\ TestInv
  BY DEF LimitInv
<1>2. \A k \in 1 .. 3 :
        /\ Vinf'[k] \in Nat /\ Vsup'[k] \in Nat
        /\ Vsup'[k] = Vinf'[k] \/ Vinf'[k] = 0 \/ Vsup'[k] = 0
             => Vsup'[k] = 0 /\ Vinf'[k] = 0
  <2> SUFFICES ASSUME NEW k \in 1 .. 3
               PROVE  /\ Vinf'[k] \in Nat /\ Vsup'[k] \in Nat
                      /\ Vsup'[k] = Vinf'[k] \/ Vinf'[k] = 0 \/ Vsup'[k] = 0
                            => Vsup'[k] = 0 /\ Vinf'[k] = 0
    OBVIOUS
  <2>1. setting[Axes[k]] \in Twenties
    BY <1>1, AxisIsLimit DEF LimitTypes, Good
  <2>2. Vinf'[k] = setting[Axes[k]] - dv(k) /\ Vsup'[k] = setting[Axes[k]] + dv(k)
    BY DEF CopyLimits
  <2> DEFINE v == setting[Axes[k]]
  <2>3. v \in Nat /\ dv(k) = v \div 20
    BY <2>1 DEF Twenties, dv
  <2> HIDE DEF v
  <2>4. QED
    BY <2>1, <2>2, <2>3, BoundsApart DEF v
<1>3. LimitTypes' /\ FactorInv' /\ SeenInv'
  <2>1. /\ where = "copy" /\ where' = "bound" /\ axis' = 1 /\ fac' = <<1, 1>>
        /\ UNCHANGED <<setting, todo, tested, motion, raw, seen>>
    BY DEF CopyLimits, FrameGoto
  <2>2. LimitTypes'
    BY <1>1, <2>1 DEF LimitTypes, Good
  <2>3. FactorInv'
    <3>1. fac'[1] = 1 /\ fac'[2] = 1
      BY <2>1
    <3>2. fac'[1] \in Nat /\ fac'[2] \in Nat /\ fac'[2] # 0
      BY <3>1
    <3>3. QED
      BY <1>2, <3>2 DEF FactorInv
  <2>4. SeenInv'
    BY <1>1, <2>1 DEF SeenInv, Good
  <2>5. QED
    BY <2>2, <2>3, <2>4
<1>4. BoundInv' /\ TestInv'
  BY <1>1 DEF CopyLimits, FrameGoto, BoundInv, TestInv, TestSeen, HeightSeen, RxSeen, RySeen,
     Accepted
<1>5. QED
  BY <1>3, <1>4 DEF LimitInv

(* A lesser factor keeps what it bounded.                                  *)
LEMMA LesserKeepsBounds ==
  ASSUME LimitInv, IsFactor(fac), NEW g, IsFactor(g), fac' = Lesser(fac, g),
         UNCHANGED <<raw, seen>>,
         NEW k \in 1 .. 3, WithinLimit(k)
  PROVE  WithinLimit(k)'
<1>1. PICK s \in seen : Abs(raw[k]) * fac[1] <= s[Axes[k]] * fac[2]
  BY DEF WithinLimit
<1>2. s[Axes[k]] \in Nat /\ Abs(raw[k]) \in Nat
  <2>1. Good(s) /\ Axes[k] \in Limits
    BY AxisIsLimit DEF LimitInv, SeenInv
  <2>2. s[Axes[k]] \in Nat
    BY <2>1 DEF Good, Twenties
  <2>3. Abs(raw[k]) \in Nat
    BY SpeedIsNat DEF LimitInv, LimitTypes
  <2>4. QED
    BY <2>2, <2>3
<1>3. Abs(raw[k]) * fac'[1] <= s[Axes[k]] * fac'[2]
  BY <1>1, <1>2, LesserOfFactors
<1>4. QED
  BY <1>3 DEF WithinLimit

LEMMA BoundStep == LimitInv /\ Bound => LimitInv'
<1> SUFFICES ASSUME LimitInv, Bound PROVE LimitInv'
  OBVIOUS
<1>1. LimitTypes /\ FactorInv /\ SeenInv /\ BoundInv /\ TestInv
  BY DEF LimitInv
<1> DEFINE x == Abs(raw[axis])
           v == setting[Axes[axis]]
           g == AxisFactor(axis)
<1>2. /\ where = "bound" /\ where' = "smooth" /\ fac' = Lesser(fac, g)
      /\ UNCHANGED <<setting, todo, tested, motion, raw, axis, Vinf, Vsup, seen>>
  BY DEF Bound, FrameGoto
<1>3. x \in Nat /\ v \in Nat /\ axis \in 1 .. 3
  BY <1>1, AxisIsLimit, SpeedIsNat DEF LimitTypes, Good, Twenties
<1>4. IsFactor(g) /\ x * g[1] <= v * g[2]
  <2>1. CASE raw[axis] = 0
    <3>1. x = 0 /\ g = <<v, 1>>
      BY <2>1 DEF Abs, AxisFactor
    <3>2. QED
      BY <1>3, <3>1 DEF IsFactor
  <2>2. CASE raw[axis] # 0
    <3>1. raw[axis] \in Int
      BY <1>1, <1>3, SpeedIsInt DEF LimitTypes
    <3>2. x # 0
      BY <2>2, <3>1 DEF Abs
    <3>3. g[1] = v /\ g[2] = x
      BY <2>2 DEF AxisFactor
    <3> HIDE DEF x, v, g
    <3>4. x * v <= v * x
      BY <1>3
    <3>5. QED
      BY <1>3, <3>2, <3>3, <3>4 DEF IsFactor
  <2>3. QED
    BY <2>1, <2>2
<1> HIDE DEF g
<1>5. IsFactor(fac') /\ x * fac'[1] <= v * fac'[2]
  <2>1. CASE IsFactor(fac)
    BY <1>2, <1>3, <1>4, <2>1, LesserOfFactors
  <2>2. CASE ~IsFactor(fac)
    <3>1. /\ fac[1] = 0 /\ fac[2] = 0 /\ g[1] \in Nat /\ g[2] \in Nat
          /\ fac[1] \in Nat /\ fac[2] \in Nat
      BY <1>1, <1>4, <2>2 DEF FactorInv, IsFactor
    <3>2. Lesser(fac, g) = g
      BY <3>1, LesserForgets
    <3>3. QED
      BY <1>2, <1>4, <3>2
  <2>3. QED
    BY <2>1, <2>2
<1>6. WithinLimit(axis)'
  BY <1>1, <1>2, <1>5 DEF WithinLimit, SeenInv
<1>7. \A k \in 1 .. 3 : k < axis /\ Kept(k, axis - 1) => WithinLimit(k)'
  <2> SUFFICES ASSUME NEW k \in 1 .. 3, k < axis, Kept(k, axis - 1) PROVE WithinLimit(k)'
    OBVIOUS
  <2>1. ~AtRestAtZero(axis - 1)
    BY <1>3 DEF Kept
  <2>2. IsFactor(fac)
    BY <1>1, <1>2, <2>1 DEF FactorInv, IsFactor
  <2>3. WithinLimit(k)
    BY <1>1, <1>2 DEF BoundInv
  <2>4. QED
    BY <1>2, <1>4, <2>2, <2>3, LesserKeepsBounds
<1>8. BoundInv'
  <2> SUFFICES ASSUME NEW k \in 1 .. 3, k <= axis, Kept(k, axis - 1)' PROVE WithinLimit(k)'
    BY <1>2 DEF BoundInv
  <2>1. Kept(k, axis - 1)
    BY <1>2 DEF Kept, AtRestAtZero
  <2>2. QED
    BY <1>2, <1>3, <1>6, <1>7, <2>1
<1>9. LimitTypes' /\ SeenInv' /\ TestInv'
  BY <1>1, <1>2 DEF LimitTypes, SeenInv, TestInv, TestSeen, HeightSeen, RxSeen, RySeen, Accepted,
     Good
<1>10. FactorInv'
  BY <1>1, <1>2, <1>5 DEF FactorInv, IsFactor
<1>11. QED
  BY <1>8, <1>9, <1>10 DEF LimitInv

LEMMA SmoothStep == LimitInv /\ Smooth => LimitInv'
<1> SUFFICES ASSUME LimitInv, Smooth PROVE LimitInv'
  OBVIOUS
<1>1. LimitTypes /\ FactorInv /\ SeenInv /\ BoundInv /\ TestInv
  BY DEF LimitInv
<1> DEFINE g == Smoothed(axis)
           x == Abs(raw[axis])
           v == setting[Axes[axis]]
           a == Vinf[axis]
           b == Vsup[axis]
<1>2. /\ where = "smooth" /\ where' = IF axis < 3 THEN "bound" ELSE "write"
      /\ axis' = IF axis < 3 THEN axis + 1 ELSE axis
      /\ fac' = IF x \in a .. b THEN Lesser(fac, g) ELSE fac
      /\ UNCHANGED <<setting, todo, tested, motion, raw, Vinf, Vsup, seen>>
  BY DEF Smooth, FrameGoto
<1>3. axis \in 1 .. 3 /\ IsFactor(fac)
  BY <1>1, <1>2 DEF LimitTypes, FactorInv, IsFactor
<1>4. x \in Nat /\ v \in Nat /\ a \in Nat /\ b \in Nat /\ (b = a \/ a = 0 \/ b = 0 => b = 0 /\ a = 0)
  BY <1>1, <1>3, AxisIsLimit, SpeedIsNat DEF LimitTypes, FactorInv, Good, Twenties
<1>5. g = <<(x - a) * v + (b - x) * a, (b - a) * x>>
  BY DEF Smoothed
<1>6. x = 0 <=> raw[axis] = 0
  <2>1. raw[axis] \in Int
    BY <1>1, <1>3, SpeedIsInt DEF LimitTypes
  <2>2. QED
    BY <2>1 DEF Abs
<1>7. AtRestAtZero(axis) <=> x = 0 /\ b = 0
  BY <1>6 DEF AtRestAtZero
<1> HIDE DEF g, x, v, a, b
<1>8. x \in a .. b => g[1] \in Nat /\ g[2] \in Nat
  <2> SUFFICES ASSUME x \in a .. b PROVE g[1] \in Nat /\ g[2] \in Nat
    OBVIOUS
  <2>1. x - a \in Nat /\ b - x \in Nat /\ b - a \in Nat
    BY <1>4
  <2>2. (x - a) * v \in Nat /\ (b - x) * a \in Nat /\ (b - a) * x \in Nat
    BY <1>4, <2>1
  <2>3. QED
    BY <1>5, <2>2
<1>9. x \in a .. b => (g[2] = 0 => AtRestAtZero(axis))
  <2> SUFFICES ASSUME x \in a .. b, ~AtRestAtZero(axis) PROVE g[2] # 0
    OBVIOUS
  <2>1. b - a \in Nat \ {0} /\ x \in Nat \ {0}
    BY <1>4, <1>7
  <2>2. (b - a) * x # 0
    BY <2>1
  <2>3. QED
    BY <1>5, <2>2
<1>10. CASE AtRestAtZero(axis)
  <2>1. x = 0 /\ b = 0 /\ a = 0
    BY <1>4, <1>7, <1>10
  <2>2. g[1] = 0 /\ g[2] = 0
    BY <1>4, <1>5, <2>1
  <2>3. fac' = g
    BY <1>2, <1>3, <2>1, <2>2, LesserForgets DEF IsFactor
  <2>4. FactorInv'
    BY <1>1, <1>2, <1>3, <1>10, <2>2, <2>3 DEF FactorInv, AtRestAtZero
  <2>5. BoundInv'
    BY <1>2, <1>3, <1>10 DEF BoundInv, Kept, AtRestAtZero
  <2>6. QED
    BY <2>4, <2>5, <1>1, <1>2, <1>3
       DEF LimitInv, LimitTypes, SeenInv, TestInv, TestSeen, HeightSeen, RxSeen, RySeen, Accepted,
           Good
<1>11. CASE ~AtRestAtZero(axis)
  <2>1. IsFactor(fac') /\ \A k \in 1 .. 3 : WithinLimit(k) => WithinLimit(k)'
    <3>1. CASE x \in a .. b
      <4>1. IsFactor(g) /\ fac' = Lesser(fac, g)
        BY <1>2, <1>8, <1>9, <1>11, <3>1 DEF IsFactor
      <4>2. QED
        BY <1>2, <1>3, <4>1, LesserIsFactor, LesserKeepsBounds
    <3>2. CASE x \notin a .. b
      <4>1. fac' = fac
        BY <1>2, <3>2
      <4>2. QED
        BY <1>2, <1>3, <4>1 DEF WithinLimit
    <3>3. QED
      BY <3>1, <3>2
  <2>2. FactorInv'
    BY <1>1, <1>2, <2>1 DEF FactorInv, IsFactor
  <2>3. \A k \in 1 .. 3 : k <= axis /\ Kept(k, axis) => WithinLimit(k)'
    BY <1>1, <1>2, <1>3, <2>1 DEF BoundInv, Kept
  <2>4. \A k, n \in 1 .. 3 : Kept(k, n)' <=> Kept(k, n)
    BY <1>2 DEF Kept, AtRestAtZero
  <2>5. BoundInv'
    BY <1>2, <1>3, <2>3, <2>4 DEF BoundInv
  <2>6. QED
    BY <2>2, <2>5, <1>1, <1>2, <1>3
       DEF LimitInv, LimitTypes, SeenInv, TestInv, TestSeen, HeightSeen, RxSeen, RySeen, Accepted,
           Good
<1>12. QED
  BY <1>10, <1>11

LEMMA WriteStep == LimitInv /\ Write => LimitInv'
<1> SUFFICES ASSUME LimitInv, Write PROVE LimitInv'
  OBVIOUS
<1>1. LimitTypes' /\ FactorInv'
  BY SMTT(30) DEF LimitInv, Write, FrameGoto, LimitTypes, FactorInv, Good
<1>2. SeenInv' /\ BoundInv' /\ TestInv'
  BY DEF LimitInv, Write, FrameGoto, SeenInv, BoundInv, TestInv, Good
<1>3. QED
  BY <1>1, <1>2 DEF LimitInv

LEMMA LimitInvStep == LimitInv /\ [LimitsNext]_limitVars => LimitInv'
<1> SUFFICES ASSUME LimitInv, [LimitsNext]_limitVars PROVE LimitInv'
  OBVIOUS
<1>1. ASSUME NEW numbers \in Numbers, SetLimits(SetVelmax(numbers)) PROVE LimitInv'
  BY <1>1, VelmaxAssigns, CallStep
<1>2. ASSUME NEW test \in Tests, NEW numbers \in Numbers, SetLimits(SetMotionTest(test, numbers))
      PROVE  LimitInv'
  BY <1>2, MotionTestAssigns, CallStep
<1>3. ASSUME NEW height \in Heights, SetLimits(SetInitialHeight(height)) PROVE LimitInv'
  BY <1>3, HeightAssigns, CallStep
<1>4. CASE LawFrame
  BY <1>4, TestStep, CopyStep, BoundStep, SmoothStep, WriteStep DEF LawFrame
<1>5. CASE UNCHANGED limitVars
  BY <1>5, ZenonT(60)
          DEF limitVars, LimitInv, LimitTypes, FactorInv, SeenInv, BoundInv, Kept,
              AtRestAtZero, WithinLimit, TestInv, TestSeen, HeightSeen, RxSeen, RySeen, Accepted, Good
<1>6. QED
  BY <1>1, <1>2, <1>3, <1>4, <1>5, AssignStep DEF LimitsNext, Tests

-----------------------------------------------------------------------------
(* The robot is given no speed over every limit of the axis in force since *)
(* the frame began, in the law's own direction, unless this axis or a      *)
(* later one is at rest with a limit of zero; and only for a motion of the *)
(* object that settings in force since then accept, whatever numbers a     *)
(* thread assigns to the parameters meanwhile.                             *)
THEOREM SpeedsAreLimited == LimitsSpec => []SpeedWithinLimits
<1>1. ASSUME LimitInv PROVE SpeedWithinLimits
  <2> SUFFICES ASSUME where = "write" PROVE SpeedWithinLimits
    BY DEF SpeedWithinLimits
  <2>1. \A k \in 1 .. 3 : (\A j \in k .. 3 : ~AtRestAtZero(j)) => WithinLimit(k)
    BY <1>1 DEF LimitInv, BoundInv, Kept
  <2>2. ~AtRestAtZero(3) => fac[1] >= 0 /\ fac[2] > 0
    BY <1>1 DEF LimitInv, FactorInv
  <2>3. Accepted
    BY <1>1 DEF LimitInv, TestInv
  <2>4. QED
    BY <2>1, <2>2, <2>3
       DEF SpeedWithinLimits, Accepted, TestSeen, HeightSeen, RxSeen, RySeen
<1>2. QED
  BY LimitInvInit, LimitInvStep, <1>1, PTL DEF LimitsSpec

-----------------------------------------------------------------------------
(* The calibration of a tracker's camera (CalibrationSpec).                *)

Cams == Entries \union {NoFile("given"), NoFile("none")}

CallTypes ==
  /\ DOMAIN caller = Callers
  /\ \A c \in Callers : caller[c].at = "idle" => caller[c] = NotCalling
  /\ overtaken \in BOOLEAN /\ camGiven \in BOOLEAN /\ changed \in BOOLEAN

(* Calls that did not overlap: there is one at most, what it looked for is *)
(* what the settings are, and before it has assigned its own the           *)
(* calibration is that of the settings.                                    *)
CallsInTurn ==
  ~overtaken =>
    /\ \A c, d \in Callers : caller[c] # NotCalling /\ caller[d] # NotCalling => c = d
    /\ \A c \in Callers : caller[c].at = "store" => caller[c].entry = sought
    /\ (\A c \in Callers : caller[c].at \in {"idle", "assign"}) /\ ~camGiven /\ sought \in Entries =>
         cam = sought

(* In a frame without a call the calibration does not change.              *)
PointsOfOneCam ==
  /\ cam \in Cams /\ points \in Seq(Cams)
  /\ points # <<>> /\ ~changed => Quiet /\ \A i \in DOMAIN points : points[i] = cam
  /\ tracker = "model" /\ ~unsaid => camOfTracker = cam

CalibInv == CallTypes /\ CallsInTurn /\ PointsOfOneCam

LEMMA CalibInvInit == CalibrationInit => CalibInv
<1> SUFFICES ASSUME CalibrationInit
             PROVE  CalibInv
  OBVIOUS
<1>1. CallTypes
  BY DEF CalibrationInit, CallTypes, NotCalling
<1>2. CallsInTurn
  BY DEF CalibrationInit, CallsInTurn, NotCalling, EntryOr
<1>3. PointsOfOneCam
  BY DEF CalibrationInit, PointsOfOneCam, Cams, EntryOr
<1> QED
  BY <1>1, <1>2, <1>3 DEF CalibInv

LEMMA CalibInvStep == CalibInv /\ [CalibrationNext]_calibVars => CalibInv'
<1> SUFFICES ASSUME CallTypes, CallsInTurn, PointsOfOneCam, [CalibrationNext]_calibVars
             PROVE  CalibInv'
  BY DEF CalibInv
<1> USE DEF camera, frameOfPoints
<1>1. CASE SetCameraParameters
  <2>1. CallTypes'
    BY <1>1 DEF SetCameraParameters, CallTypes
  <2>2. CallsInTurn'
    BY <1>1 DEF SetCameraParameters, CallsInTurn
  <2>3. PointsOfOneCam'
    BY <1>1 DEF SetCameraParameters, PointsOfOneCam, BetweenFrames, TellTracker, Cams
  <2> QED
    BY <2>1, <2>2, <2>3 DEF CalibInv
<1>2. CASE SetInputVispImages
  <2>1. cam' = EntryOr(sought', cam) /\ cam' \in Cams
    BY <1>2 DEF SetInputVispImages, EntryOr, PointsOfOneCam, Cams
  <2>2. CallTypes'
    BY <1>2 DEF SetInputVispImages, CallTypes
  <2>3. CallsInTurn'
    <3>1. sought' \in Entries => cam' = sought'
      BY <2>1 DEF EntryOr
    <3>2. Quiet /\ UNCHANGED <<caller, overtaken>>
      BY <1>2 DEF SetInputVispImages, BetweenFrames
    <3>3. \A c \in Callers : caller'[c] = NotCalling
      BY <3>2 DEF Quiet
    <3> QED
      BY <3>1, <3>3 DEF CallsInTurn, NotCalling
  <2>4. PointsOfOneCam'
    BY <1>2, <2>1 DEF SetInputVispImages, PointsOfOneCam, BetweenFrames, TellTracker
  <2> QED
    BY <2>2, <2>3, <2>4 DEF CalibInv
<1>3. ASSUME NEW c \in Callers, SetCalibration(c)
      PROVE  CalibInv'
  <2>1. PICK p \in Parameters : caller' = [caller EXCEPT ![c] = [at |-> "assign", parameter |-> p]]
    BY <1>3 DEF SetCalibration
  <2>2. ~overtaken' => ~overtaken /\ Quiet
    BY <1>3 DEF SetCalibration
  <2>3. UNCHANGED <<tracker, sought, cam, camOfTracker, points, camGiven, unsaid>>
    BY <1>3 DEF SetCalibration
  <2>4. CallTypes'
    BY <1>3, <2>1 DEF SetCalibration, CallTypes
  <2>5. CallsInTurn'
    BY <2>1, <2>2, <2>3 DEF CallsInTurn, CallTypes, Quiet, NotCalling
  <2>6. PointsOfOneCam'
    <3>1. points # <<>> => changed'
      BY <1>3 DEF SetCalibration
    <3> QED
      BY <2>3, <3>1 DEF PointsOfOneCam
  <2> QED
    BY <2>4, <2>5, <2>6 DEF CalibInv
<1>4. ASSUME NEW c \in Callers, RefuseProjection(c)
      PROVE  CalibInv'
  <2>1. CallTypes'
    BY <1>4 DEF RefuseProjection, CallTypes
  <2>2. CallsInTurn'
    BY <1>4 DEF RefuseProjection, CallTypes, CallsInTurn, NotCalling
  <2>3. PointsOfOneCam'
    BY <1>4 DEF RefuseProjection, PointsOfOneCam, Quiet, NotCalling
  <2> QED
    BY <2>1, <2>2, <2>3 DEF CalibInv
<1>5. ASSUME NEW c \in Callers, AssignSetting(c)
      PROVE  CalibInv'
  <2>1. CallTypes'
    BY <1>5 DEF AssignSetting, CallTypes
  <2>2. CallsInTurn'
    <3>1. ~overtaken' => \A d \in Callers \ {c} : caller'[d] = NotCalling
      BY <1>5 DEF AssignSetting, CallTypes
    <3>2. caller'[c] = [at |-> "parse"]
      BY <1>5 DEF AssignSetting, CallTypes
    <3> QED
      BY <3>1, <3>2 DEF CallsInTurn, NotCalling
  <2>3. PointsOfOneCam'
    BY <1>5 DEF AssignSetting, PointsOfOneCam, Quiet, NotCalling
  <2> QED
    BY <2>1, <2>2, <2>3 DEF CalibInv
<1>6. ASSUME NEW c \in Callers, ParseCamParam(c)
      PROVE  CalibInv'
  <2>1. PICK entry : caller' = [caller EXCEPT ![c] = [at |-> "store", entry |-> entry]]
    BY <1>6 DEF ParseCamParam
  <2>2. caller[c].at = "parse" /\ UNCHANGED <<tracker, camera, frameOfPoints, camGiven, overtaken, unsaid>>
    BY <1>6 DEF ParseCamParam
  <2>3. CallTypes'
    BY <2>1, <2>2 DEF CallTypes
  <2>4. CallsInTurn'
    <3>1. ~overtaken => caller' = [caller EXCEPT ![c] = [at |-> "store", entry |-> sought]]
      <4>1. ASSUME NEW d \in Callers, caller[d].at = "assign"
            PROVE  overtaken
        BY <2>2, <4>1 DEF CallsInTurn, NotCalling
      <4> QED
        BY <1>6, <4>1 DEF ParseCamParam
    <3> QED
      BY <2>2, <3>1 DEF CallTypes, CallsInTurn, NotCalling
  <2>5. PointsOfOneCam'
    BY <2>2 DEF PointsOfOneCam, Quiet, NotCalling
  <2> QED
    BY <2>3, <2>4, <2>5 DEF CalibInv
<1>7. ASSUME NEW c \in Callers, StoreCam(c)
      PROVE  CalibInv'
  <2>1. cam' = EntryOr(caller[c].entry, cam) /\ cam' \in Cams
    BY <1>7 DEF StoreCam, EntryOr, PointsOfOneCam, Cams
  <2>2. CallTypes'
    BY <1>7 DEF StoreCam, CallTypes
  <2>3. CallsInTurn'
    <3>1. ~overtaken => caller[c].entry = sought
      BY <1>7 DEF StoreCam, CallsInTurn
    <3>2. ~overtaken /\ sought \in Entries => cam' = sought
      BY <2>1, <3>1 DEF EntryOr
    <3> QED
      BY <1>7, <3>2 DEF StoreCam, CallTypes, CallsInTurn, NotCalling
  <2>4. PointsOfOneCam'
    <3>1. ~Quiet /\ UNCHANGED <<tracker, points, changed, camOfTracker>>
      BY <1>7 DEF StoreCam, Quiet, NotCalling
    <3>2. ~unsaid' => ~unsaid /\ cam' = cam
      BY <1>7 DEF StoreCam
    <3> QED
      BY <2>1, <3>1, <3>2 DEF PointsOfOneCam
  <2> QED
    BY <2>2, <2>3, <2>4 DEF CalibInv
<1>8. CASE ConvertPoint
  <2>1. CallTypes' /\ CallsInTurn'
    <3>1. changed' \in BOOLEAN
      BY <1>8 DEF ConvertPoint, CallTypes
    <3> QED
      BY <1>8, <3>1 DEF ConvertPoint, CallTypes, CallsInTurn
  <2>2. PointsOfOneCam'
    <3>1. points' = Append(points, cam) /\ UNCHANGED <<tracker, cam, camOfTracker, caller, unsaid>>
      BY <1>8 DEF ConvertPoint
    <3>2. ~changed' => Quiet /\ \A i \in DOMAIN points : points[i] = cam
      <4>1. CASE points = <<>>
        <5>1. changed' = ~Quiet
          BY <1>8, <4>1 DEF ConvertPoint
        <5>2. ~changed' => Quiet
          BY ONLY <5>1
        <5>3. \A i \in DOMAIN points : FALSE
          BY <4>1
        <5> QED
          BY <5>2, <5>3
      <4>2. CASE points # <<>>
        <5>1. changed' = changed
          BY <1>8, <4>2 DEF ConvertPoint
        <5> QED
          BY <4>2, <5>1 DEF PointsOfOneCam
      <4> QED
        BY <4>1, <4>2
    <3>3. points' \in Seq(Cams)
      BY <3>1 DEF PointsOfOneCam
    <3>4. ~changed' => \A i \in DOMAIN points' : points'[i] = cam
      BY <3>1, <3>2 DEF PointsOfOneCam
    <3>5. Quiet' = Quiet
      BY <3>1 DEF Quiet
    <3> QED
      BY <3>1, <3>2, <3>3, <3>4, <3>5 DEF PointsOfOneCam
  <2> QED
    BY <2>1, <2>2 DEF CalibInv
<1>9. CASE computePoseOfPoints
  <2>1. CallTypes' /\ CallsInTurn'
    BY <1>9 DEF computePoseOfPoints, CallTypes, CallsInTurn
  <2>2. PointsOfOneCam'
    BY <1>9 DEF computePoseOfPoints, PointsOfOneCam
  <2> QED
    BY <2>1, <2>2 DEF CalibInv
<1>10. CASE UNCHANGED calibVars
  BY <1>10 DEF calibVars, CalibInv, CallTypes, CallsInTurn, PointsOfOneCam, Quiet
<1> QED
  BY <1>1, <1>2, <1>3, <1>4, <1>5, <1>6, <1>7, <1>8, <1>9, <1>10 DEF CalibrationNext

(* Whatever calls set the calibration in whatever order, once they have    *)
(* returned and did not overlap it is the one the settings ask for, and a  *)
(* pose has its points converted with one calibration unless a call was    *)
(* under way in its frame.                                                 *)
LEMMA CalibrationRight ==
  CalibrationSpec => [](CalibrationOfTheSettings /\ PoseOfOneCalibration)
<1>1. CalibInv => CalibrationOfTheSettings
  BY DEF CalibInv, CallsInTurn, CalibrationOfTheSettings, Quiet, NotCalling
<1>2. CalibInv => PoseOfOneCalibration
  <2> SUFFICES ASSUME CalibInv
               PROVE  PoseOfOneCalibration
    OBVIOUS
  <2>1. ASSUME ~changed
        PROVE  Cardinality(ToSet(points)) <= 1
    <3>1. CASE points = <<>>
      <4>1. ToSet(points) = {}
        BY <3>1 DEF ToSet
      <4> QED
        BY <4>1, FS_EmptySet
    <3>2. CASE points # <<>>
      <4>1. \A i \in DOMAIN points : points[i] = cam
        BY <2>1, <3>2 DEF CalibInv, PointsOfOneCam
      <4>2. points \in Seq(Cams) /\ 1 \in DOMAIN points
        BY <3>2 DEF CalibInv, PointsOfOneCam
      <4>3. ToSet(points) = {cam}
        BY <4>1, <4>2 DEF ToSet
      <4> QED
        BY <4>3, FS_Singleton
    <3> QED
      BY <3>1, <3>2
  <2> QED
    BY <2>1 DEF PoseOfOneCalibration, CalibInv, PointsOfOneCam
<1> QED
  BY <1>1, <1>2, CalibInvInit, CalibInvStep, PTL DEF CalibrationSpec

-----------------------------------------------------------------------------
(* The parameters of a process (ParametersSpec).                           *)

Names == EdgeSettings \union {"INTERNAL_STATE"}
Given == Settings \union {"default"}
CallPlaces == {"insert value", "count", "set", "apply", "postpone"}

ListTypes ==
  /\ m_VectorOfParameters \in Seq(Names) /\ m_VectorOfValuesForParameters \in Seq(Given)
  /\ m_ParametersSize \in Int /\ counted \in BOOLEAN
  /\ lastValue \in [EdgeSettings -> Given]
  /\ setter \in [Setters -> {NoCall} \union [at : CallPlaces, name : EdgeSettings, value : Settings]]

(* A name that was set is in the list, whoever races.                      *)
NamesInList ==
  \A n \in EdgeSettings : lastValue[n] # "default" =>
    \E i \in DOMAIN m_VectorOfParameters : m_VectorOfParameters[i] = n

(* Without a race a call that inserts is alone; each name is in the list   *)
(* once and has its last value at its place, but for the name just         *)
(* inserted, whose value and count follow.                                 *)
InsertsAlone ==
  \A c, d \in Setters : setter[c].at \in Inserting /\ setter[d].at # "idle" => c = d
NamesOnce ==
  \A i, j \in DOMAIN m_VectorOfParameters :
    m_VectorOfParameters[i] = m_VectorOfParameters[j] => i = j
ValuesAtNames ==
  /\ Len(m_VectorOfValuesForParameters) <= Len(m_VectorOfParameters)
  /\ \A i \in DOMAIN m_VectorOfValuesForParameters : m_VectorOfParameters[i] \in EdgeSettings =>
       m_VectorOfValuesForParameters[i] = lastValue[m_VectorOfParameters[i]]
ListsPairUp ==
  /\ (\A c \in Setters : setter[c].at # "insert value") =>
       Len(m_VectorOfValuesForParameters) = Len(m_VectorOfParameters)
  /\ \A c \in Setters : setter[c].at = "insert value" =>
       /\ Len(m_VectorOfParameters) = Len(m_VectorOfValuesForParameters) + 1
       /\ m_VectorOfParameters[Len(m_VectorOfParameters)] = setter[c].name
       /\ lastValue[setter[c].name] = setter[c].value
NamesCounted ==
  counted =>
    /\ Len(m_VectorOfParameters) <= m_ParametersSize + 1
    /\ (\A c \in Setters : setter[c].at \notin Inserting) =>
         Len(m_VectorOfParameters) <= m_ParametersSize

ListInOrder ==
  ~insertRaced =>
    InsertsAlone /\ NamesOnce /\ ValuesAtNames /\ ListsPairUp /\ NamesCounted

(* Settings the tracker does not use yet are on their way to it.           *)
EdgesOnTheirWay ==
  ~applyRaced =>
    /\ trackerAt = "applied" => edgesInUse = m_me
    /\ edgesInUse # m_me =>
         m_me_modified \/ \E c \in Setters : setter[c].at \in {"apply", "postpone"}

ParametersInv == ListTypes /\ NamesInList /\ ListInOrder /\ EdgesOnTheirWay

LEMMA ParametersInvInit == ParametersInit => ParametersInv
<1> SUFFICES ASSUME ParametersInit
             PROVE  ParametersInv
  OBVIOUS
<1>1. PICK first \in Garbage : m_ParametersSize = first + 1 /\ counted = (first >= 0)
  BY DEF ParametersInit
<1>2. first \in Int /\ m_ParametersSize \in Int /\ counted \in BOOLEAN /\ (counted => 1 <= m_ParametersSize)
  <2>1. first \in Int
    BY ParameterAssumption
  <2>2. counted <=> first >= 0
    BY <1>1
  <2>3. counted \in BOOLEAN
    BY <1>1
  <2> QED
    BY <1>1, <2>1, <2>2, <2>3
<1>3. ListTypes
  BY <1>2 DEF ParametersInit, ListTypes, Names, Given
<1>4. NamesInList
  BY DEF ParametersInit, NamesInList
<1>5. \A c \in Setters : setter[c] = NoCall
  BY DEF ParametersInit
<1>6. ListInOrder
  <2>1. InsertsAlone /\ ListsPairUp
    BY <1>5 DEF ParametersInit, InsertsAlone, ListsPairUp, NoCall
  <2>2. NamesOnce /\ ValuesAtNames
    BY ParameterAssumption DEF ParametersInit, NamesOnce, ValuesAtNames
  <2>3. NamesCounted
    BY <1>2 DEF ParametersInit, NamesCounted
  <2> QED
    BY <2>1, <2>2, <2>3 DEF ListInOrder
<1>7. EdgesOnTheirWay
  BY DEF ParametersInit, EdgesOnTheirWay
<1> QED
  BY <1>3, <1>4, <1>6, <1>7 DEF ParametersInv

LEMMA SetParameterStep ==
  ASSUME ParametersInv, NEW c \in Setters, NEW name \in EdgeSettings, NEW value \in Settings,
         SetParameter(c, name, value)
  PROVE  ParametersInv'
<1> DEFINE found == Positions(name)
           call == [at |-> IF found = {} THEN "insert value" ELSE "set", name |-> name, value |-> value]
<1>1. /\ setter[c].at = "idle" /\ setter' = [setter EXCEPT ![c] = call]
      /\ lastValue' = [lastValue EXCEPT ![name] = value]
      /\ m_VectorOfParameters' =
           IF found = {} THEN Append(m_VectorOfParameters, name) ELSE m_VectorOfParameters
      /\ m_VectorOfValuesForParameters' =
           [i \in DOMAIN m_VectorOfValuesForParameters |->
              IF i \in found THEN value ELSE m_VectorOfValuesForParameters[i]]
      /\ UNCHANGED <<m_ParametersSize, counted, edges, trackerAt, applyRaced>>
  BY DEF SetParameter, SetterAt
<1>2. /\ found \subseteq DOMAIN m_VectorOfParameters
      /\ \A i \in DOMAIN m_VectorOfParameters : i \in found <=> m_VectorOfParameters[i] = name
  BY DEF Positions
<1>3. ListTypes
  BY DEF ParametersInv
<1>4. /\ m_VectorOfValuesForParameters' \in Seq(Given)
      /\ Len(m_VectorOfValuesForParameters') = Len(m_VectorOfValuesForParameters)
      /\ \A i \in DOMAIN m_VectorOfValuesForParameters' :
           m_VectorOfValuesForParameters'[i] = IF i \in found THEN value ELSE m_VectorOfValuesForParameters[i]
  <2> DEFINE n == Len(m_VectorOfValuesForParameters)
  <2>1. n \in Nat /\ DOMAIN m_VectorOfValuesForParameters = 1 .. n
    BY <1>3 DEF ListTypes
  <2>2. \A i \in 1 .. n : (IF i \in found THEN value ELSE m_VectorOfValuesForParameters[i]) \in Given
    BY <1>3 DEF ListTypes, Given
  <2> HIDE DEF n, found
  <2>3. m_VectorOfValuesForParameters' = [i \in 1 .. n |-> IF i \in found THEN value ELSE m_VectorOfValuesForParameters[i]]
    BY <1>1, <2>1
  <2>4. m_VectorOfValuesForParameters' \in [1 .. n -> Given]
    BY <2>2, <2>3
  <2>5. m_VectorOfValuesForParameters' \in Seq(Given)
    BY <2>1, <2>4
  <2>6. DOMAIN m_VectorOfValuesForParameters' = 1 .. n
    BY <2>3
  <2>7. Len(m_VectorOfValuesForParameters') = n
    BY <2>1, <2>5, <2>6
  <2> QED
    BY <2>3, <2>5, <2>6, <2>7 DEF n
<1>5. DOMAIN setter = Setters /\ setter'[c] = call /\ \A d \in Setters \ {c} : setter'[d] = setter[d]
  BY <1>1, <1>3 DEF ListTypes
<1>6. lastValue'[name] = value /\ \A n \in EdgeSettings \ {name} : lastValue'[n] = lastValue[n]
  BY <1>1, <1>3 DEF ListTypes
<1>7. ListTypes'
  <2>1. m_VectorOfParameters' \in Seq(Names)
    <3>1. name \in Names /\ Append(m_VectorOfParameters, name) \in Seq(Names)
      BY <1>3 DEF ListTypes, Names
    <3> HIDE DEF found
    <3> QED
      BY <1>1, <1>3, <3>1 DEF ListTypes
  <2>2. call \in [at : CallPlaces, name : EdgeSettings, value : Settings]
    BY DEF CallPlaces
  <2>3. lastValue' \in [EdgeSettings -> Given]
    BY <1>1, <1>3 DEF ListTypes, Given
  <2> HIDE DEF call
  <2>4. setter' \in [Setters -> {NoCall} \union [at : CallPlaces, name : EdgeSettings, value : Settings]]
    BY <1>1, <1>3, <2>2 DEF ListTypes
  <2> QED
    BY <1>1, <1>3, <1>4, <2>1, <2>3, <2>4 DEF ListTypes
<1>8. NamesInList'
  <2> SUFFICES ASSUME NEW n \in EdgeSettings, lastValue'[n] # "default"
               PROVE  \E i \in DOMAIN m_VectorOfParameters' : m_VectorOfParameters'[i] = n
    BY DEF NamesInList
  <2>1. CASE found = {}
    <3>1. m_VectorOfParameters' = Append(m_VectorOfParameters, name)
      BY <1>1, <2>1
    <3>2. CASE n = name
      BY <1>3, <3>1, <3>2 DEF ListTypes
    <3>3. CASE n # name
      <4>1. PICK i \in DOMAIN m_VectorOfParameters : m_VectorOfParameters[i] = n
        BY <1>6, <3>3 DEF ParametersInv, NamesInList
      <4>2. i \in DOMAIN m_VectorOfParameters' /\ m_VectorOfParameters'[i] = n
        BY <1>3, <3>1, <4>1 DEF ListTypes
      <4> QED
        BY <4>2
    <3> QED
      BY <3>2, <3>3
  <2>2. CASE found # {}
    <3>1. m_VectorOfParameters' = m_VectorOfParameters
      BY <1>1, <2>2
    <3>2. CASE n = name
      BY <1>2, <2>2, <3>1, <3>2
    <3>3. CASE n # name
      BY <1>6, <3>1, <3>3 DEF ParametersInv, NamesInList
    <3> QED
      BY <3>2, <3>3
  <2> QED
    BY <2>1, <2>2
<1>9. ListInOrder'
  <2> SUFFICES ASSUME ~insertRaced'
               PROVE  (InsertsAlone /\ NamesOnce /\ ValuesAtNames /\ ListsPairUp /\ NamesCounted)'
    BY DEF ListInOrder
  <2>1. /\ ~insertRaced
        /\ \A d \in Setters \ {c} : setter[d].at \notin Inserting
        /\ found = {} => \A d \in Setters \ {c} : setter[d].at = "idle"
    BY DEF SetParameter
  <2>2. InsertsAlone /\ NamesOnce /\ ValuesAtNames /\ ListsPairUp /\ NamesCounted
    BY <2>1 DEF ParametersInv, ListInOrder
  <2>3. \A d \in Setters : setter[d].at \notin Inserting /\ setter[d].at # "insert value"
    BY <1>1, <2>1 DEF Inserting
  <2>4. Len(m_VectorOfValuesForParameters) = Len(m_VectorOfParameters)
    BY <2>2, <2>3 DEF ListsPairUp
  <2>5. CASE found = {}
    <3>1. m_VectorOfParameters' = Append(m_VectorOfParameters, name) /\ call.at = "insert value"
      BY <1>1, <2>5
    <3>2. /\ Len(m_VectorOfParameters') = Len(m_VectorOfParameters) + 1
          /\ \A i \in DOMAIN m_VectorOfParameters : m_VectorOfParameters'[i] = m_VectorOfParameters[i]
          /\ m_VectorOfParameters'[Len(m_VectorOfParameters) + 1] = name
          /\ DOMAIN m_VectorOfParameters' = 1 .. Len(m_VectorOfParameters) + 1
      BY <1>3, <3>1 DEF ListTypes
    <3>3. \A i \in DOMAIN m_VectorOfParameters : m_VectorOfParameters[i] # name
      BY <1>2, <2>5
    <3>4. Len(m_VectorOfParameters) \in Nat /\ DOMAIN m_VectorOfParameters = 1 .. Len(m_VectorOfParameters)
      BY <1>3 DEF ListTypes
    <3>5. InsertsAlone'
      BY <1>5, <2>1, <2>5, ZenonT(60) DEF InsertsAlone, Inserting
    <3>6. NamesOnce'
      BY <2>2, <3>2, <3>3, <3>4 DEF NamesOnce
    <3>7. ValuesAtNames'
      <4>1. \A i \in DOMAIN m_VectorOfValuesForParameters' :
              /\ i \in DOMAIN m_VectorOfParameters /\ i \in DOMAIN m_VectorOfValuesForParameters
              /\ m_VectorOfValuesForParameters'[i] = m_VectorOfValuesForParameters[i]
        BY <1>3, <1>4, <2>4, <2>5, <3>4 DEF ListTypes
      <4>2. Len(m_VectorOfValuesForParameters') <= Len(m_VectorOfParameters')
        BY <1>4, <2>4, <3>2, <3>4
      <4> QED
        BY <1>6, <2>2, <3>2, <3>3, <4>1, <4>2 DEF ValuesAtNames
    <3>8. ListsPairUp'
      <4>1. \A d \in Setters : setter'[d].at = "insert value" => d = c
        BY <1>5, <2>3
      <4>2. setter'[c].at = "insert value" /\ setter'[c].name = name /\ setter'[c].value = value
        <5>1. call.name = name /\ call.value = value
          OBVIOUS
        <5> HIDE DEF call
        <5> QED
          BY <1>5, <3>1, <5>1
      <4> QED
        BY <1>4, <1>6, <2>4, <3>2, <4>1, <4>2 DEF ListsPairUp
    <3>9. NamesCounted'
      <4>1. setter'[c].at \in Inserting
        BY <1>5, <3>1 DEF Inserting
      <4>2. counted => Len(m_VectorOfParameters) <= m_ParametersSize
        BY <2>2, <2>3 DEF NamesCounted
      <4> QED
        <5>1. m_ParametersSize' = m_ParametersSize /\ m_ParametersSize \in Int /\ (counted' => counted)
          BY <1>1, <1>3 DEF ListTypes
        <5>2. counted' => Len(m_VectorOfParameters') <= m_ParametersSize' + 1
          BY <3>2, <3>4, <4>2, <5>1
        <5> QED
          BY <4>1, <5>2 DEF NamesCounted
    <3> QED
      BY <3>5, <3>6, <3>7, <3>8, <3>9
  <2>6. CASE found # {}
    <3>1. m_VectorOfParameters' = m_VectorOfParameters /\ call.at = "set"
      BY <1>1, <2>6
    <3>2. \A d \in Setters : setter'[d].at \notin Inserting /\ setter'[d].at # "insert value"
      BY <1>5, <2>3, <3>1 DEF Inserting
    <3>3. InsertsAlone' /\ NamesOnce' /\ NamesCounted'
      BY <1>1, <2>2, <2>3, <3>1, <3>2 DEF InsertsAlone, NamesOnce, NamesCounted
    <3>4. ListsPairUp'
      BY <1>4, <2>4, <3>1, <3>2 DEF ListsPairUp
    <3>5. ValuesAtNames'
      <4>1. \A i \in DOMAIN m_VectorOfValuesForParameters' :
              i \in DOMAIN m_VectorOfParameters /\ i \in DOMAIN m_VectorOfValuesForParameters
        BY <1>3, <1>4, <2>4 DEF ListTypes
      <4>2. Len(m_VectorOfValuesForParameters') <= Len(m_VectorOfParameters')
        BY <1>4, <2>2, <3>1 DEF ValuesAtNames
      <4> QED
        BY <1>2, <1>4, <1>6, <2>2, <3>1, <4>1, <4>2 DEF ValuesAtNames
    <3> QED
      BY <3>3, <3>4, <3>5
  <2> QED
    BY <2>5, <2>6
<1>10. EdgesOnTheirWay'
  <2>1. \A d \in Setters : setter[d].at \in {"apply", "postpone"} => setter'[d] = setter[d]
    BY <1>1, <1>5
  <2> QED
    BY <1>1, <2>1 DEF ParametersInv, EdgesOnTheirWay, edges
<1> QED
  BY <1>7, <1>8, <1>9, <1>10 DEF ParametersInv

(* The other steps of a call move it along and leave the names alone.      *)
LEMMA CallUnderWay ==
  ASSUME ListTypes, NEW c \in Setters, setter[c].at # "idle"
  PROVE  setter[c] \in [at : CallPlaces, name : EdgeSettings, value : Settings]
BY DEF ListTypes, NoCall

LEMMA SetterMoves ==
  ASSUME ListTypes, NEW c \in Setters, NEW to \in CallPlaces, setter[c].at # "idle",
         SetterGoes(c, to)
  PROVE  /\ setter' \in [Setters -> {NoCall} \union [at : CallPlaces, name : EdgeSettings, value : Settings]]
         /\ setter'[c].at = to /\ setter'[c].name = setter[c].name /\ setter'[c].value = setter[c].value
         /\ \A d \in Setters \ {c} : setter'[d] = setter[d]
<1>1. setter[c] \in [at : CallPlaces, name : EdgeSettings, value : Settings]
  BY CallUnderWay
<1>2. [setter[c] EXCEPT !.at = to] \in [at : CallPlaces, name : EdgeSettings, value : Settings]
  BY <1>1
<1>3. setter' = [setter EXCEPT ![c] = [setter[c] EXCEPT !.at = to]]
  BY DEF SetterGoes
<1> QED
  BY <1>1, <1>2, <1>3 DEF ListTypes

LEMMA InsertValueStep ==
  ASSUME ParametersInv, NEW c \in Setters, InsertValue(c)
  PROVE  ParametersInv'
<1>1. /\ setter[c].at = "insert value" /\ SetterGoes(c, "count")
      /\ m_VectorOfValuesForParameters' = Append(m_VectorOfValuesForParameters, setter[c].value)
      /\ UNCHANGED <<m_VectorOfParameters, m_ParametersSize, edges, trackerAt, setHistories>>
  BY DEF InsertValue, SetterAt
<1>2. ListTypes
  BY DEF ParametersInv
<1>3. /\ setter' \in [Setters -> {NoCall} \union [at : CallPlaces, name : EdgeSettings, value : Settings]]
      /\ setter'[c].at = "count"
      /\ \A d \in Setters \ {c} : setter'[d] = setter[d]
  BY <1>1, <1>2, SetterMoves DEF CallPlaces
<1>4. setter[c].name \in EdgeSettings /\ setter[c].value \in Settings
  BY <1>1, <1>2, CallUnderWay
<1>5. /\ m_VectorOfValuesForParameters' \in Seq(Given)
      /\ Len(m_VectorOfValuesForParameters') = Len(m_VectorOfValuesForParameters) + 1
      /\ DOMAIN m_VectorOfValuesForParameters' = 1 .. Len(m_VectorOfValuesForParameters) + 1
      /\ \A i \in DOMAIN m_VectorOfValuesForParameters :
           m_VectorOfValuesForParameters'[i] = m_VectorOfValuesForParameters[i]
      /\ m_VectorOfValuesForParameters'[Len(m_VectorOfValuesForParameters) + 1] = setter[c].value
  <2>1. setter[c].value \in Given /\ m_VectorOfValuesForParameters \in Seq(Given)
    BY <1>2, <1>4 DEF ListTypes, Given
  <2> QED
    <3>1. m_VectorOfValuesForParameters' = Append(m_VectorOfValuesForParameters, setter[c].value)
      BY <1>1
    <3>2. /\ Append(m_VectorOfValuesForParameters, setter[c].value) \in Seq(Given)
          /\ Len(Append(m_VectorOfValuesForParameters, setter[c].value)) = Len(m_VectorOfValuesForParameters) + 1
          /\ \A i \in 1 .. Len(m_VectorOfValuesForParameters) :
               Append(m_VectorOfValuesForParameters, setter[c].value)[i] = m_VectorOfValuesForParameters[i]
          /\ Append(m_VectorOfValuesForParameters, setter[c].value)[Len(m_VectorOfValuesForParameters) + 1] = setter[c].value
      BY <2>1, AppendProperties
    <3> QED
      BY <2>1, <3>1, <3>2
<1>6. ListTypes'
  BY <1>1, <1>2, <1>3, <1>5 DEF ListTypes, setHistories
<1>7. NamesInList'
  BY <1>1 DEF ParametersInv, NamesInList, setHistories
<1>8. ListInOrder'
  <2> SUFFICES ASSUME ~insertRaced
               PROVE  (InsertsAlone /\ NamesOnce /\ ValuesAtNames /\ ListsPairUp /\ NamesCounted)'
    BY <1>1 DEF ListInOrder, setHistories
  <2>1. InsertsAlone /\ NamesOnce /\ ValuesAtNames /\ ListsPairUp /\ NamesCounted
    BY DEF ParametersInv, ListInOrder
  <2>2. \A d \in Setters \ {c} : setter[d].at = "idle" /\ setter'[d].at = "idle"
    BY <1>1, <1>3, <2>1 DEF InsertsAlone, Inserting
  <2>3. InsertsAlone' /\ NamesOnce'
    <3>1. InsertsAlone'
      <4>1. \A d \in Setters : setter'[d].at # "idle" => d = c
        BY <2>2
      <4>2. "idle" \notin Inserting
        BY DEF Inserting
      <4> QED
        BY <4>1, <4>2 DEF InsertsAlone
    <3>2. NamesOnce'
      BY <1>1, <2>1 DEF NamesOnce
    <3> QED
      BY <3>1, <3>2
  <2>4. /\ Len(m_VectorOfParameters) = Len(m_VectorOfValuesForParameters) + 1
        /\ m_VectorOfParameters[Len(m_VectorOfParameters)] = setter[c].name
        /\ lastValue[setter[c].name] = setter[c].value
    BY <1>1, <2>1 DEF ListsPairUp
  <2>5. ValuesAtNames'
    <3>1. Len(m_VectorOfValuesForParameters) \in Nat
          /\ DOMAIN m_VectorOfValuesForParameters = 1 .. Len(m_VectorOfValuesForParameters)
          /\ Len(m_VectorOfParameters) \in Nat
      BY <1>2 DEF ListTypes
    <3>2. UNCHANGED <<m_VectorOfParameters, lastValue>>
      BY <1>1 DEF setHistories
    <3> QED
      BY <1>5, <2>1, <2>4, <3>1, <3>2 DEF ValuesAtNames
  <2>6. ListsPairUp'
    <3>1. \A d \in Setters : setter'[d].at # "insert value"
      BY <1>3, <2>2
    <3> QED
      BY <1>1, <1>5, <2>4, <3>1 DEF ListsPairUp
  <2>7. NamesCounted'
    BY <1>1, <1>3, <2>1 DEF NamesCounted, Inserting, setHistories
  <2> QED
    BY <2>3, <2>5, <2>6, <2>7
<1>9. EdgesOnTheirWay'
  BY <1>1, <1>3 DEF ParametersInv, EdgesOnTheirWay, edges, setHistories
<1> QED
  BY <1>6, <1>7, <1>8, <1>9 DEF ParametersInv

LEMMA CountParameterStep ==
  ASSUME ParametersInv, NEW c \in Setters, CountParameter(c)
  PROVE  ParametersInv'
<1>1. /\ setter[c].at = "count" /\ SetterGoes(c, "set") /\ m_ParametersSize' = m_ParametersSize + 1
      /\ UNCHANGED <<m_VectorOfParameters, m_VectorOfValuesForParameters, edges, trackerAt, setHistories>>
  BY DEF CountParameter, SetterAt
<1>2. ListTypes
  BY DEF ParametersInv
<1>3. /\ setter' \in [Setters -> {NoCall} \union [at : CallPlaces, name : EdgeSettings, value : Settings]]
      /\ setter'[c].at = "set"
      /\ \A d \in Setters \ {c} : setter'[d] = setter[d]
  BY <1>1, <1>2, SetterMoves DEF CallPlaces
<1>4. ListTypes'
  BY <1>1, <1>2, <1>3 DEF ListTypes, setHistories
<1>5. NamesInList'
  BY <1>1 DEF ParametersInv, NamesInList, setHistories
<1>6. ListInOrder'
  <2> SUFFICES ASSUME ~insertRaced
               PROVE  (InsertsAlone /\ NamesOnce /\ ValuesAtNames /\ ListsPairUp /\ NamesCounted)'
    BY <1>1 DEF ListInOrder, setHistories
  <2>1. InsertsAlone /\ NamesOnce /\ ValuesAtNames /\ ListsPairUp /\ NamesCounted
    BY DEF ParametersInv, ListInOrder
  <2>2. \A d \in Setters \ {c} : setter[d].at = "idle" /\ setter'[d].at = "idle"
    BY <1>1, <1>3, <2>1 DEF InsertsAlone, Inserting
  <2>3. \A d \in Setters : setter[d].at # "insert value" /\ setter'[d].at # "insert value"
    BY <1>1, <1>3, <2>2
  <2>4. InsertsAlone' /\ NamesOnce' /\ ValuesAtNames' /\ ListsPairUp'
    <3>1. InsertsAlone' /\ NamesOnce'
      BY <1>1, <1>3, <2>1, <2>2 DEF InsertsAlone, NamesOnce, Inserting
    <3>2. ValuesAtNames' /\ ListsPairUp'
      BY <1>1, <2>1, <2>3 DEF ValuesAtNames, ListsPairUp, setHistories
    <3> QED
      BY <3>1, <3>2
  <2>5. NamesCounted'
    <3>1. counted' => counted
      BY <1>1 DEF setHistories
    <3>2. Len(m_VectorOfParameters) \in Nat
      BY <1>2 DEF ListTypes
    <3>3. counted => Len(m_VectorOfParameters) <= m_ParametersSize + 1
      BY <2>1 DEF NamesCounted
    <3>4. m_ParametersSize \in Int
      BY <1>2 DEF ListTypes
    <3> QED
      BY <1>1, <3>1, <3>2, <3>3, <3>4 DEF NamesCounted
  <2> QED
    BY <2>4, <2>5
<1>7. EdgesOnTheirWay'
  BY <1>1, <1>3 DEF ParametersInv, EdgesOnTheirWay, edges, setHistories
<1> QED
  BY <1>4, <1>5, <1>6, <1>7 DEF ParametersInv

(* A step that neither inserts nor overwrites keeps the list in order.     *)
LEMMA ListStays ==
  ASSUME ParametersInv, UNCHANGED list, UNCHANGED <<counted, lastValue, insertRaced>>,
         setter' \in [Setters -> {NoCall} \union [at : CallPlaces, name : EdgeSettings, value : Settings]],
         \A d \in Setters : \/ setter'[d] = setter[d]
                            \/ /\ setter'[d].at \notin Inserting
                               /\ setter[d].at \notin Inserting \union {"idle"}
  PROVE  ListTypes' /\ NamesInList' /\ ListInOrder'
<1> USE DEF list
<1>1. ListTypes'
  BY DEF ParametersInv, ListTypes
<1>2. NamesInList'
  BY DEF ParametersInv, NamesInList
<1>3. ASSUME ~insertRaced
      PROVE  (InsertsAlone /\ NamesOnce /\ ValuesAtNames /\ ListsPairUp /\ NamesCounted)'
  <2>1. InsertsAlone /\ NamesOnce /\ ValuesAtNames /\ ListsPairUp /\ NamesCounted
    BY <1>3 DEF ParametersInv, ListInOrder
  <2>2. NamesOnce' /\ ValuesAtNames'
    BY <2>1 DEF NamesOnce, ValuesAtNames
  <2>3. \A d \in Setters : /\ setter'[d].at \in Inserting <=> setter[d].at \in Inserting
                           /\ setter'[d].at \in Inserting => setter'[d] = setter[d]
                           /\ setter'[d].at # "idle" => setter[d].at # "idle"
    OBVIOUS
  <2>4. InsertsAlone'
    BY <2>1, <2>3 DEF InsertsAlone
  <2>5. \A d \in Setters : /\ setter'[d].at = "insert value" <=> setter[d].at = "insert value"
                           /\ setter'[d].at = "insert value" => setter'[d] = setter[d]
    BY <2>3 DEF Inserting
  <2>6. ListsPairUp'
    BY <2>1, <2>5 DEF ListsPairUp
  <2>7. NamesCounted'
    BY <2>1, <2>3 DEF NamesCounted
  <2> QED
    BY <2>2, <2>4, <2>6, <2>7
<1> QED
  BY <1>1, <1>2, <1>3 DEF ListInOrder

LEMMA ApplyStep ==
  ASSUME ParametersInv, NEW c \in Setters, SetEdge(c) \/ ApplyNow(c) \/ Postpone(c)
  PROVE  ParametersInv'
<1>1. ListTypes
  BY DEF ParametersInv
<1>2. /\ UNCHANGED list /\ UNCHANGED <<counted, lastValue, insertRaced>>
      /\ setter[c].at \in {"set", "apply", "postpone"}
  BY DEF SetEdge, ApplyNow, Postpone, SetterAt, setHistories
<1>3. CASE SetEdge(c)
  <2>1. PICK to \in {"apply", "postpone"} : SetterGoes(c, to)
    BY <1>3 DEF SetEdge
  <2>2. /\ setter' \in [Setters -> {NoCall} \union [at : CallPlaces, name : EdgeSettings, value : Settings]]
        /\ setter'[c].at \in {"apply", "postpone"}
        /\ \A d \in Setters \ {c} : setter'[d] = setter[d]
    BY <1>1, <1>2, <2>1, SetterMoves DEF CallPlaces
  <2>3. ListTypes' /\ NamesInList' /\ ListInOrder'
    BY <1>2, <2>2, ListStays DEF Inserting
  <2>4. EdgesOnTheirWay'
    <3>1. ~applyRaced' => ~applyRaced /\ trackerAt # "applied"
      BY <1>3 DEF SetEdge
    <3>2. trackerAt' = trackerAt
      BY <1>3 DEF SetEdge
    <3> QED
      BY <2>2, <3>1, <3>2 DEF EdgesOnTheirWay
  <2> QED
    BY <2>3, <2>4 DEF ParametersInv
<1>4. CASE ApplyNow(c) \/ Postpone(c)
  <2>1. setter' = [setter EXCEPT ![c] = NoCall]
    BY <1>4 DEF ApplyNow, Postpone
  <2>2. /\ setter' \in [Setters -> {NoCall} \union [at : CallPlaces, name : EdgeSettings, value : Settings]]
        /\ setter'[c].at \notin Inserting
        /\ \A d \in Setters \ {c} : setter'[d] = setter[d]
    BY <1>1, <2>1 DEF ListTypes, NoCall, Inserting
  <2>3. ListTypes' /\ NamesInList' /\ ListInOrder'
    BY <1>2, <2>2, ListStays DEF Inserting
  <2>4. EdgesOnTheirWay'
    <3>1. CASE ApplyNow(c)
      BY <3>1 DEF ApplyNow, EdgesOnTheirWay
    <3>2. CASE Postpone(c)
      <4>1. ~applyRaced' => ~applyRaced /\ trackerAt # "applied"
        BY <3>2 DEF Postpone
      <4>2. trackerAt' = trackerAt /\ m_me_modified'
        BY <3>2 DEF Postpone
      <4> QED
        BY <4>1, <4>2 DEF EdgesOnTheirWay
    <3> QED
      BY <1>4, <3>1, <3>2
  <2> QED
    BY <2>3, <2>4 DEF ParametersInv
<1> QED
  BY <1>3, <1>4

LEMMA ParametersInvStep == ParametersInv /\ [ParametersNext]_parameterVars => ParametersInv'
<1> SUFFICES ASSUME ParametersInv, [ParametersNext]_parameterVars
             PROVE  ParametersInv'
  OBVIOUS
<1>1. ASSUME UNCHANGED <<list, setter, setHistories>>
      PROVE  ListTypes' /\ NamesInList' /\ ListInOrder'
  BY <1>1, ListStays DEF ParametersInv, ListTypes, setHistories
<1>2. CASE TrackFrame
  BY <1>1, <1>2 DEF TrackFrame, ParametersInv, EdgesOnTheirWay, edges, setHistories
<1>3. CASE ApplyEdges
  <2>1. EdgesOnTheirWay'
    BY <1>3 DEF ApplyEdges, ParametersInv, EdgesOnTheirWay, setHistories
  <2> QED
    BY <1>1, <1>3, <2>1 DEF ApplyEdges, ParametersInv
<1>4. CASE ClearModified
  <2>1. EdgesOnTheirWay'
    BY <1>4 DEF ClearModified, ParametersInv, EdgesOnTheirWay, setHistories
  <2> QED
    BY <1>1, <1>4, <2>1 DEF ClearModified, ParametersInv
<1>5. CASE StartOrStopTracker
  BY <1>1, <1>5 DEF StartOrStopTracker, ParametersInv, EdgesOnTheirWay, edges, setHistories
<1>6. CASE UNCHANGED parameterVars
  BY <1>1, <1>6 DEF parameterVars, ParametersInv, EdgesOnTheirWay, edges, setHistories
<1> QED
  BY <1>2, <1>3, <1>4, <1>5, <1>6, SetParameterStep, InsertValueStep, CountParameterStep, ApplyStep
     DEF ParametersNext

(* What any number of threads set of any settings of a process is found in *)
(* its list with the value it was given last, and the tracker gets it,     *)
(* unless the calls raced in the ways the property names.                  *)
LEMMA ParametersRight == ParametersSpec => []SettingsKept
<1>1. ASSUME ParametersInv
      PROVE  ParametersFound
  <2> SUFFICES ASSUME NoCalls, ~insertRaced, NEW name \in EdgeSettings, lastValue[name] # "default"
               PROVE  /\ <<name, lastValue[name]>> \in ToSet(GetProcessParameters)
                      /\ counted => GetValueOfParameter(name) = lastValue[name]
    BY DEF ParametersFound
  <2>1. \A c \in Setters : setter[c].at = "idle"
    BY DEF NoCalls, NoCall
  <2>2. /\ Len(m_VectorOfValuesForParameters) = Len(m_VectorOfParameters)
        /\ NamesOnce /\ ValuesAtNames
    BY <1>1, <2>1 DEF ParametersInv, ListInOrder, ListsPairUp
  <2>3. PICK i \in DOMAIN m_VectorOfParameters : m_VectorOfParameters[i] = name
    BY <1>1 DEF ParametersInv, NamesInList
  <2>4. /\ DOMAIN m_VectorOfParameters = 1 .. Len(m_VectorOfParameters)
        /\ DOMAIN m_VectorOfValuesForParameters = 1 .. Len(m_VectorOfValuesForParameters)
        /\ Len(m_VectorOfParameters) \in Nat
    BY <1>1 DEF ParametersInv, ListTypes
  <2>5. i \in DOMAIN m_VectorOfValuesForParameters /\ m_VectorOfValuesForParameters[i] = lastValue[name]
    BY <2>2, <2>3, <2>4 DEF ValuesAtNames
  <2>6. <<name, lastValue[name]>> \in ToSet(GetProcessParameters)
    <3>1. DOMAIN GetProcessParameters = DOMAIN m_VectorOfParameters
      BY DEF GetProcessParameters
    <3>2. GetProcessParameters[i] = <<name, lastValue[name]>>
      BY <2>3, <2>5 DEF GetProcessParameters
    <3> QED
      BY <2>3, <3>1, <3>2 DEF ToSet
  <2>7. ASSUME counted
        PROVE  GetValueOfParameter(name) = lastValue[name]
    <3>1. Len(m_VectorOfParameters) <= m_ParametersSize /\ m_ParametersSize \in Int
      BY <1>1, <2>1, <2>7 DEF ParametersInv, ListTypes, ListInOrder, NamesCounted, Inserting
    <3>2. {k \in Positions(name) : k <= m_ParametersSize} = {i}
      BY <2>2, <2>3, <2>4, <3>1 DEF Positions, NamesOnce
    <3>3. (CHOOSE k \in {i} : \A l \in {i} : k <= l) = i
      <4>1. \E k \in {i} : \A l \in {i} : k <= l
        BY <2>3, <2>4
      <4> QED
        BY <4>1
    <3> QED
      BY <2>5, <3>2, <3>3 DEF GetValueOfParameter
  <2> QED
    BY <2>6, <2>7
<1>2. ASSUME ParametersInv
      PROVE  SettingsReachTracker
  <2> SUFFICES ASSUME NoCalls, trackerAt # "applied", ~applyRaced
               PROVE  edgesInUse = m_me \/ m_me_modified
    BY DEF SettingsReachTracker
  <2>1. \A c \in Setters : setter[c].at = "idle"
    BY DEF NoCalls, NoCall
  <2> QED
    BY <1>2, <2>1 DEF ParametersInv, EdgesOnTheirWay
<1> QED
  BY <1>1, <1>2, ParametersInvInit, ParametersInvStep, PTL DEF ParametersSpec, SettingsKept

(* What clients set of a process is found again and takes effect, for any  *)
(* threads, settings, cameras, calibrations and points.                    *)
THEOREM SettingsRight == ParametersSpec /\ CalibrationSpec => []SettingsTakeEffect
<1>1. SettingsKept /\ CalibrationOfTheSettings /\ PoseOfOneCalibration => SettingsTakeEffect
  BY DEF SettingsTakeEffect
<1> QED
  BY <1>1, ParametersRight, CalibrationRight, PTL

=============================================================================
