---------------------------- MODULE PointTracker ----------------------------
(***************************************************************************)
(* The point tracker, HRP2PointTrackingProcess, its process of the         *)
(* circular buffer (CircularPointTrackerData), and the calls of its        *)
(* servant.  A client gives the points of a target (Init) while the loop   *)
(* may be tracking the points of the target before; no lock protects the   *)
(* lists they share.                                                       *)
(*                                                                         *)
(* A target is its number, its points all move at once, and the lists are  *)
(* kept as the target and the frame their points are of.                   *)
(***************************************************************************)
EXTENDS Naturals

CONSTANTS
  PointCounts,   \* the numbers of points a target may have
  MaxTargets,    \* bound: the targets given
  MaxTracked     \* bound: the frames tracked

ASSUME PointAssumption ==
  PointCounts \subseteq Nat \ {0} /\ MaxTargets \in Nat /\ MaxTracked \in Nat

Identity == [target |-> 0, points |-> 0, frame |-> 0]

VARIABLES
  m_NbPoint,
  m_PointList,      \* the target whose world points it holds, and how many
  m_vpIPList,       \* the target and frame of the image points, and how many
  m_InitDone,
  m_trackerTrackSuccess,
  m_outputcMo,      \* the pose: of which target, points and frame
  datum,            \* m_Datum, the pose and points that SaveData publishes
  published,        \* the last datum that was saved
  pointpc,          \* where the loop is
  init,             \* the servant's Init under way
  frame, targets,   \* how many of each there were
  overlapped        \* history: an Init overlapped this frame of the loop

trackerPoints == <<m_NbPoint, m_PointList, m_vpIPList, m_InitDone>>
results == <<m_trackerTrackSuccess, m_outputcMo>>
buffer == <<datum, published>>
pointVars == <<trackerPoints, results, buffer, pointpc, init, frame, targets, overlapped>>

Goto(from, to) == pointpc = from /\ pointpc' = to
InitAt(from) == init.pc = from
InitGoes(to) == init' = [init EXCEPT !.pc = to]

-----------------------------------------------------------------------------
(* The servant's Init, and HRP2PointTrackingProcess::Init behind it.       *)

NewTarget ==
  /\ InitAt("idle") /\ targets < MaxTargets
  /\ \E n \in PointCounts : /\ init' = [pc |-> "lists", target |-> targets + 1, count |-> n]
                            /\ m_NbPoint' = n
  /\ targets' = targets + 1
  /\ overlapped' = TRUE
  /\ UNCHANGED <<m_PointList, m_vpIPList, m_InitDone, results, buffer, pointpc, frame>>

(* The lists are resized and their points replaced.                        *)
NewPoints ==
  /\ InitAt("lists") /\ InitGoes("dots")
  /\ m_PointList' = [target |-> init.target, count |-> init.count]
  /\ m_vpIPList' = [target |-> init.target, frame |-> 0, count |-> init.count]
  /\ UNCHANGED <<m_NbPoint, m_InitDone, results, buffer, pointpc, frame, targets, overlapped>>

(* pInitializeTheProcess finds the dots in the present image.              *)
InitTracking ==
  /\ InitAt("dots") /\ InitGoes("done")
  /\ m_outputcMo' = Identity /\ m_trackerTrackSuccess' = FALSE
  /\ UNCHANGED <<trackerPoints, buffer, pointpc, frame, targets, overlapped>>

InitDone ==
  /\ InitAt("done") /\ InitGoes("idle")
  /\ m_InitDone' = TRUE
  /\ UNCHANGED <<m_NbPoint, m_PointList, m_vpIPList, results, buffer, pointpc, frame,
                 targets, overlapped>>

-----------------------------------------------------------------------------
(* The loop: a frame of the tracker, and one of the buffer's process.      *)

FrameBegins ==
  /\ frame < MaxTracked
  /\ m_trackerTrackSuccess' = FALSE
  /\ overlapped' = (init.pc # "idle")
  /\ frame' = frame + 1
  /\ IF m_InitDone THEN Goto("idle", "track") ELSE Goto("idle", "copy pose")
  /\ UNCHANGED <<trackerPoints, m_outputcMo, buffer, init, targets>>

(* Every dot was found in the new image.                                   *)
Tracked ==
  /\ Goto("track", "pose")
  /\ m_vpIPList' = [m_vpIPList EXCEPT !.frame = frame]
  /\ m_trackerTrackSuccess' = TRUE
  /\ UNCHANGED <<m_NbPoint, m_PointList, m_InitDone, m_outputcMo, buffer, init, frame,
                 targets, overlapped>>

LostKeepsPose ==
  /\ Goto("track", "copy pose")
  /\ m_trackerTrackSuccess' = FALSE
  /\ m_vpIPList' \in {m_vpIPList, [m_vpIPList EXCEPT !.frame = frame]}
  /\ UNCHANGED <<m_NbPoint, m_PointList, m_InitDone, m_outputcMo, buffer, init, frame,
                 targets, overlapped>>

(* A dot is lost: those before it have moved to the new image, and stay.   *)
Lost ==
  /\ Goto("track", "copy pose")
  /\ m_trackerTrackSuccess' = FALSE /\ m_outputcMo' = Identity
  /\ m_vpIPList' \in {m_vpIPList, [m_vpIPList EXCEPT !.frame = frame]}
  /\ UNCHANGED <<m_NbPoint, m_PointList, m_InitDone, buffer, init, frame, targets, overlapped>>

(* The pose from the world points and the image points.                    *)
computePose ==
  /\ Goto("pose", "copy pose")
  /\ m_outputcMo' = [target |-> m_PointList.target, points |-> m_vpIPList.target,
                     frame |-> m_vpIPList.frame]
  /\ UNCHANGED <<trackerPoints, m_trackerTrackSuccess, buffer, init, frame, targets, overlapped>>

CopyPose ==
  /\ Goto("copy pose", "copy points")
  /\ datum' = [datum EXCEPT !.pose = m_outputcMo]
  /\ UNCHANGED <<trackerPoints, results, published, init, frame, targets, overlapped>>

(* GetvpImagePoint makes m_NbPoint points of its own when the list's size  *)
(* has changed, and copies m_NbPoint of the tracker's.                     *)
CopyPoints ==
  /\ Goto("copy points", "save")
  /\ datum' = [datum EXCEPT !.points = [target |-> m_vpIPList.target, frame |-> m_vpIPList.frame,
                                        count |-> IF datum.points.count = m_vpIPList.count
                                                  THEN datum.points.count ELSE m_NbPoint]]
  /\ UNCHANGED <<trackerPoints, results, published, init, frame, targets, overlapped>>

SaveDatum ==
  /\ Goto("save", "idle")
  /\ published' = [datum EXCEPT !.raced = overlapped]
  /\ UNCHANGED <<trackerPoints, results, datum, init, frame, targets, overlapped>>

-----------------------------------------------------------------------------
NoPoints == [target |-> 0, frame |-> 0, count |-> 0]

PointInit ==
  /\ m_NbPoint \in {0} \union PointCounts       \* not initialised by the code
  /\ m_PointList = [target |-> 0, count |-> 0] /\ m_vpIPList = NoPoints
  /\ m_InitDone = FALSE
  /\ m_trackerTrackSuccess = FALSE /\ m_outputcMo = Identity
  /\ datum = [pose |-> Identity, points |-> NoPoints, raced |-> FALSE] /\ published = datum
  /\ pointpc = "idle" /\ init = [pc |-> "idle", target |-> 0, count |-> 0]
  /\ frame = 0 /\ targets = 0 /\ overlapped = FALSE

InitServant == NewTarget \/ NewPoints \/ InitTracking \/ InitDone
LoopFrame == \/ FrameBegins \/ Tracked \/ Lost \/ computePose
             \/ CopyPose \/ CopyPoints \/ SaveDatum
PointNext == InitServant \/ LoopFrame
PointSpec == PointInit /\ [][PointNext]_pointVars

-----------------------------------------------------------------------------
(* Properties.                                                             *)

PointTypeOK ==
  /\ m_NbPoint \in {0} \union PointCounts
  /\ m_PointList \in [target : 0 .. targets, count : {0} \union PointCounts]
  /\ m_vpIPList \in [target : 0 .. targets, frame : 0 .. frame, count : {0} \union PointCounts]
  /\ m_InitDone \in BOOLEAN /\ m_trackerTrackSuccess \in BOOLEAN
  /\ m_outputcMo \in [target : 0 .. targets, points : 0 .. targets, frame : 0 .. frame]
  /\ pointpc \in {"idle", "track", "pose", "copy pose", "copy points", "save"}
  /\ init.pc \in {"idle", "lists", "dots", "done"}

(* A client is never given the pose of one target, or of one image, with   *)
(* the points of another, nor a pose from the world points of one target   *)
(* and the image points of the next, nor with too few points, unless an    *)
(* Init overlapped the frame: the pose is reset when a dot is lost, while  *)
(* the points stay.                                                        *)
PoseOfItsPoints ==
  published.pose # Identity /\ ~published.raced =>
    /\ published.pose.target = published.points.target
    /\ published.pose.points = published.points.target
    /\ published.pose.frame = published.points.frame
    /\ published.points.target = m_vpIPList.target => published.points.count = m_vpIPList.count
=============================================================================
