----------------------------- MODULE ControlLaw -----------------------------
(***************************************************************************)
(* The visual servoing of the robot: the model tracker                     *)
(* (HRP2nmbtTrackingProcess) finds the pose of the object in the image,    *)
(* the control law (HRP2ComputeControlLawProcess) computes from it a       *)
(* velocity towards the target cdMo and writes it to the stack of tasks    *)
(* (SoT), if the server connected to it when it was built.  Both are       *)
(* processes of the loop, in this order, and the list of processes holds   *)
(* the law twice.  A thread of the ORB starts, stops and cleans up the two *)
(* processes and sets the target.                                          *)
(*                                                                         *)
(* The life cycle of a process is that of VisionProcess, its transitions   *)
(* without the states in between.  Poses and velocities are kept as what   *)
(* they come from.                                                         *)
(***************************************************************************)
EXTENDS Naturals

Poses == {"identity", "tracked"}

(* "servo" is computed from a tracked pose, "blind" from the identity that *)
(* stands for no pose.                                                     *)
Velocities == {"zero", "servo", "blind"}

VARIABLES
  trackerState, trackerComputing,   \* m_State and m_Computing of the tracker
  trackSuccess,                     \* m_trackerTrackSuccess of the tracker
  trackerPose,                      \* m_outputcMo of the tracker
  lawState, lawComputing,           \* m_State and m_Computing of the law
  m_RealiseControlLaw,
  sot,                              \* how far the connection to the SoT came
  looppc,                           \* where the loop is in the two processes
  turn,                             \* which of the two entries of the law
  r, velref,                        \* locals of the law's pRealizeTheProcess
  orbpc,                            \* where the ORB's thread is
  sotVelocity,                      \* the velocity the robot moves with
  failed,                           \* history: the law gave the target up
  stoppedMidFrame,                  \* history: the tracker stopped in its frame
  unheard,                          \* history: the SoT was down at a clean-up
  outrun                            \* history: a frame was past its decision then

trackerVars == <<trackerState, trackerComputing, trackSuccess, trackerPose>>
lawVars == <<lawState, lawComputing, m_RealiseControlLaw, sot>>
frameVars == <<turn, r, velref>>
histories == <<failed, stoppedMidFrame, unheard, outrun>>
controlVars == <<trackerVars, lawVars, frameVars, looppc, orbpc, sotVelocity, histories>>

(* m_CTS is not 0.  Only the last of these has the robot follow VelRef.    *)
SotConnections == {"none", "unplugged", "plugged"}
m_CTS == sot # "none"

Realizable(state, computing) == computing = 1 /\ state \in {"STARTED", "EXECUTED"}

LoopGoto(from, to) == looppc = from /\ looppc' = to
OrbGoto(from, to) == orbpc = from /\ orbpc' = to

-----------------------------------------------------------------------------
(* The server's constructor connects to the SoT.                           *)

(* A name that is not found leaves the server without the SoT; an object   *)
(* of another type ends the program.                                       *)
SetCorbaReference ==
  /\ \/ LoopGoto("start", "init") /\ sot' = "unplugged" /\ UNCHANGED orbpc
     \/ LoopGoto("start", "idle") /\ OrbGoto("start", "idle") /\ UNCHANGED sot
     \/ LoopGoto("start", "exited") /\ UNCHANGED <<sot, orbpc>>
  /\ UNCHANGED <<trackerVars, lawState, lawComputing, m_RealiseControlLaw, frameVars,
                 sotVelocity, histories>>

(* Init looks the SoT up again, creates the signals, and plugs them by     *)
(* commands, in this order.  A signal that is not created ends the         *)
(* program; if it fails elsewhere m_CTS is kept all the same.              *)
InitConnection ==
  /\ \/ /\ LoopGoto("init", "idle") /\ OrbGoto("start", "idle")
        /\ sot' \in {"unplugged", "plugged"}
     \/ LoopGoto("init", "exited") /\ UNCHANGED <<sot, orbpc>>
  /\ UNCHANGED <<trackerVars, lawState, lawComputing, m_RealiseControlLaw, frameVars,
                 sotVelocity, histories>>

-----------------------------------------------------------------------------
(* The tracker's frame.                                                    *)

TrackerBegins ==
  /\ LoopGoto("idle", "tracking")
  /\ Realizable(trackerState, trackerComputing)
  /\ trackerState' = "EXECUTING"
  /\ trackSuccess' = FALSE
  /\ UNCHANGED <<trackerComputing, trackerPose, lawVars, frameVars, orbpc,
                 sotVelocity, histories>>

TrackerSkipped ==
  /\ LoopGoto("idle", "law")
  /\ ~Realizable(trackerState, trackerComputing)
  /\ UNCHANGED <<trackerVars, lawVars, frameVars, orbpc, sotVelocity,
                 histories>>

(* The tracker finds the object, or has lost it and throws.                *)
TrackerEnds ==
  /\ LoopGoto("tracking", "law")
  /\ \E found \in BOOLEAN :
       /\ trackSuccess' = found
       /\ trackerPose' = IF found THEN "tracked" ELSE "identity"
  /\ trackerState' = "EXECUTED"
  /\ UNCHANGED <<trackerComputing, lawVars, frameVars, orbpc, sotVelocity,
                 histories>>

-----------------------------------------------------------------------------
(* The law's frame, pRealizeTheProcess.                                    *)

LawSkipped ==
  /\ LoopGoto("law", "idle")
  /\ ~Realizable(lawState, lawComputing)
  /\ turn' = 1
  /\ UNCHANGED <<trackerVars, lawVars, r, velref, orbpc, sotVelocity,
                 histories>>

LawBegins ==
  /\ Realizable(lawState, lawComputing)
  /\ lawState' = "EXECUTING"
  /\ velref' = "zero"
  /\ IF trackSuccess
     THEN LoopGoto("law", "pose") /\ r' = "ok"
     ELSE LoopGoto("law", "decide") /\ r' = "tracking failed"
  /\ UNCHANGED <<trackerVars, lawComputing, m_RealiseControlLaw,
                 sot, turn, orbpc, sotVelocity, histories>>

(* The pose is read and the velocity computed, with the head's and waist's *)
(* positions; a failed read leaves its array as it is and is not noticed,  *)
(* so that the velocity has still the pose's origin.  TestObjectMotion     *)
(* is one of FREE, which accepts all motions, HEIGHT_LIMITED, ON_GROUND,   *)
(* and PLAN_MOTION, which it does not know and always refuses.             *)
LawComputes ==
  /\ LoopGoto("pose", "decide")
  /\ \E finished \in BOOLEAN, still \in BOOLEAN :
       /\ r' = IF finished THEN "finished"
               ELSE IF ~m_CTS THEN "no SoT"
               ELSE IF ~still THEN "object moved"
               ELSE "ok"
       /\ velref' = IF ~m_CTS \/ ~still THEN "zero"
                    ELSE IF trackerPose = "tracked" THEN "servo" ELSE "blind"
  /\ UNCHANGED <<trackerVars, lawVars, turn, orbpc, sotVelocity, histories>>

LatchForgotten ==
  /\ LoopGoto("decide", "write")
  /\ failed' = (failed \/ r # "ok")
  /\ UNCHANGED <<trackerVars, lawVars, frameVars, orbpc, sotVelocity, stoppedMidFrame, unheard,
                 outrun>>

(* stop: once a frame fails, the velocity is zero until the next SetcdMo.  *)
LawDecides ==
  /\ LoopGoto("decide", "write")
  /\ IF r # "ok" \/ ~m_RealiseControlLaw
     THEN velref' = "zero" /\ m_RealiseControlLaw' = FALSE
     ELSE UNCHANGED <<velref, m_RealiseControlLaw>>
  /\ failed' = (failed \/ r # "ok")
  /\ UNCHANGED <<trackerVars, lawState, lawComputing, sot, turn,
                 r, orbpc, sotVelocity, stoppedMidFrame, unheard, outrun>>

(* WriteVelocityReference: an exception of the ORB is swallowed.           *)
LawWrites(heard) ==
  /\ LoopGoto("write", "written")
  /\ sotVelocity' = IF sot = "plugged" /\ heard THEN velref ELSE sotVelocity
  /\ velref' = "zero" /\ r' = "ok"
  /\ UNCHANGED <<trackerVars, lawVars, turn, orbpc, histories>>

TurnForever == turn + 1

(* The law is in the list twice.                                           *)
NextTurn == IF turn = 1 THEN 2 ELSE 1

(* RealizeTheProcess ends; the law's second entry in the list follows.     *)
LawEnds ==
  /\ IF turn = 1 THEN LoopGoto("written", "law") ELSE LoopGoto("written", "idle")
  /\ turn' = NextTurn
  /\ lawState' = "EXECUTED"
  /\ UNCHANGED <<trackerVars, lawComputing, m_RealiseControlLaw,
                 sot, r, velref, orbpc, sotVelocity, histories>>

ControlLoop ==
  \/ TrackerBegins \/ TrackerSkipped \/ TrackerEnds
  \/ LawSkipped \/ LawBegins \/ LawComputes \/ LawDecides \/ LawEnds
  \/ \E heard \in BOOLEAN : LawWrites(heard)

-----------------------------------------------------------------------------
(* The tracker's calls.                                                    *)

(* pInitializeTheProcess writes the pose before the flag, and again if the *)
(* first image is lost.  StartProcess from LIMBO initialises first.        *)
InitializeTracker(then) ==
  /\ \/ trackerState \in {"LIMBO", "CLEANED"} /\ then = "init"
     \/ trackerState = "LIMBO" /\ then = "init and start"
  /\ OrbGoto("idle", then)
  /\ trackerState' = "INITIALIZING"
  /\ trackerPose' = "identity"
  /\ UNCHANGED <<trackerComputing, trackSuccess, lawVars, frameVars,
                 looppc, sotVelocity, histories>>

TrackerInitialized ==
  /\ \/ OrbGoto("init", "idle")
        /\ trackerState' = "INITIALIZED" /\ UNCHANGED trackerComputing
     \/ OrbGoto("init and start", "idle")
        /\ trackerState' = "STARTED" /\ trackerComputing' = 1
  /\ trackSuccess' = FALSE
  /\ UNCHANGED <<trackerPose, lawVars, frameVars, looppc, sotVelocity,
                 histories>>

StartTracker ==
  /\ OrbGoto("idle", "idle")
  /\ trackerState \in {"INITIALIZED", "STOPPED"}
  /\ trackerState' = "STARTED" /\ trackerComputing' = 1
  /\ UNCHANGED <<trackSuccess, trackerPose, lawVars, frameVars,
                 looppc, sotVelocity, histories>>

StopTracker ==
  /\ OrbGoto("idle", "stop")
  /\ trackerState \in {"INITIALIZED", "STARTED", "EXECUTING", "EXECUTED"}
  /\ trackerState' = "STOPPING" /\ trackerComputing' = 0
  /\ UNCHANGED <<trackSuccess, trackerPose, lawVars, frameVars,
                 looppc, sotVelocity, histories>>

StopKeepsSuccess ==
  /\ OrbGoto("stop", "idle")
  /\ trackerState' = "STOPPED"
  /\ stoppedMidFrame' = (stoppedMidFrame \/ looppc \in {"tracking", "pose"})
  /\ UNCHANGED <<trackerComputing, trackSuccess, trackerPose, lawVars, frameVars, looppc,
                 sotVelocity, failed, unheard, outrun>>

(* pStopProcess clears the flag; a frame that is under way raises it again.*)
TrackerStopped ==
  /\ OrbGoto("stop", "idle")
  /\ trackerState' = "STOPPED"
  /\ trackSuccess' = FALSE
  /\ stoppedMidFrame' = (stoppedMidFrame \/ looppc \in {"tracking", "pose"})
  /\ UNCHANGED <<trackerComputing, trackerPose, lawVars, frameVars, looppc,
                 sotVelocity, failed, unheard, outrun>>

CleanUpTracker ==
  /\ OrbGoto("idle", "idle")
  /\ trackerState = "STOPPED"
  /\ trackerState' = "CLEANED"
  /\ UNCHANGED <<trackerComputing, trackSuccess, trackerPose, lawVars, frameVars,
                 looppc, sotVelocity, histories>>

-----------------------------------------------------------------------------
(* The law's calls.                                                        *)

InitializeLaw ==
  /\ OrbGoto("idle", "idle")
  /\ lawState \in {"LIMBO", "CLEANED"}
  /\ lawState' = "INITIALIZED"
  /\ UNCHANGED <<trackerVars, lawComputing, m_RealiseControlLaw,
                 sot, frameVars, looppc, sotVelocity, histories>>

(* Without a target pStartProcess clears m_Computing and returns -1;       *)
(* StartProcess does not look at it and raises m_Computing.                *)
StartLaw ==
  /\ OrbGoto("idle", "idle")
  /\ lawState \in {"LIMBO", "INITIALIZED", "STOPPED"}
  /\ lawState' = "STARTED" /\ lawComputing' = 1
  /\ UNCHANGED <<trackerVars, m_RealiseControlLaw, sot, frameVars,
                 looppc, sotVelocity, histories>>

(* The law has no pStopProcess: the last velocity stands.                  *)
StopLaw ==
  /\ OrbGoto("idle", "idle")
  /\ lawState \in {"INITIALIZED", "STARTED", "EXECUTING", "EXECUTED"}
  /\ lawState' = "STOPPED" /\ lawComputing' = 0
  /\ UNCHANGED <<trackerVars, m_RealiseControlLaw, sot, frameVars,
                 looppc, sotVelocity, histories>>

(* The clean-up is a call in three steps: stop clears the flag, the zero   *)
(* velocity is written, and only then m_State is.  A frame of the law may  *)
(* decide, write and end between them.                                     *)
CleanUpLaw ==
  /\ OrbGoto("idle", "clean-up")
  /\ lawState = "STOPPED"
  /\ lawState' = "CLEANING"
  /\ m_RealiseControlLaw' = FALSE
  /\ outrun' = (looppc = "write")
  /\ UNCHANGED <<trackerVars, lawComputing, sot, frameVars, looppc, sotVelocity,
                 failed, stoppedMidFrame, unheard>>

CleanUpWrites(heard) ==
  /\ OrbGoto("clean-up", "cleaned")
  /\ sotVelocity' = IF sot = "plugged" /\ heard THEN "zero" ELSE sotVelocity
  /\ unheard' = ~(sot = "plugged" /\ heard)
  /\ UNCHANGED <<trackerVars, lawVars, frameVars, looppc, failed, stoppedMidFrame, outrun>>

LawCleanedUp ==
  /\ OrbGoto("cleaned", "idle")
  /\ lawState' = "CLEANED"
  /\ UNCHANGED <<trackerVars, lawComputing, m_RealiseControlLaw, sot, frameVars, looppc,
                 sotVelocity, histories>>

(* SetcdMo: the matrix, a call to the SoT for the head, and only then the  *)
(* flag.                                                                   *)
SetcdMo ==
  /\ OrbGoto("idle", "target")
  /\ UNCHANGED <<trackerVars, lawState, lawComputing, m_RealiseControlLaw,
                 sot, frameVars, looppc, sotVelocity, histories>>

TargetSet ==
  /\ OrbGoto("target", "idle")
  /\ m_RealiseControlLaw' = TRUE
  /\ failed' = FALSE
  /\ UNCHANGED <<trackerVars, lawState, lawComputing, sot,
                 frameVars, looppc, sotVelocity, stoppedMidFrame, unheard, outrun>>

(* A call that was accepted ends.                                          *)
OrbProceeds ==
  \/ TrackerInitialized \/ TrackerStopped \/ TargetSet \/ LawCleanedUp
  \/ \E heard \in BOOLEAN : CleanUpWrites(heard)

ControlCalls ==
  \/ \E then \in {"init", "init and start"} : InitializeTracker(then)
  \/ StartTracker \/ StopTracker \/ CleanUpTracker
  \/ InitializeLaw \/ StartLaw \/ StopLaw \/ CleanUpLaw \/ SetcdMo

-----------------------------------------------------------------------------
(* The server's constructor leaves both processes as they were built.      *)
ControlInit ==
  /\ trackerState = "LIMBO" /\ trackerComputing = 0
  /\ trackSuccess = FALSE /\ trackerPose = "identity"
  /\ lawState = "LIMBO" /\ lawComputing = 0
  /\ m_RealiseControlLaw = TRUE
  /\ sot = "none"
  /\ looppc = "start" /\ turn = 1 /\ r = "ok" /\ velref = "zero"
  /\ orbpc = "start"
  /\ sotVelocity = "zero"
  /\ failed = FALSE /\ stoppedMidFrame = FALSE /\ unheard = FALSE /\ outrun = FALSE

ControlNext == SetCorbaReference \/ InitConnection \/ ControlLoop \/ ControlCalls \/ OrbProceeds

(* The loop runs, calls end, and the SoT hears a write now and then.       *)
ControlFairness ==
  /\ WF_controlVars(ControlLoop) /\ WF_controlVars(OrbProceeds)
  /\ SF_controlVars(LawWrites(TRUE))

ControlSpec == ControlInit /\ [][ControlNext]_controlVars
FairControlSpec == ControlSpec /\ ControlFairness

-----------------------------------------------------------------------------
(* Properties.                                                             *)

LifeStates == {"LIMBO", "INITIALIZING", "INITIALIZED", "STARTED", "EXECUTING", "EXECUTED",
               "STOPPING", "STOPPED", "CLEANING", "CLEANED"}

ControlTypeOK ==
  /\ trackerState \in LifeStates \ {"CLEANING"}
  /\ lawState \in LifeStates \ {"INITIALIZING", "STOPPING"}
  /\ trackerComputing \in {0, 1} /\ lawComputing \in {0, 1}
  /\ trackerPose \in Poses
  /\ trackSuccess \in BOOLEAN 
  /\ m_RealiseControlLaw \in BOOLEAN /\ sot \in SotConnections
  /\ looppc \in {"start", "init", "exited", "idle", "tracking", "law", "pose", "decide", "write", "written"}
  /\ orbpc \in {"start", "idle", "init", "init and start", "stop", "target",
               "clean-up", "cleaned"}
  /\ r \in {"ok", "finished", "object moved", "no SoT", "tracking failed"}
  /\ turn \in 1 .. 2 /\ velref \in Velocities /\ sotVelocity \in Velocities
  /\ failed \in BOOLEAN /\ stoppedMidFrame \in BOOLEAN
  /\ unheard \in BOOLEAN /\ outrun \in BOOLEAN

(* The robot never moves on the identity matrix that stands for a lost or  *)
(* not yet tracked object: trackSuccess and trackerPose are two variables, *)
(* written in either order by two threads.  Only a stop of the tracker     *)
(* in the middle of its frame breaks it: the frame then raises the flag of *)
(* a stopped tracker, whose next initialisation resets the pose.           *)
VelocityFromTrackedPose == sotVelocity = "blind" => stoppedMidFrame

(* The robot stands still while the law is cleaned up and was given no     *)
(* target since, whatever frame of the law is under way from before it or  *)
(* ends in the middle of it.  It must have heard the clean-up's zero, and  *)
(* a frame that had decided on its velocity when the clean-up began may    *)
(* write it after the zero, and lets m_State say CLEANED all the same.     *)
CleanUpStopsRobot ==
  lawState = "CLEANED" /\ ~m_RealiseControlLaw /\ ~unheard /\ ~outrun => sotVelocity = "zero"

(* Both: what moves the robot is a tracked object and a law that runs.     *)
VelocityFollowsTracker == VelocityFromTrackedPose /\ CleanUpStopsRobot

(* After a frame in which the tracking or the SoT was lost, the object had *)
(* moved or the target was reached, the robot stops, unless it is given a  *)
(* target again or the law is stopped.  Stopping the tracker alone stops   *)
(* it too, through the flag it clears and the next frame of the law; not   *)
(* so a stop in the middle of a frame.                                     *)
RobotStops ==
  /\ failed ~> (sotVelocity = "zero" \/ ~failed \/ lawComputing = 0)
  /\ trackerState = "STOPPED"
       ~> (sotVelocity = "zero" \/ trackerComputing = 1 \/ lawComputing = 0 \/ stoppedMidFrame)
=============================================================================
