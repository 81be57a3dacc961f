----------------------------- MODULE FrameLoop -----------------------------
(***************************************************************************)
(* The frame loop: LowLevelVisionServer::ApplyingProcess, which LLVSThread *)
(* (MainEntryPoint.cpp) calls for ever, and the CORBA calls that steer it  *)
(* from the ORB's threads.  No lock protects what they share, so the loop  *)
(* is the sequence of its reads and writes.                                *)
(*                                                                         *)
(* A call waits for the mode it is in (for a trigger in SYNCHRO_TRIGGER,   *)
(* for nothing in SYNCHRO_FLOW but a trigger before its first frame),      *)
(* grabs the cameras, dumps the image if asked to and calls                *)
(* RealizeTheProcess on the list of processes, in its order.  A process is *)
(* here what it hands to the next; its life cycle is VisionProcess.        *)
(***************************************************************************)
EXTENDS Integers, Sequences, FiniteSetsExt

CONSTANTS
  NbCameras,      \* the cameras of the input method, 0 .. NbCameras - 1
  Wide,           \* the camera the processes look at
  InitialModes,   \* the synchronization modes the server may be started in
  NewModes,       \* the synchronization modes clients set
  NewDumpModes,   \* the dump modes clients set
  ClientProcs,    \* the processes clients start and stop by name
  Frames          \* bound: images and frames are numbered modulo Frames

Modes == {"TRIGGER", "FLOW"}
DumpModes == {"NONE", "SINGLE", "FLOW"}
Procs == {"undistort", "tracker", "control", "buffer"}
Cameras == 0 .. NbCameras - 1

ASSUME CamerasAssumption == NbCameras \in Nat /\ Wide \in Cameras
ASSUME ClientsAssumption ==
  /\ InitialModes \subseteq Modes /\ NewModes \subseteq Modes
  /\ NewDumpModes \subseteq DumpModes /\ ClientProcs \subseteq Procs
ASSUME FramesAssumption == Frames \in Nat /\ Frames > 2

ListReordered == <<"tracker", "undistort", "control", "control", "buffer">>

(* The processes on the wide camera, in the order the constructor inserts  *)
(* them in m_ListOfProcesses; it inserts the control law twice.            *)
m_ListOfProcesses == <<"undistort", "tracker", "control", "control", "buffer">>

VARIABLES
  m_Computing,       \* the loop computes frames
  m_TypeOfSynchro,   \* the synchronization mode
  m_SynchroTrigger,  \* a trigger has come
  m_DumpImageMode,   \* the dump mode
  m_ImageCounter,    \* the frames computed
  FirstTime,         \* no call has gone through SYNCHRO_FLOW yet
  status,            \* the processes whose GetStatus is 1
  m_BinaryImages,    \* the last image of each camera
  undistorted,       \* the wide image m_Widecam_image_undistorted is made of
  pose,              \* the image the tracker's pose was computed from
  velocity,          \* the pose the control law computed its velocity from
  datum,             \* the datum saved last in the tracker's ring
  pc,                \* where the loop is
  synchro,           \* the mode the call found when it began
  ResFromGIFF,       \* what GetImageFromFrameGrabber returned, 0 or -1
  NbOfWait,          \* the turns of the trigger loop since it last grabbed
  i,                 \* the process the loop is at
  stopAt,            \* the process a StopMainProcess is at, 0 outside of it
  called,            \* history: a TriggerSynchro since the trigger loop was last left
  newImage,          \* history: a grab succeeded since the last TriggerSynchro
  fresh,             \* history: the cameras grabbed in this call
  asked,             \* history: a SINGLE dump was asked for and not yet made
  done,              \* history: how often each process was realized in this call
  atStop             \* history: m_ImageCounter when m_Computing was last cleared

steering == <<m_TypeOfSynchro, m_SynchroTrigger, m_DumpImageMode>>
data == <<status, undistorted, pose, velocity, datum, i, done>>
grabbing == <<m_BinaryImages, ResFromGIFF, newImage, fresh>>
history == <<called, asked, atStop>>
vars == <<m_Computing, steering, m_ImageCounter, FirstTime, data, grabbing, history,
          pc, synchro, NbOfWait, stopAt>>

Init ==
  /\ m_Computing = 0
  /\ m_TypeOfSynchro \in InitialModes
  /\ m_SynchroTrigger = FALSE
  /\ m_DumpImageMode = "SINGLE"
  /\ m_ImageCounter = 0
  /\ FirstTime = TRUE
  /\ status = {}
  /\ m_BinaryImages = [c \in Cameras |-> 0]
  /\ undistorted = 0 /\ pose = 0 /\ velocity = 0
  /\ datum = [image |-> 0, cMo |-> 0]
  /\ pc = "enter"
  /\ synchro = m_TypeOfSynchro
  /\ ResFromGIFF = -1
  /\ NbOfWait = 0
  /\ i = 1
  /\ stopAt = 0
  /\ called = FALSE /\ newImage = FALSE /\ fresh = {}
  /\ asked = TRUE
  /\ done = [p \in Procs |-> 0]
  /\ atStop = 0

-----------------------------------------------------------------------------
(* The calls of clients.                                                   *)

TriggerSynchro ==
  /\ m_SynchroTrigger' = TRUE
  /\ called' = TRUE /\ newImage' = FALSE
  /\ UNCHANGED <<m_Computing, m_TypeOfSynchro, m_DumpImageMode, m_ImageCounter, FirstTime,
                 data, m_BinaryImages, ResFromGIFF, fresh, asked, atStop, pc, synchro,
                 NbOfWait, stopAt>>

SetSynchronizationMode(mode) ==
  /\ m_TypeOfSynchro' = mode
  /\ UNCHANGED <<m_Computing, m_SynchroTrigger, m_DumpImageMode, m_ImageCounter, FirstTime,
                 data, grabbing, history, pc, synchro, NbOfWait, stopAt>>

SetDumpImageMode(mode) ==
  /\ m_DumpImageMode' = mode
  /\ asked' = IF mode = "SINGLE" THEN TRUE ELSE asked
  /\ UNCHANGED <<m_Computing, m_TypeOfSynchro, m_SynchroTrigger, m_ImageCounter, FirstTime,
                 data, grabbing, called, atStop, pc, synchro, NbOfWait, stopAt>>

StartMainProcess ==
  /\ m_Computing' = 1
  /\ UNCHANGED <<steering, m_ImageCounter, FirstTime, data, grabbing, history, pc, synchro,
                 NbOfWait, stopAt>>

(* StopMainProcess clears m_Computing, then stops the processes one by one. *)
StopMainProcess ==
  /\ stopAt = 0 /\ stopAt' = 1
  /\ m_Computing' = 0
  /\ atStop' = IF m_Computing = 1 THEN m_ImageCounter ELSE atStop
  /\ UNCHANGED <<steering, m_ImageCounter, FirstTime, data, grabbing, called, asked, pc,
                 synchro, NbOfWait>>

StopNextProcess ==
  /\ stopAt > 0
  /\ status' = status \ {m_ListOfProcesses[stopAt]}
  /\ stopAt' = IF stopAt = Len(m_ListOfProcesses) THEN 0 ELSE stopAt + 1
  /\ UNCHANGED <<m_Computing, steering, m_ImageCounter, FirstTime, undistorted, pose,
                 velocity, datum, i, done, grabbing, history, pc, synchro, NbOfWait>>

(* StartProcess and StopProcess, by the name of the process.               *)
SetStatus(running) ==
  /\ status' = running
  /\ UNCHANGED <<m_Computing, steering, m_ImageCounter, FirstTime, undistorted, pose,
                 velocity, datum, i, done, grabbing, history, pc, synchro, NbOfWait, stopAt>>

StartProcess(p) == SetStatus(status \cup {p})
StopProcess(p) == SetStatus(status \ {p})

Client ==
  \/ TriggerSynchro \/ StartMainProcess \/ StopMainProcess \/ StopNextProcess
  \/ \E mode \in NewModes : SetSynchronizationMode(mode)
  \/ \E mode \in NewDumpModes : SetDumpImageMode(mode)
  \/ \E p \in ClientProcs : StartProcess(p) \/ StopProcess(p)

-----------------------------------------------------------------------------
(* The loop.  Every step of it goes from one place to another.             *)

At(from, to) == pc = from /\ pc' = to

EnterUnchecked ==
  /\ At("enter", "synchro")
  /\ fresh' = {}
  /\ i' = 1 /\ done' = [p \in Procs |-> 0]
  /\ ResFromGIFF' = -1 /\ NbOfWait' = 0
  /\ UNCHANGED <<m_Computing, steering, m_ImageCounter, FirstTime, status, undistorted, pose,
                 velocity, datum, m_BinaryImages, newImage, history, synchro, stopAt>>

(* While m_Computing is 0 the call returns -1 at once and changes nothing. *)
Enter == m_Computing = 1 /\ EnterUnchecked

ReadModeAndReset ==
  /\ pc = "synchro"
  /\ synchro' = m_TypeOfSynchro
  /\ pc' = IF m_TypeOfSynchro = "TRIGGER" THEN "wait" ELSE "flow"
  /\ m_SynchroTrigger' = FALSE
  /\ UNCHANGED <<m_Computing, m_TypeOfSynchro, m_DumpImageMode, m_ImageCounter, FirstTime,
                 data, grabbing, history, NbOfWait, stopAt>>

ReadMode ==
  /\ pc = "synchro"
  /\ synchro' = m_TypeOfSynchro
  /\ pc' = IF m_TypeOfSynchro = "TRIGGER" THEN "wait" ELSE "flow"
  /\ UNCHANGED <<m_Computing, steering, m_ImageCounter, FirstTime, data, grabbing, history,
                 NbOfWait, stopAt>>

(* GetImageFromFrameGrabber: of the cameras, some are due, and of those    *)
(* some deliver an image; the result is that of the last camera that was   *)
(* due, -1 when none was.                                                  *)
GetImageFromFrameGrabber ==
  \E due \in SUBSET Cameras : \E grabbed \in SUBSET due :
    /\ m_BinaryImages' = [c \in Cameras |-> IF c \in grabbed THEN (m_BinaryImages[c] + 1) % Frames
                                            ELSE m_BinaryImages[c]]
    /\ ResFromGIFF' = IF due # {} /\ Max(due) \in grabbed THEN 0 ELSE -1
    /\ newImage' = (newImage \/ grabbed # {})
    /\ fresh' = fresh \cup grabbed

(* A turn of the trigger loop: every second one grabs, "for exhausting the *)
(* buffer of images".                                                      *)
Wait ==
  /\ At("wait", "test")
  /\ NbOfWait' = (NbOfWait + 1) % 2
  /\ IF NbOfWait' = 0 THEN GetImageFromFrameGrabber ELSE UNCHANGED grabbing
  /\ UNCHANGED <<m_Computing, steering, m_ImageCounter, FirstTime, data, history, synchro,
                 stopAt>>

TestNoResult ==
  /\ pc = "test"
  /\ pc' = IF m_SynchroTrigger THEN "mode" ELSE "wait"
  /\ called' = IF m_SynchroTrigger THEN FALSE ELSE called
  /\ UNCHANGED <<m_Computing, steering, m_ImageCounter, FirstTime, data, grabbing, asked,
                 atStop, synchro, NbOfWait, stopAt>>

Test ==
  LET leaves == m_SynchroTrigger /\ ResFromGIFF # -1 IN
  /\ pc = "test"
  /\ pc' = IF leaves THEN "mode" ELSE "wait"
  /\ called' = IF leaves THEN FALSE ELSE called
  /\ UNCHANGED <<m_Computing, steering, m_ImageCounter, FirstTime, data, grabbing, asked,
                 atStop, synchro, NbOfWait, stopAt>>

(* SYNCHRO_FLOW waits only before its first frame, for a trigger: TooFast  *)
(* is never true, as LastProcessTime is a date and not a duration.         *)
EnterFlow ==
  /\ At("flow", IF FirstTime /\ m_TypeOfSynchro = "FLOW" THEN "first" ELSE "mode")
  /\ UNCHANGED <<m_Computing, steering, m_ImageCounter, FirstTime, data, grabbing, history,
                 synchro, NbOfWait, stopAt>>

FirstTrigger ==
  /\ At("first", "mode")
  /\ m_SynchroTrigger
  /\ UNCHANGED <<m_Computing, steering, m_ImageCounter, FirstTime, data, grabbing, history,
                 synchro, NbOfWait, stopAt>>

(* The trigger is kept if the mode has changed meanwhile.                  *)
ReadModeAgain ==
  /\ At("mode", IF m_TypeOfSynchro = synchro THEN "reset" ELSE "grab")
  /\ FirstTime' = (FirstTime /\ synchro = "TRIGGER")
  /\ UNCHANGED <<m_Computing, steering, m_ImageCounter, data, grabbing, history, synchro,
                 NbOfWait, stopAt>>

ResetOnlyInFlow ==
  /\ At("reset", "grab")
  /\ m_SynchroTrigger' = (m_SynchroTrigger /\ synchro = "TRIGGER")
  /\ UNCHANGED <<m_Computing, m_TypeOfSynchro, m_DumpImageMode, m_ImageCounter, FirstTime,
                 data, grabbing, history, synchro, NbOfWait, stopAt>>

ResetTrigger ==
  /\ At("reset", "grab")
  /\ m_SynchroTrigger' = FALSE
  /\ UNCHANGED <<m_Computing, m_TypeOfSynchro, m_DumpImageMode, m_ImageCounter, FirstTime,
                 data, grabbing, history, synchro, NbOfWait, stopAt>>

(* Whatever this grab returns, the call goes on.                           *)
Grab ==
  /\ At("grab", "dump")
  /\ IF ResFromGIFF = -1 THEN GetImageFromFrameGrabber ELSE UNCHANGED grabbing
  /\ UNCHANGED <<m_Computing, steering, m_ImageCounter, FirstTime, data, history, synchro,
                 NbOfWait, stopAt>>

(* The dump of the image, then of a SINGLE dump the return to NONE.        *)
Dump ==
  /\ At("dump", IF m_DumpImageMode = "NONE" THEN "realize" ELSE "single")
  /\ asked' = IF m_DumpImageMode = "SINGLE" THEN FALSE ELSE asked
  /\ UNCHANGED <<m_Computing, steering, m_ImageCounter, FirstTime, data, grabbing, called,
                 atStop, synchro, NbOfWait, stopAt>>

ReadDumpMode ==
  /\ At("single", IF m_DumpImageMode = "SINGLE" THEN "none" ELSE "realize")
  /\ UNCHANGED <<m_Computing, steering, m_ImageCounter, FirstTime, data, grabbing, history,
                 synchro, NbOfWait, stopAt>>

DumpNotCleared ==
  /\ At("none", "realize")
  /\ UNCHANGED <<m_Computing, steering, m_ImageCounter, FirstTime, data, grabbing, history,
                 synchro, NbOfWait, stopAt>>

ClearDumpMode ==
  /\ At("none", "realize")
  /\ m_DumpImageMode' = "NONE"
  /\ UNCHANGED <<m_Computing, m_TypeOfSynchro, m_SynchroTrigger, m_ImageCounter, FirstTime,
                 data, grabbing, history, synchro, NbOfWait, stopAt>>

(* RealizeTheProcess of the process at i, which does nothing when stopped. *)
Realize ==
  LET p == m_ListOfProcesses[i]
      runs(q) == p = q /\ p \in status
  IN
  /\ At("realize", IF i = Len(m_ListOfProcesses) THEN "end" ELSE "realize")
  /\ i' = i + 1
  /\ undistorted' = IF runs("undistort") THEN m_BinaryImages[Wide] ELSE undistorted
  /\ pose' = IF runs("tracker") THEN undistorted ELSE pose
  /\ velocity' = IF runs("control") THEN pose ELSE velocity
  /\ datum' = IF runs("buffer") THEN [image |-> undistorted, cMo |-> pose] ELSE datum
  /\ done' = IF p \in status THEN [done EXCEPT ![p] = @ + 1] ELSE done
  /\ UNCHANGED <<m_Computing, steering, m_ImageCounter, FirstTime, status, grabbing, history,
                 synchro, NbOfWait, stopAt>>

End ==
  /\ At("end", "enter")
  /\ m_ImageCounter' = (m_ImageCounter + 1) % Frames
  /\ UNCHANGED <<m_Computing, steering, FirstTime, data, grabbing, history, synchro, NbOfWait,
                 stopAt>>

ApplyingProcess ==
  \/ Enter \/ ReadMode \/ Wait \/ Test \/ EnterFlow \/ FirstTrigger \/ ReadModeAgain
  \/ ResetTrigger \/ Grab \/ Dump \/ ReadDumpMode \/ ClearDumpMode \/ Realize \/ End

-----------------------------------------------------------------------------

Next == Client \/ ApplyingProcess

Spec == Init /\ [][Next]_vars

(* The LLVS thread runs, and the cameras deliver images again and again.   *)
Fairness == WF_vars(ApplyingProcess) /\ SF_vars(Wait /\ ResFromGIFF' = 0)

FairSpec == Spec /\ Fairness

-----------------------------------------------------------------------------
(* Properties.                                                             *)

Numbers == 0 .. Frames - 1

TypeOK ==
  /\ m_Computing \in {0, 1}
  /\ m_TypeOfSynchro \in Modes /\ synchro \in Modes
  /\ m_SynchroTrigger \in BOOLEAN /\ FirstTime \in BOOLEAN
  /\ m_DumpImageMode \in DumpModes
  /\ m_ImageCounter \in Numbers /\ atStop \in Numbers
  /\ status \subseteq Procs
  /\ m_BinaryImages \in [Cameras -> Numbers]
  /\ undistorted \in Numbers /\ pose \in Numbers /\ velocity \in Numbers
  /\ datum \in [image : Numbers, cMo : Numbers]
  /\ pc \in {"enter", "synchro", "wait", "test", "flow", "first", "mode", "reset", "grab",
            "dump", "single", "none", "realize", "end"}
  /\ ResFromGIFF \in {-1, 0} /\ NbOfWait \in {0, 1}
  /\ i \in 1 .. Len(m_ListOfProcesses) + 1
  /\ stopAt \in 0 .. Len(m_ListOfProcesses)
  /\ called \in BOOLEAN /\ newImage \in BOOLEAN /\ asked \in BOOLEAN
  /\ fresh \subseteq Cameras
  /\ done \in [Procs -> 0 .. 2]

(* While clients leave the mode alone, a trigger lets at most one frame    *)
(* through: each time the trigger loop is left, TriggerSynchro has been    *)
(* called since it was left the time before.                               *)
OneFramePerTrigger == [][pc = "test" /\ pc' = "mode" => called]_vars

(* However the modes are switched, the processes never work on a triggered *)
(* frame for which no camera delivered an image.                           *)
TriggeredFrameHasImage == pc = "dump" /\ synchro = "TRIGGER" => fresh # {}

(* A SINGLE dump is made once: however clients set the dump mode meanwhile, *)
(* each dump in mode SINGLE answers a request not answered before.         *)
SingleDumpsOnce == [][pc = "dump" /\ pc' # pc /\ m_DumpImageMode = "SINGLE" => asked]_vars

(* Whenever clients start and stop the processes, the tracker's datum of a *)
(* call in which the undistortion, the tracker and the buffer were all     *)
(* realized has the image of that call and the pose computed from it, and  *)
(* the control law has used no older pose.                                 *)
DatumOfThisFrame ==
  pc = "end" /\ done["undistort"] > 0 /\ done["tracker"] > 0 =>
    /\ done["buffer"] > 0 => datum = [image |-> m_BinaryImages[Wide], cMo |-> m_BinaryImages[Wide]]
    /\ done["control"] > 0 => velocity = m_BinaryImages[Wide]

(* After StopMainProcess has cleared m_Computing, at most the frame that   *)
(* was under way is completed, until StartMainProcess.                     *)
StopBoundsFrames == m_Computing = 0 => (m_ImageCounter - atStop) % Frames <= 1

(* TriggerSynchro, "Trigger the grabbing of an image": the images of a     *)
(* triggered frame were grabbed after the trigger.                         *)
TriggeredImageIsNew == [][pc = "test" /\ pc' = "mode" => newImage]_vars

(* A trigger is served: the frame it lets through is computed, unless the  *)
(* loop is stopped.                                                        *)
TriggerServed == m_SynchroTrigger ~> (pc = "realize" \/ m_Computing = 0)

=============================================================================
