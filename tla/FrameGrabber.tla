---------------------------- MODULE FrameGrabber ----------------------------
(***************************************************************************)
(* The FireWire grabber, HRP2IEEE1394DCImagesInputMethod.  The LLVS thread *)
(* grabs (GetImageFromFrameGrabber calls GetSingleImage for each camera    *)
(* that is due); threads of the ORB start and stop the grabbing process    *)
(* and read and set features of the cameras.  m_mutex_device is taken      *)
(* around some of the calls of the driver, libdc1394, and the vectors      *)
(* themselves are not protected by it.                                     *)
(*                                                                         *)
(* The driver is modelled from how the code uses it: a camera has a ring   *)
(* of Buffers frames while its capture is set up, frames come while it     *)
(* transmits, a dequeue waits for one, and capture_stop releases the ring. *)
(* std::vector::clear leaves the storage in place, so an index into a      *)
(* cleared vector finds the old element: handle and m_VideoFrames keep     *)
(* what was there, and say that it is freed or released.                   *)
(***************************************************************************)
EXTENDS Integers

CONSTANTS
  NbCameras,            \* the cameras on the bus
  Buffers,              \* NUM_BUFFERS, the frames of a camera's ring
  Threads,              \* the threads that start, stop and set the grabber
  StoppedCaptureFails   \* the driver refuses a dequeue on a stopped capture;
                        \* otherwise it waits for ever

ASSUME GrabberAssumption ==
  /\ NbCameras \in Nat \ {0} /\ Buffers \in Nat \ {0}
  /\ StoppedCaptureFails \in BOOLEAN

Cameras == 1 .. NbCameras
Loop == "LLVSThread"
Nobody == "nobody"

ASSUME ThreadsAssumption == Loop \notin Threads /\ Nobody \notin Threads

VARIABLES
  m_State,         \* the state of the process, see VisionProcess
  m_Computing,
  nbCameras,       \* m_DC1394Cameras.size()
  handle,          \* the camera m_DC1394Cameras points to: "none", "open", "freed"
  m_VideoFrames,   \* the frame pointed to: "null", "frame", "released"
  capture,         \* the cameras whose capture is set up
  transmission,    \* the cameras that send frames
  ready,           \* the filled frames of each ring
  out,             \* the dequeued frames of each ring
  m_mutex_device,  \* the thread that holds the mutex
  pc,              \* where each thread is
  cam,             \* the camera each thread is at
  late             \* history: dequeues since m_Computing was last cleared

driver == <<handle, capture, transmission, ready, out>>
process == <<m_State, m_Computing, late>>
vars == <<process, nbCameras, driver, m_VideoFrames, m_mutex_device, pc, cam>>

(* The constructor initialises the board and starts the transmission, and  *)
(* LowLevelVisionServer initialises the process.                           *)
Init ==
  /\ m_State = "INITIALIZED" /\ m_Computing = 0 /\ late = 0
  /\ nbCameras = NbCameras
  /\ handle = [c \in Cameras |-> "open"]
  /\ m_VideoFrames = [c \in Cameras |-> "null"]
  /\ capture = Cameras /\ transmission = Cameras
  /\ ready = [c \in Cameras |-> 0]
  /\ out = [c \in Cameras |-> 0]
  /\ m_mutex_device = Nobody
  /\ pc = [t \in Threads \cup {Loop} |-> "idle"]
  /\ cam = [t \in Threads \cup {Loop} |-> 1]

-----------------------------------------------------------------------------
(* Steps of a thread.                                                      *)

Goto(t, from, to) == pc[t] = from /\ pc' = [pc EXCEPT ![t] = to]

Take(t) == m_mutex_device = Nobody /\ m_mutex_device' = t
Release == m_mutex_device' = Nobody

(* pthread_mutex_lock.                                                     *)
LockDevice(t, from, to) ==
  /\ Goto(t, from, to)
  /\ Take(t)
  /\ UNCHANGED <<process, nbCameras, driver, m_VideoFrames, cam>>

-----------------------------------------------------------------------------
(* The grab of the LLVS thread.                                            *)

(* The loop over the cameras: to the next one, or out.                     *)
NextCamera ==
  /\ pc' = [pc EXCEPT ![Loop] = IF cam[Loop] < NbCameras THEN "due" ELSE "idle"]
  /\ cam' = [cam EXCEPT ![Loop] = IF @ < NbCameras THEN @ + 1 ELSE 1]

(* lNbOfCameras is read once, before the loop.                             *)
BeginGrab ==
  /\ Goto(Loop, "idle", "due")
  /\ nbCameras > 0
  /\ UNCHANGED <<process, nbCameras, driver, m_VideoFrames, m_mutex_device, cam>>

NotDue ==
  /\ pc[Loop] = "due"
  /\ NextCamera
  /\ UNCHANGED <<process, nbCameras, driver, m_VideoFrames, m_mutex_device>>

(* GetCameraId refuses a number past m_DC1394Cameras.                      *)
GetCameraId ==
  /\ pc[Loop] = "due"
  /\ IF cam[Loop] > nbCameras
     THEN NextCamera
     ELSE Goto(Loop, "due", "status") /\ UNCHANGED cam
  /\ UNCHANGED <<process, nbCameras, driver, m_VideoFrames, m_mutex_device>>

StatusUnread ==
  /\ Goto(Loop, "status", "lock") /\ UNCHANGED cam
  /\ UNCHANGED <<process, nbCameras, driver, m_VideoFrames, m_mutex_device>>

(* GetSingleImage refuses if the process is not started.                   *)
ReadStatus ==
  /\ pc[Loop] = "status"
  /\ IF m_Computing = 0
     THEN NextCamera
     ELSE Goto(Loop, "status", "lock") /\ UNCHANGED cam
  /\ UNCHANGED <<process, nbCameras, driver, m_VideoFrames, m_mutex_device>>

(* CaptureDequeue waits in the driver with the mutex in hand.  Once the    *)
(* capture is stopped it fails, and GetSingleImage returns.                *)
Dequeue ==
  LET c == cam[Loop] IN
  /\ c \in capture
  /\ ready[c] > 0
  /\ Goto(Loop, "dequeue", "convert")
  /\ ready' = [ready EXCEPT ![c] = @ - 1]
  /\ out' = [out EXCEPT ![c] = @ + 1]
  /\ m_VideoFrames' = [m_VideoFrames EXCEPT ![c] = "frame"]
  /\ late' = IF m_Computing = 0 /\ late < 2 THEN late + 1 ELSE late
  /\ Release
  /\ UNCHANGED <<m_State, m_Computing, nbCameras, handle, capture, transmission, cam>>

FailsLocked ==
  /\ pc[Loop] = "dequeue"
  /\ StoppedCaptureFails /\ cam[Loop] \notin capture
  /\ NextCamera
  /\ UNCHANGED <<process, nbCameras, driver, m_VideoFrames, m_mutex_device>>

DequeueFails ==
  /\ pc[Loop] = "dequeue"
  /\ StoppedCaptureFails /\ cam[Loop] \notin capture
  /\ NextCamera
  /\ Release
  /\ UNCHANGED <<process, nbCameras, driver, m_VideoFrames>>

(* The frame's time stamp and pixels are read without the mutex; the       *)
(* frame goes back if the pointer is still there.                          *)
Convert ==
  /\ IF m_VideoFrames[cam[Loop]] # "null"
     THEN Goto(Loop, "convert", "relock") /\ UNCHANGED cam
     ELSE pc[Loop] = "convert" /\ NextCamera
  /\ UNCHANGED <<process, nbCameras, driver, m_VideoFrames, m_mutex_device>>

EnqueueForgotten ==
  /\ pc[Loop] = "enqueue"
  /\ NextCamera
  /\ Release
  /\ UNCHANGED <<process, nbCameras, driver, m_VideoFrames>>

Enqueue ==
  LET c == cam[Loop] IN
  /\ pc[Loop] = "enqueue"
  /\ NextCamera
  /\ out' = IF m_VideoFrames[c] = "frame" THEN [out EXCEPT ![c] = @ - 1] ELSE out
  /\ Release
  /\ UNCHANGED <<process, nbCameras, handle, capture, transmission, ready, m_VideoFrames>>

GetImageFromFrameGrabber ==
  \/ BeginGrab \/ NotDue \/ GetCameraId \/ ReadStatus
  \/ LockDevice(Loop, "lock", "dequeue") \/ Dequeue \/ DequeueFails \/ Convert
  \/ LockDevice(Loop, "relock", "enqueue") \/ Enqueue

-----------------------------------------------------------------------------
(* StartProcess: pStartProcess between the two writes of m_State.          *)

StartProcess(t) ==
  /\ m_State \in {"INITIALIZED", "STOPPED"}
  /\ Goto(t, "idle", "start")
  /\ m_State' = "STARTING"
  /\ UNCHANGED <<m_Computing, late, nbCameras, driver, m_VideoFrames, m_mutex_device, cam>>

(* InitializeBoard opens the cameras and chooses the profile.  On a board  *)
(* that is open already it finds the same cameras and keeps the old handles. *)
OpenCameras(t) ==
  /\ m_Computing = 0
  /\ Goto(t, "start", "setup")
  /\ handle' = [c \in Cameras |-> "open"]
  /\ m_VideoFrames' = IF nbCameras = 0 THEN [c \in Cameras |-> "null"] ELSE m_VideoFrames
  /\ nbCameras' = NbCameras
  /\ UNCHANGED <<process, capture, transmission, ready, out, m_mutex_device, cam>>

(* m_Computing is raised already: pStartProcess does nothing.              *)
AlreadyStarted(t) ==
  /\ m_Computing = 1
  /\ Goto(t, "start", "started")
  /\ UNCHANGED <<process, nbCameras, driver, m_VideoFrames, m_mutex_device, cam>>

(* InitializeBoard throws: no profile for these cameras, or a camera that  *)
(* cannot be accessed.  m_State stays at START_PROCESS.                    *)
InitializationFails(t) ==
  /\ Goto(t, "setup", "idle")
  /\ \E k \in 0 .. NbCameras - 1 : capture' = capture \cup 1 .. k
  /\ UNCHANGED <<process, nbCameras, handle, transmission, ready, out, m_VideoFrames,
                 m_mutex_device, cam>>

(* InitializeCameras sets up the captures.                                 *)
SetUpCaptures(t) ==
  /\ Goto(t, "setup", "on")
  /\ capture' = Cameras
  /\ m_Computing' = 0
  /\ late' = IF m_Computing = 1 THEN 0 ELSE late
  /\ cam' = [cam EXCEPT ![t] = 1]
  /\ UNCHANGED <<m_State, nbCameras, handle, transmission, ready, out, m_VideoFrames,
                 m_mutex_device>>

(* StartContinuousShot, one camera at a time.                              *)
TransmissionOn(t) ==
  /\ Goto(t, "on_locked", "on")
  /\ transmission' = transmission \cup {cam[t]}
  /\ cam' = [cam EXCEPT ![t] = @ + 1]
  /\ Release
  /\ UNCHANGED <<process, nbCameras, handle, capture, ready, out, m_VideoFrames>>

ShotStarted(t) ==
  /\ cam[t] > nbCameras
  /\ Goto(t, "on", "started")
  /\ UNCHANGED <<process, nbCameras, driver, m_VideoFrames, m_mutex_device, cam>>

Started(t) ==
  /\ Goto(t, "started", "idle")
  /\ m_State' = "STARTED" /\ m_Computing' = 1
  /\ late' = 0
  /\ cam' = [cam EXCEPT ![t] = 1]
  /\ UNCHANGED <<nbCameras, driver, m_VideoFrames, m_mutex_device>>

-----------------------------------------------------------------------------
(* StopProcess: StopContinuousShot and StopBoard, one camera at a time.    *)

StopProcess(t) ==
  /\ m_State \in {"INITIALIZED", "STARTING", "STARTED"}
  /\ Goto(t, "idle", "off")
  /\ m_Computing' = 0 /\ m_State' = "STOPPING"
  /\ late' = IF m_Computing = 1 THEN 0 ELSE late
  /\ cam' = [cam EXCEPT ![t] = 1]
  /\ UNCHANGED <<nbCameras, driver, m_VideoFrames, m_mutex_device>>

(* capture_stop: the ring is gone, and with it the frames in it.           *)
StopCapture(c) ==
  /\ capture' = capture \ {c}
  /\ transmission' = transmission \ {c}
  /\ ready' = [ready EXCEPT ![c] = 0]
  /\ out' = [out EXCEPT ![c] = 0]
  /\ m_VideoFrames' = [m_VideoFrames EXCEPT ![c] = IF @ = "frame" THEN "released" ELSE @]

TransmissionOff(t) ==
  /\ Goto(t, "off_locked", "off")
  /\ StopCapture(cam[t])
  /\ cam' = [cam EXCEPT ![t] = @ + 1]
  /\ Release
  /\ UNCHANGED <<process, nbCameras, handle>>

BoardKept(t) ==
  /\ cam[t] > nbCameras
  /\ Goto(t, "off", "stopped")
  /\ cam' = [cam EXCEPT ![t] = 1]
  /\ UNCHANGED <<process, nbCameras, driver, m_VideoFrames, m_mutex_device>>

ShotStopped(t) ==
  /\ cam[t] > nbCameras
  /\ Goto(t, "off", "free")
  /\ cam' = [cam EXCEPT ![t] = 1]
  /\ UNCHANGED <<process, nbCameras, driver, m_VideoFrames, m_mutex_device>>

FreeCamera(t) ==
  /\ Goto(t, "free_locked", "free")
  /\ StopCapture(cam[t])
  /\ handle' = [handle EXCEPT ![cam[t]] = "freed"]
  /\ cam' = [cam EXCEPT ![t] = @ + 1]
  /\ Release
  /\ UNCHANGED <<process, nbCameras>>

CleanMemory(t) ==
  /\ cam[t] > nbCameras
  /\ Goto(t, "free", "stopped")
  /\ nbCameras' = 0
  /\ cam' = [cam EXCEPT ![t] = 1]
  /\ UNCHANGED <<process, driver, m_VideoFrames, m_mutex_device>>

Stopped(t) ==
  /\ Goto(t, "stopped", "idle")
  /\ m_State' = "STOPPED"
  /\ UNCHANGED <<m_Computing, late, nbCameras, driver, m_VideoFrames, m_mutex_device, cam>>

(* The steps of a call in which another camera's mutex is asked for.       *)
LockNextCamera(t) ==
  /\ cam[t] <= nbCameras
  /\ \/ LockDevice(t, "on", "on_locked")
     \/ LockDevice(t, "off", "off_locked")
     \/ LockDevice(t, "free", "free_locked")

-----------------------------------------------------------------------------
(* Features.  The map of the profile gives the index, whatever the number  *)
(* of cameras now; setting one takes no mutex.                             *)

GetCameraFeatureValue(t) ==
  \E c \in Cameras :
    /\ Goto(t, "idle", "get") /\ cam' = [cam EXCEPT ![t] = c]
    /\ UNCHANGED <<process, nbCameras, driver, m_VideoFrames, m_mutex_device>>

GetReturns(t) ==
  \/ LockDevice(t, "get", "get_locked")
  \/ /\ Goto(t, "get_locked", "idle") /\ cam' = [cam EXCEPT ![t] = 1]
     /\ Release
     /\ UNCHANGED <<process, nbCameras, driver, m_VideoFrames>>

SetCameraFeatureValue(t) ==
  \E c \in Cameras :
    /\ Goto(t, "idle", "set") /\ cam' = [cam EXCEPT ![t] = c]
    /\ UNCHANGED <<process, nbCameras, driver, m_VideoFrames, m_mutex_device>>

SetReturns(t) ==
  /\ Goto(t, "set", "idle") /\ cam' = [cam EXCEPT ![t] = 1]
  /\ UNCHANGED <<process, nbCameras, driver, m_VideoFrames, m_mutex_device>>

-----------------------------------------------------------------------------
(* The driver fills a frame.                                               *)
FrameArrives(c) ==
  /\ c \in transmission \cap capture
  /\ ready[c] + out[c] < Buffers
  /\ ready' = [ready EXCEPT ![c] = @ + 1]
  /\ UNCHANGED <<process, nbCameras, handle, capture, transmission, out, m_VideoFrames,
                 m_mutex_device, pc, cam>>

(* What a call does once it is accepted.                                   *)
Proceed(t) ==
  \/ OpenCameras(t) \/ AlreadyStarted(t) \/ InitializationFails(t) \/ SetUpCaptures(t)
  \/ TransmissionOn(t) \/ ShotStarted(t) \/ Started(t)
  \/ TransmissionOff(t) \/ ShotStopped(t) \/ FreeCamera(t) \/ CleanMemory(t) \/ Stopped(t)
  \/ LockNextCamera(t) \/ GetReturns(t) \/ SetReturns(t)

Next ==
  \/ GetImageFromFrameGrabber
  \/ \E t \in Threads : \/ StartProcess(t) \/ StopProcess(t) \/ Proceed(t)
                        \/ GetCameraFeatureValue(t) \/ SetCameraFeatureValue(t)
  \/ \E c \in Cameras : FrameArrives(c)

Spec == Init /\ [][Next]_vars

-----------------------------------------------------------------------------
(* Properties.                                                             *)

LoopPCs == {"idle", "due", "status", "lock", "dequeue", "convert", "relock", "enqueue"}
CallPCs == {"idle", "start", "setup", "on", "on_locked", "started", "off", "off_locked",
            "free", "free_locked", "stopped", "get", "get_locked", "set"}

(* Types: a thread is at a place of its own code, every ring holds at most *)
(* its NUM_BUFFERS frames, and the vector has all the cameras or none.     *)
TypeOK ==
  /\ m_State \in {"INITIALIZED", "STARTING", "STARTED", "STOPPING", "STOPPED"}
  /\ m_Computing \in {0, 1} /\ late \in 0 .. 2
  /\ nbCameras \in {0, NbCameras}
  /\ handle \in [Cameras -> {"none", "open", "freed"}]
  /\ m_VideoFrames \in [Cameras -> {"null", "frame", "released"}]
  /\ capture \subseteq Cameras /\ transmission \subseteq Cameras
  /\ ready \in [Cameras -> Nat] /\ out \in [Cameras -> Nat]
  /\ \A c \in Cameras : ready[c] + out[c] <= Buffers
  /\ m_mutex_device \in Threads \cup {Loop, Nobody}
  /\ pc \in [Threads \cup {Loop} -> LoopPCs \cup CallPCs]
  /\ pc[Loop] \in LoopPCs /\ \A t \in Threads : pc[t] \in CallPCs
  /\ cam \in [Threads \cup {Loop} -> 1 .. NbCameras + 1]
  /\ cam[Loop] \in Cameras

(* StopProcess is felt within one image: between the clearing of           *)
(* m_Computing and the next start the loop takes at most one more frame    *)
(* from the driver, although GetSingleImage tests m_Computing long before  *)
(* it dequeues.                                                            *)
OneFrameAfterStop == late <= 1
=============================================================================
