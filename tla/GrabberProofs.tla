---------------------------- MODULE GrabberProofs ----------------------------
(***************************************************************************)
(* Theorems about the FireWire grabber.  FrameGrabber: what holds for any  *)
(* number of cameras, of frames in their rings and of threads that start,  *)
(* stop and set the grabber, with no lock between the test of m_Computing  *)
(* and the dequeue.  Shutdown: the server with its main thread, its LLVS   *)
(* thread and any number of threads of the ORB uses the grabber as         *)
(* FrameGrabber says, and its shutdown never waits for a mutex that died   *)
(* with the LLVS thread; with one client of the grabber no dequeued frame  *)
(* is lost and a normal exit releases the cameras.  VisionProfile: for any *)
(* profiles and cameras, the profile chosen is the best and each image     *)
(* comes from the camera the profile means.                                *)
(***************************************************************************)
EXTENDS Shutdown, VisionProfile, SelectionProofs

-----------------------------------------------------------------------------
(* The grabber alone (FrameGrabber).                                       *)

(* The type invariant by what a step touches: the process and the mutex,   *)
(* the places in the code, the cameras the threads are at, the driver.     *)
LifeOK ==
  /\ m_State \in {"INITIALIZED", "STARTING", "STARTED", "STOPPING", "STOPPED"}
  /\ m_Computing \in {0, 1} /\ late \in 0 .. 2
  /\ m_mutex_device \in Threads \cup {Loop, Nobody}

PlacesOK ==
  /\ pc \in [Threads \cup {Loop} -> LoopPCs \cup CallPCs]
  /\ pc[Loop] \in LoopPCs /\ \A t \in Threads : pc[t] \in CallPCs

CamOK ==
  cam \in [Threads \cup {Loop} -> 1 .. NbCameras + 1] /\ cam[Loop] \in Cameras

DriverOK ==
  /\ nbCameras \in {0, NbCameras}
  /\ handle \in [Cameras -> {"none", "open", "freed"}]
  /\ m_VideoFrames \in [Cameras -> {"null", "frame", "released"}]
  /\ capture \subseteq Cameras /\ transmission \subseteq Cameras
  /\ ready \in [Cameras -> Nat] /\ out \in [Cameras -> Nat]
  /\ \A c \in Cameras : ready[c] + out[c] <= Buffers

(* Past its test of m_Computing, the loop may take one frame more.         *)
Committed == pc[Loop] \in {"lock", "dequeue"}

(* No frame is late while the status is 1, nor before a loop that passed   *)
(* its test has dequeued.                                                  *)
LateInv == (m_Computing = 1 \/ Committed => late = 0) /\ late <= 1

(* A thread with the mutex is at a camera of the bus.                      *)
CameraInv ==
  \A t \in Threads : pc[t] \in {"on_locked", "off_locked", "free_locked"} => cam[t] \in Cameras

(* A frame whose pointer is still there, at the place that gives it back,  *)
(* is out.                                                                 *)
OutInv ==
  pc[Loop] \in {"convert", "relock", "enqueue"} /\ m_VideoFrames[cam[Loop]] = "frame"
    => out[cam[Loop]] > 0

IInv == LifeOK /\ PlacesOK /\ CamOK /\ DriverOK /\ LateInv /\ CameraInv /\ OutInv

-----------------------------------------------------------------------------

LEMMA InvType == IInv => TypeOK
BY DEF IInv, TypeOK, LifeOK, PlacesOK, CamOK, DriverOK

LEMMA InvInit == Init => IInv
<1> SUFFICES ASSUME Init PROVE IInv
  OBVIOUS
<1> USE GrabberAssumption, ThreadsAssumption DEF Init, Cameras
<1>1. pc[Loop] = "idle" /\ cam[Loop] = 1
  OBVIOUS
<1>2. LifeOK /\ PlacesOK /\ CamOK /\ DriverOK
  BY <1>1 DEF LifeOK, PlacesOK, CamOK, DriverOK, LoopPCs, CallPCs
<1>3. LateInv /\ OutInv
  BY <1>1 DEF LateInv, Committed, OutInv
<1>4. CameraInv
  BY DEF CameraInv
<1>5. QED
  BY <1>2, <1>3, <1>4 DEF IInv

(* What a step that goes from one place to another does to the places.     *)
LEMMA LoopGoes ==
  ASSUME PlacesOK, NEW place \in LoopPCs, pc' = [pc EXCEPT ![Loop] = place]
  PROVE  PlacesOK' /\ pc'[Loop] = place /\ \A t \in Threads : pc'[t] = pc[t]
BY ThreadsAssumption DEF PlacesOK

LEMMA ThreadGoes ==
  ASSUME PlacesOK, NEW t \in Threads, NEW place \in CallPCs, pc' = [pc EXCEPT ![t] = place]
  PROVE  /\ PlacesOK' /\ pc'[Loop] = pc[Loop] /\ pc'[t] = place
         /\ \A u \in Threads \ {t} : pc'[u] = pc[u]
BY ThreadsAssumption DEF PlacesOK

LEMMA CamGoes ==
  ASSUME CamOK, NEW t \in Threads, NEW c \in 1 .. NbCameras + 1, cam' = [cam EXCEPT ![t] = c]
  PROVE  /\ CamOK' /\ cam'[Loop] = cam[Loop] /\ cam'[t] = c
         /\ \A u \in Threads \ {t} : cam'[u] = cam[u]
BY ThreadsAssumption DEF CamOK

LEMMA LoopGoesOn ==
  ASSUME PlacesOK, CamOK, NextCamera
  PROVE  /\ PlacesOK' /\ CamOK'
         /\ pc'[Loop] \in {"due", "idle"}
         /\ \A t \in Threads : pc'[t] = pc[t] /\ cam'[t] = cam[t]
<1> DEFINE c == IF cam[Loop] < NbCameras THEN cam[Loop] + 1 ELSE 1
           place == IF cam[Loop] < NbCameras THEN "due" ELSE "idle"
<1>1. c \in Cameras /\ c \in 1 .. NbCameras + 1
  BY GrabberAssumption DEF CamOK, Cameras
<1>2. place \in LoopPCs /\ place \in {"due", "idle"}
  BY DEF LoopPCs
<1>3. cam' = [cam EXCEPT ![Loop] = c] /\ pc' = [pc EXCEPT ![Loop] = place]
  BY DEF NextCamera
<1> HIDE DEF c, place
<1>4. PlacesOK' /\ pc'[Loop] = place /\ \A t \in Threads : pc'[t] = pc[t]
  BY <1>2, <1>3, LoopGoes
<1>5. CamOK' /\ \A t \in Threads : cam'[t] = cam[t]
  BY <1>1, <1>3, ThreadsAssumption DEF CamOK
<1>6. QED
  BY <1>2, <1>4, <1>5

-----------------------------------------------------------------------------
(* The loop's steps.  What the clients' threads are at does not change.    *)

LEMMA GrabStep == IInv /\ GetImageFromFrameGrabber => IInv'
<1> SUFFICES ASSUME IInv, GetImageFromFrameGrabber PROVE IInv'
  OBVIOUS
<1>1. LifeOK /\ PlacesOK /\ CamOK /\ DriverOK /\ LateInv /\ CameraInv /\ OutInv
  BY DEF IInv
<1> USE DEF driver, process
(* A step to a place of the grab, at the same camera.                      *)
<1>2. ASSUME NEW from \in LoopPCs, NEW to \in LoopPCs, Goto(Loop, from, to), UNCHANGED cam
      PROVE  /\ PlacesOK' /\ CamOK' /\ CameraInv'
             /\ pc[Loop] = from /\ pc'[Loop] = to /\ cam'[Loop] = cam[Loop]
  BY <1>1, <1>2, LoopGoes DEF Goto, CamOK, CameraInv
(* A step to the next camera, after which nothing is in hand.              *)
<1>3. ASSUME NextCamera PROVE PlacesOK' /\ CamOK' /\ CameraInv' /\ OutInv' /\ ~Committed'
  BY <1>1, <1>3, LoopGoesOn DEF CameraInv, OutInv, Committed
<1>4. ASSUME UNCHANGED <<process, nbCameras, driver, m_VideoFrames, m_mutex_device>>
      PROVE  LifeOK' /\ DriverOK'
  BY <1>1, <1>4 DEF LifeOK, DriverOK
<1>5. CASE BeginGrab
  <2>1. pc'[Loop] = "due" /\ PlacesOK' /\ CamOK' /\ CameraInv'
    BY <1>2, <1>5 DEF BeginGrab, LoopPCs
  <2>2. QED
    BY <2>1, <1>1, <1>4, <1>5 DEF BeginGrab, IInv, LateInv, Committed, OutInv
<1>6. CASE NotDue
  BY <1>1, <1>3, <1>4, <1>6 DEF NotDue, IInv, LateInv
<1>7. CASE GetCameraId
  <2>1. CASE NextCamera
    BY <2>1, <1>1, <1>3, <1>4, <1>7 DEF GetCameraId, IInv, LateInv
  <2>2. CASE Goto(Loop, "due", "status") /\ UNCHANGED cam
    <3>1. pc'[Loop] = "status" /\ PlacesOK' /\ CamOK' /\ CameraInv'
      BY <2>2, <1>2 DEF LoopPCs
    <3>2. QED
      BY <3>1, <1>1, <1>4, <1>7 DEF GetCameraId, IInv, LateInv, Committed, OutInv
  <2>3. QED
    BY <2>1, <2>2, <1>7 DEF GetCameraId
<1>8. CASE ReadStatus
  <2>1. CASE NextCamera
    BY <2>1, <1>1, <1>3, <1>4, <1>8 DEF ReadStatus, IInv, LateInv
  <2>2. CASE m_Computing # 0 /\ Goto(Loop, "status", "lock") /\ UNCHANGED cam
    <3>1. pc'[Loop] = "lock" /\ PlacesOK' /\ CamOK' /\ CameraInv'
      BY <2>2, <1>2 DEF LoopPCs
    <3>2. m_Computing = 1
      BY <2>2, <1>1 DEF LifeOK
    <3>3. QED
      BY <3>1, <3>2, <1>1, <1>4, <1>8 DEF ReadStatus, IInv, LateInv, Committed, OutInv
  <2>3. QED
    BY <2>1, <2>2, <1>8 DEF ReadStatus
<1>9. ASSUME NEW from \in LoopPCs, NEW to \in LoopPCs, LockDevice(Loop, from, to),
             <<from, to>> \in {<<"lock", "dequeue">>, <<"relock", "enqueue">>}
      PROVE  IInv'
  <2>1. /\ pc[Loop] = from /\ pc'[Loop] = to /\ cam'[Loop] = cam[Loop]
        /\ PlacesOK' /\ CamOK' /\ CameraInv'
    BY <1>2, <1>9 DEF LockDevice
  <2>2. LifeOK' /\ DriverOK'
    BY <1>1, <1>9 DEF LockDevice, Take, LifeOK, DriverOK
  <2>3. LateInv' /\ OutInv'
    BY <2>1, <1>1, <1>9 DEF LockDevice, LateInv, OutInv, Committed
  <2>4. QED
    BY <2>1, <2>2, <2>3 DEF IInv
<1>10. CASE Dequeue
  <2>1. /\ pc[Loop] = "dequeue" /\ pc'[Loop] = "convert" /\ cam'[Loop] = cam[Loop]
        /\ PlacesOK' /\ CamOK' /\ CameraInv'
    BY <1>2, <1>10 DEF Dequeue, LoopPCs
  <2>2. late = 0 /\ m_Computing \in {0, 1}
    BY <2>1, <1>1 DEF LateInv, Committed, LifeOK
  <2>3. LifeOK' /\ LateInv'
    BY <2>1, <2>2, <1>1, <1>10 DEF Dequeue, Release, LifeOK, LateInv, Committed
  <2>4. DriverOK' /\ OutInv'
    BY <2>1, <1>1, <1>10 DEF Dequeue, DriverOK, CamOK, OutInv
  <2>5. QED
    BY <2>1, <2>3, <2>4 DEF IInv
<1>11. CASE DequeueFails
  <2>1. LifeOK' /\ DriverOK'
    BY <1>1, <1>11 DEF DequeueFails, Release, LifeOK, DriverOK
  <2>2. QED
    BY <2>1, <1>1, <1>3, <1>11 DEF DequeueFails, IInv, LateInv
<1>12. CASE Convert
  <2>1. CASE NextCamera
    BY <2>1, <1>1, <1>3, <1>4, <1>12 DEF Convert, IInv, LateInv
  <2>2. CASE Goto(Loop, "convert", "relock") /\ UNCHANGED cam
    <3>1. /\ pc[Loop] = "convert" /\ pc'[Loop] = "relock" /\ cam'[Loop] = cam[Loop]
          /\ PlacesOK' /\ CamOK' /\ CameraInv'
      BY <2>2, <1>2 DEF LoopPCs
    <3>2. QED
      BY <3>1, <1>1, <1>4, <1>12 DEF Convert, IInv, LateInv, Committed, OutInv
  <2>3. QED
    BY <2>1, <2>2, <1>12 DEF Convert
<1>13. CASE Enqueue
  <2>1. pc[Loop] = "enqueue" /\ cam[Loop] \in Cameras
    BY <1>1, <1>13 DEF Enqueue, CamOK
  <2>2. m_VideoFrames[cam[Loop]] = "frame" => out[cam[Loop]] > 0
    BY <2>1, <1>1 DEF OutInv
  <2>3. LifeOK'
    BY <1>1, <1>13 DEF Enqueue, Release, LifeOK
  <2>4. DriverOK'
    <3>1. out' \in [Cameras -> Nat] /\ \A c \in Cameras : out'[c] <= out[c]
      BY <2>1, <2>2, <1>1, <1>13 DEF Enqueue, DriverOK
    <3>2. \A c \in Cameras : ready[c] \in Nat /\ out[c] \in Nat /\ out'[c] \in Nat
      BY <3>1, <1>1 DEF DriverOK
    <3>3. \A c \in Cameras : ready[c] + out'[c] <= Buffers
      BY <3>1, <3>2, <1>1, GrabberAssumption DEF DriverOK
    <3>4. QED
      BY <3>1, <3>3, <1>1, <1>13 DEF Enqueue, DriverOK
  <2>5. QED
    BY <2>3, <2>4, <1>1, <1>3, <1>13 DEF Enqueue, IInv, LateInv
<1>14. QED
  BY <1>5, <1>6, <1>7, <1>8, <1>9, <1>10, <1>11, <1>12, <1>13 DEF GetImageFromFrameGrabber, LoopPCs

-----------------------------------------------------------------------------
(* The steps of the threads.  The loop's place and camera do not change.   *)

Undisturbed == pc'[Loop] = pc[Loop] /\ cam'[Loop] = cam[Loop]

LEMMA ThreadMoves ==
  ASSUME IInv, NEW t \in Threads, NEW from, NEW to \in CallPCs, Goto(t, from, to),
         \/ UNCHANGED cam
         \/ \E c \in 1 .. NbCameras + 1 : cam' = [cam EXCEPT ![t] = c],
         to \in {"on_locked", "off_locked", "free_locked"} => cam'[t] \in Cameras
  PROVE  PlacesOK' /\ CamOK' /\ CameraInv' /\ Undisturbed /\ pc[t] = from
<1>1. PlacesOK /\ CamOK /\ CameraInv
  BY DEF IInv
<1>2. /\ PlacesOK' /\ pc'[Loop] = pc[Loop] /\ pc'[t] = to /\ pc[t] = from
      /\ \A u \in Threads \ {t} : pc'[u] = pc[u]
  BY <1>1, ThreadGoes DEF Goto
<1>3. CASE UNCHANGED cam
  <2>1. CamOK' /\ cam'[Loop] = cam[Loop] /\ \A u \in Threads : cam'[u] = cam[u]
    BY <1>1, <1>3 DEF CamOK
  <2>2. CameraInv'
    BY <1>1, <1>2, <2>1 DEF CameraInv
  <2>3. QED
    BY <1>2, <2>1, <2>2 DEF Undisturbed
<1>4. ASSUME NEW c \in 1 .. NbCameras + 1, cam' = [cam EXCEPT ![t] = c]
      PROVE  CamOK' /\ CameraInv' /\ Undisturbed
  <2>1. CamOK' /\ cam'[Loop] = cam[Loop] /\ \A u \in Threads \ {t} : cam'[u] = cam[u]
    BY <1>1, <1>4, CamGoes
  <2>2. CameraInv'
    BY <1>1, <1>2, <2>1 DEF CameraInv
  <2>3. QED
    BY <1>2, <2>1, <2>2 DEF Undisturbed
<1>5. QED
  BY <1>2, <1>3, <1>4

(* A step that leaves the driver, and the history with m_Computing, alone. *)
LEMMA DriverKept ==
  ASSUME IInv, Undisturbed, UNCHANGED <<nbCameras, driver, m_VideoFrames>>
  PROVE  DriverOK' /\ OutInv'
BY DEF IInv, Undisturbed, driver, DriverOK, OutInv

LEMMA ProcessKept ==
  ASSUME IInv, Undisturbed, UNCHANGED process
  PROVE  LateInv'
BY DEF IInv, Undisturbed, process, LateInv, Committed

(* capture_stop empties the ring of a camera.                              *)
LEMMA StopCaptureSafe ==
  ASSUME IInv, Undisturbed, UNCHANGED nbCameras, NEW c \in Cameras, StopCapture(c),
         handle' \in [Cameras -> {"none", "open", "freed"}]
  PROVE  DriverOK' /\ OutInv'
<1>1. DriverOK /\ OutInv /\ CamOK
  BY DEF IInv
<1>2. /\ ready' \in [Cameras -> Nat] /\ out' \in [Cameras -> Nat]
      /\ m_VideoFrames' \in [Cameras -> {"null", "frame", "released"}]
      /\ m_VideoFrames'[c] # "frame"
      /\ \A d \in Cameras \ {c} : /\ m_VideoFrames'[d] = m_VideoFrames[d]
                                   /\ ready'[d] = ready[d] /\ out'[d] = out[d]
      /\ ready'[c] = 0 /\ out'[c] = 0
  BY <1>1 DEF StopCapture, DriverOK
<1>3. \A d \in Cameras : ready'[d] + out'[d] <= Buffers
  BY <1>1, <1>2, GrabberAssumption DEF DriverOK
<1>4. DriverOK'
  BY <1>1, <1>2, <1>3 DEF DriverOK, StopCapture
<1>5. OutInv'
  BY <1>1, <1>2 DEF OutInv, Undisturbed, CamOK
<1>6. QED
  BY <1>4, <1>5

LEMMA ProceedStep == ASSUME IInv, NEW t \in Threads, Proceed(t) PROVE IInv'
<1>1. LifeOK /\ PlacesOK /\ CamOK /\ DriverOK /\ LateInv /\ CameraInv /\ OutInv
  BY DEF IInv
<1>2. 1 \in 1 .. NbCameras + 1 /\ 1 \in Cameras
  BY GrabberAssumption DEF Cameras
<1>3. cam[t] \in Cameras => cam[t] + 1 \in 1 .. NbCameras + 1
  BY GrabberAssumption DEF Cameras
<1>4. cam[t] \in Nat \ {0}
  BY <1>1 DEF CamOK
<1> USE DEF CallPCs
<1>5. CASE OpenCameras(t)
  <2>1. PlacesOK' /\ CamOK' /\ CameraInv' /\ Undisturbed
    BY <1>5, ThreadMoves DEF OpenCameras
  <2>2. DriverOK' /\ OutInv'
    BY <1>1, <1>5, <2>1 DEF OpenCameras, DriverOK, OutInv, CamOK, Undisturbed
  <2>3. LifeOK' /\ LateInv'
    BY <1>1, <1>5, <2>1, ProcessKept DEF OpenCameras, process, LifeOK
  <2>4. QED
    BY <2>1, <2>2, <2>3 DEF IInv
<1>6. CASE AlreadyStarted(t) \/ ShotStarted(t)
  <2>1. PlacesOK' /\ CamOK' /\ CameraInv' /\ Undisturbed
    BY <1>6, ThreadMoves DEF AlreadyStarted, ShotStarted
  <2>2. LifeOK'
    BY <1>1, <1>6 DEF AlreadyStarted, ShotStarted, process, LifeOK
  <2>3. QED
    BY <1>6, <2>1, <2>2, DriverKept, ProcessKept DEF AlreadyStarted, ShotStarted, IInv
<1>7. CASE InitializationFails(t)
  <2>1. PlacesOK' /\ CamOK' /\ CameraInv' /\ Undisturbed
    BY <1>7, ThreadMoves DEF InitializationFails
  <2>2. capture' \subseteq Cameras
    <3>1. PICK k \in 0 .. NbCameras - 1 : capture' = capture \cup 1 .. k
      BY <1>7 DEF InitializationFails
    <3>2. 1 .. k \subseteq Cameras
      BY <3>1, GrabberAssumption DEF Cameras
    <3>3. QED
      BY <1>1, <3>1, <3>2 DEF DriverOK
  <2>3. DriverOK' /\ OutInv'
    BY <1>1, <1>7, <2>1, <2>2 DEF InitializationFails, DriverOK, OutInv, Undisturbed
  <2>4. LifeOK' /\ LateInv'
    BY <1>1, <1>7, <2>1, ProcessKept DEF InitializationFails, process, LifeOK
  <2>5. QED
    BY <2>1, <2>3, <2>4 DEF IInv
<1>8. CASE SetUpCaptures(t)
  <2>1. PlacesOK' /\ CamOK' /\ CameraInv' /\ Undisturbed
    BY <1>2, <1>8, ThreadMoves DEF SetUpCaptures
  <2>2. DriverOK' /\ OutInv'
    BY <1>1, <1>8, <2>1 DEF SetUpCaptures, DriverOK, OutInv, Undisturbed
  <2>3. LifeOK' /\ LateInv'
    BY <1>1, <1>8, <2>1 DEF SetUpCaptures, LifeOK, LateInv, Committed, Undisturbed
  <2>4. QED
    BY <2>1, <2>2, <2>3 DEF IInv
<1>9. CASE TransmissionOn(t)
  <2>1. pc[t] = "on_locked" /\ cam[t] \in Cameras
    BY <1>1, <1>9 DEF TransmissionOn, Goto, CameraInv
  <2>2. PlacesOK' /\ CamOK' /\ CameraInv' /\ Undisturbed
    BY <1>3, <1>9, <2>1, ThreadMoves DEF TransmissionOn
  <2>3. DriverOK' /\ OutInv'
    BY <1>1, <1>9, <2>1, <2>2 DEF TransmissionOn, DriverOK, OutInv, Undisturbed
  <2>4. LifeOK' /\ LateInv'
    BY <1>1, <1>9, <2>2, ProcessKept DEF TransmissionOn, Release, process, LifeOK
  <2>5. QED
    BY <2>2, <2>3, <2>4 DEF IInv
<1>10. CASE Started(t)
  <2>1. PlacesOK' /\ CamOK' /\ CameraInv' /\ Undisturbed
    BY <1>2, <1>10, ThreadMoves DEF Started
  <2>2. LifeOK' /\ LateInv'
    BY <1>1, <1>10 DEF Started, LifeOK, LateInv
  <2>3. QED
    BY <1>10, <2>1, <2>2, DriverKept DEF Started, IInv
<1>11. CASE TransmissionOff(t) \/ FreeCamera(t)
  <2>1. pc[t] \in {"off_locked", "free_locked"} /\ cam[t] \in Cameras
    BY <1>1, <1>11 DEF TransmissionOff, FreeCamera, Goto, CameraInv
  <2>2. PlacesOK' /\ CamOK' /\ CameraInv' /\ Undisturbed
    BY <1>3, <1>11, <2>1, ThreadMoves DEF TransmissionOff, FreeCamera
  <2>3. handle' \in [Cameras -> {"none", "open", "freed"}]
    BY <1>1, <1>11 DEF TransmissionOff, FreeCamera, DriverOK
  <2>4. DriverOK' /\ OutInv'
    BY <1>11, <2>1, <2>2, <2>3, StopCaptureSafe DEF TransmissionOff, FreeCamera
  <2>5. LifeOK' /\ LateInv'
    BY <1>1, <1>11, <2>2, ProcessKept DEF TransmissionOff, FreeCamera, Release, process, LifeOK
  <2>6. QED
    BY <2>2, <2>4, <2>5 DEF IInv
<1>12. CASE ShotStopped(t)
  <2>1. PlacesOK' /\ CamOK' /\ CameraInv' /\ Undisturbed
    BY <1>2, <1>12, ThreadMoves DEF ShotStopped
  <2>2. LifeOK'
    BY <1>1, <1>12 DEF ShotStopped, process, LifeOK
  <2>3. QED
    BY <1>12, <2>1, <2>2, DriverKept, ProcessKept DEF ShotStopped, IInv
<1>13. CASE CleanMemory(t)
  <2>1. PlacesOK' /\ CamOK' /\ CameraInv' /\ Undisturbed
    BY <1>2, <1>13, ThreadMoves DEF CleanMemory
  <2>2. DriverOK' /\ OutInv'
    BY <1>1, <1>13, <2>1 DEF CleanMemory, driver, DriverOK, OutInv, Undisturbed
  <2>3. LifeOK' /\ LateInv'
    BY <1>1, <1>13, <2>1, ProcessKept DEF CleanMemory, process, LifeOK
  <2>4. QED
    BY <2>1, <2>2, <2>3 DEF IInv
<1>14. CASE Stopped(t)
  <2>1. PlacesOK' /\ CamOK' /\ CameraInv' /\ Undisturbed
    BY <1>14, ThreadMoves DEF Stopped
  <2>2. LifeOK' /\ LateInv'
    BY <1>1, <1>14, <2>1 DEF Stopped, LifeOK, LateInv, Committed, Undisturbed
  <2>3. QED
    BY <1>14, <2>1, <2>2, DriverKept DEF Stopped, IInv
<1>15. ASSUME NEW from, NEW to \in CallPCs, LockDevice(t, from, to),
              to = "get_locked" \/ cam[t] <= nbCameras
       PROVE  IInv'
  <2>1. to # "get_locked" => cam[t] \in Cameras
    BY <1>1, <1>4, <1>15, GrabberAssumption DEF DriverOK, Cameras
  <2>2. UNCHANGED cam /\ Goto(t, from, to)
    BY <1>15 DEF LockDevice
  <2>3. PlacesOK' /\ CamOK' /\ CameraInv' /\ Undisturbed
    BY <2>1, <2>2, ThreadMoves
  <2>4. LifeOK'
    BY <1>1, <1>15 DEF LockDevice, Take, process, LifeOK
  <2>5. QED
    BY <1>15, <2>3, <2>4, DriverKept, ProcessKept DEF LockDevice, IInv
<1>16. CASE LockNextCamera(t)
  BY <1>15, <1>16 DEF LockNextCamera
<1>17. CASE GetReturns(t)
  <2>1. CASE LockDevice(t, "get", "get_locked")
    BY <2>1, <1>15
  <2>2. CASE ~LockDevice(t, "get", "get_locked")
    <3>1. PlacesOK' /\ CamOK' /\ CameraInv' /\ Undisturbed
      BY <1>2, <1>17, <2>2, ThreadMoves DEF GetReturns
    <3>2. LifeOK'
      BY <1>1, <1>17, <2>2 DEF GetReturns, Release, process, LifeOK
    <3>3. QED
      BY <1>17, <2>2, <3>1, <3>2, DriverKept, ProcessKept DEF GetReturns, IInv
  <2>3. QED
    BY <2>1, <2>2
<1>18. CASE SetReturns(t)
  <2>1. PlacesOK' /\ CamOK' /\ CameraInv' /\ Undisturbed
    BY <1>2, <1>18, ThreadMoves DEF SetReturns
  <2>2. LifeOK'
    BY <1>1, <1>18 DEF SetReturns, process, LifeOK
  <2>3. QED
    BY <1>18, <2>1, <2>2, DriverKept, ProcessKept DEF SetReturns, IInv
<1>19. QED
  BY <1>5, <1>6, <1>7, <1>8, <1>9, <1>10, <1>11, <1>12, <1>13, <1>14, <1>16, <1>17, <1>18
     DEF Proceed

(* The steps that begin a call.                                            *)
LEMMA CallStep ==
  ASSUME IInv, NEW t \in Threads,
         \/ StartProcess(t) \/ StopProcess(t)
         \/ GetCameraFeatureValue(t) \/ SetCameraFeatureValue(t)
  PROVE  IInv'
<1>1. LifeOK /\ LateInv /\ CamOK
  BY DEF IInv
<1>2. 1 \in 1 .. NbCameras + 1 /\ Cameras \subseteq 1 .. NbCameras + 1
  BY GrabberAssumption DEF Cameras
<1> USE DEF CallPCs
<1>3. CASE StartProcess(t)
  <2>1. PlacesOK' /\ CamOK' /\ CameraInv' /\ Undisturbed
    BY <1>3, ThreadMoves DEF StartProcess
  <2>2. LifeOK' /\ LateInv'
    BY <1>1, <1>3, <2>1 DEF StartProcess, LifeOK, LateInv, Committed, Undisturbed
  <2>3. QED
    BY <1>3, <2>1, <2>2, DriverKept DEF StartProcess, IInv
<1>4. CASE StopProcess(t)
  <2>1. PlacesOK' /\ CamOK' /\ CameraInv' /\ Undisturbed
    BY <1>2, <1>4, ThreadMoves DEF StopProcess
  <2>2. LifeOK' /\ LateInv'
    BY <1>1, <1>4, <2>1 DEF StopProcess, LifeOK, LateInv, Committed, Undisturbed
  <2>3. QED
    BY <1>4, <2>1, <2>2, DriverKept DEF StopProcess, IInv
<1>5. ASSUME NEW to \in {"get", "set"}, NEW c \in Cameras, Goto(t, "idle", to),
             cam' = [cam EXCEPT ![t] = c],
             UNCHANGED <<process, nbCameras, driver, m_VideoFrames, m_mutex_device>>
      PROVE  IInv'
  <2>1. PlacesOK' /\ CamOK' /\ CameraInv' /\ Undisturbed
    BY <1>2, <1>5, ThreadMoves
  <2>2. LifeOK'
    BY <1>1, <1>5 DEF process, LifeOK
  <2>3. QED
    BY <1>5, <2>1, <2>2, DriverKept, ProcessKept DEF IInv
<1>6. QED
  BY <1>3, <1>4, <1>5 DEF GetCameraFeatureValue, SetCameraFeatureValue

LEMMA FrameStep == ASSUME IInv, NEW c \in Cameras, FrameArrives(c) PROVE IInv'
<1>1. UNCHANGED <<pc, cam, process, m_mutex_device, nbCameras, m_VideoFrames, out>>
  BY DEF FrameArrives
<1>2. LifeOK' /\ PlacesOK' /\ CamOK' /\ CameraInv' /\ LateInv' /\ OutInv'
  BY <1>1 DEF IInv, process, LifeOK, PlacesOK, CamOK, CameraInv, LateInv, Committed, OutInv
<1>3. DriverOK'
  <2>1. \A d \in Cameras : ready[d] \in Nat /\ out[d] \in Nat /\ ready[d] + out[d] <= Buffers
    BY DEF IInv, DriverOK
  <2>2. ready' \in [Cameras -> Nat] /\ \A d \in Cameras : ready'[d] + out[d] <= Buffers
    BY <2>1, GrabberAssumption DEF IInv, FrameArrives, DriverOK
  <2>3. QED
    BY <1>1, <2>2 DEF IInv, FrameArrives, DriverOK
<1>4. QED
  BY <1>2, <1>3 DEF IInv

LEMMA InvStep == IInv /\ [Next]_vars => IInv'
<1> SUFFICES ASSUME IInv, [Next]_vars PROVE IInv'
  OBVIOUS
<1>1. CASE GetImageFromFrameGrabber
  BY <1>1, GrabStep
<1>2. ASSUME NEW t \in Threads,
             \/ StartProcess(t) \/ StopProcess(t) \/ Proceed(t)
             \/ GetCameraFeatureValue(t) \/ SetCameraFeatureValue(t)
      PROVE  IInv'
  BY <1>2, CallStep, ProceedStep
<1>3. ASSUME NEW c \in Cameras, FrameArrives(c) PROVE IInv'
  BY <1>3, FrameStep
<1>4. CASE UNCHANGED vars
  BY <1>4 DEF vars, driver, process, IInv, LifeOK, PlacesOK, CamOK, DriverOK, LateInv,
              Committed, CameraInv, OutInv
<1>5. QED
  BY <1>1, <1>2, <1>3, <1>4 DEF Next

-----------------------------------------------------------------------------

(* What the grabber's loop and its callers rely on, in every state.        *)
THEOREM Invariance == Spec => []IInv
BY InvInit, InvStep, PTL DEF Spec

(* The types, and with them that no camera's ring ever holds more than its *)
(* NUM_BUFFERS frames and that every frame given back was out.             *)
THEOREM TypeCorrect == Spec => []TypeOK
BY Invariance, InvType, PTL

(* A stop of the grabber is felt within one image, though the loop tests   *)
(* m_Computing without the mutex and long before it dequeues: a loop that  *)
(* passed the test was let through by a status of 1, under which nothing   *)
(* is late, and its dequeue takes it back to the next test.                *)
THEOREM StopFeltWithinOneFrame == Spec => []OneFrameAfterStop
<1>1. IInv => OneFrameAfterStop
  BY DEF IInv, LateInv, OneFrameAfterStop
<1>2. QED
  BY Invariance, <1>1, PTL

-----------------------------------------------------------------------------
(* The server that shuts it down (Shutdown).                               *)

Halting == {"STOPPING", "STOPPED"}
StartPCs == {"start", "setup", "on", "on_locked", "started"}

(* Main goes on only after a SIGINT; a start that is under way after one   *)
(* is known; and so once main has stopped the grabber it stays stopped.    *)
HaltInv ==
  /\ ~ExitMutex \/ mainpc # "wait" => sigints > 0
  /\ sigints > 0 /\ ~started => ~Starting
  /\ mainpc \in {"stopping", "join", "cleanup", "cleaning", "exited"} /\ ~started
       => m_State \in Halting

(* The LLVS thread is killed when main's stop has returned, and main does  *)
(* not find a grabber to stop after that.                                  *)
KillInv ==
  llvs \in {"killed", "ended"} =>
    /\ mainpc \in {"join", "cleanup", "cleaning", "exited", "aborted"}
    /\ ~started => pc[Main] = "idle"

ServerOK ==
  /\ mainpc \in {"wait", "locked", "stop", "stopping", "join", "cleanup", "cleaning",
                 "exited", "aborted"}
  /\ ExitMutex \in BOOLEAN /\ started \in BOOLEAN
  /\ computing \in {0, 1} /\ sigints \in 0 .. MaxSigints
  /\ llvs \in {"created", "running", "killed", "ended"}

ServerInv == IInv /\ ServerOK /\ HaltInv /\ KillInv

-----------------------------------------------------------------------------
(* The server uses the grabber as FrameGrabber says.                       *)

LEMMA ServerStepIsGrabberStep == [ServerNext]_allVars => [Next]_vars
<1> SUFFICES ASSUME [ServerNext]_allVars PROVE [Next]_vars
  OBVIOUS
<1>1. CASE SIGINT_handler
  BY <1>1 DEF SIGINT_handler
<1>2. CASE MainStep
  BY <1>2, MainAssumption
     DEF MainStep, Next, LockExit, UnlockExit, StopMainProcess, KillThread, JoinThread,
         CleanUpGrabbing, Exit
<1>3. CASE LLVS
  BY <1>3 DEF LLVS, LLVSThreadBegins, LLVSThread, LLVSThreadExits, Next
<1>4. CASE Clients
  BY <1>4 DEF Clients, Starts, Calls, Proceeds, Next
<1>5. CASE Frames
  BY <1>5 DEF Frames, Next
<1>6. CASE UNCHANGED allVars
  BY <1>6 DEF allVars
<1>7. QED
  BY <1>1, <1>2, <1>3, <1>4, <1>5, <1>6 DEF ServerNext

(* Every behaviour of the server is one of the grabber, to which main and  *)
(* the clients are threads like others.                                    *)
THEOREM ServerImplementsGrabber == ServerSpec => Spec
<1>1. ServerInit => Init
  BY DEF ServerInit
<1>2. QED
  BY <1>1, ServerStepIsGrabberStep, PTL DEF ServerSpec, Spec

(* A stop, a client's or main's own, is felt within one image however the  *)
(* server is shut down meanwhile.                                          *)
THEOREM ServerStopFeltWithinOneFrame == ServerSpec => []OneFrameAfterStop
BY ServerImplementsGrabber, StopFeltWithinOneFrame, PTL

-----------------------------------------------------------------------------
(* Without a start under way the grabber starts nothing by itself, and     *)
(* does not leave its stop.                                                *)

LEMMA StartingIs == Starting <=> \E t \in Threads : pc[t] \in StartPCs
BY DEF Starting, StartPCs

LEMMA LoopStartsNothing ==
  ASSUME IInv, GetImageFromFrameGrabber
  PROVE  m_State' = m_State /\ \A t \in Threads : pc'[t] = pc[t]
<1>1. PlacesOK /\ CamOK
  BY DEF IInv
<1>2. CASE NextCamera
  <2>1. \A t \in Threads : pc'[t] = pc[t]
    BY <1>1, <1>2, LoopGoesOn
  <2>2. m_State' = m_State
    BY DEF GetImageFromFrameGrabber, BeginGrab, NotDue, GetCameraId, ReadStatus, LockDevice,
           Dequeue, DequeueFails, Convert, Enqueue, process
  <2>3. QED
    BY <2>1, <2>2
<1>3. CASE ~NextCamera
  <2>1. PICK to \in LoopPCs : pc' = [pc EXCEPT ![Loop] = to]
    BY <1>3 DEF GetImageFromFrameGrabber, BeginGrab, NotDue, GetCameraId, ReadStatus,
                LockDevice, Dequeue, DequeueFails, Convert, Enqueue, Goto, LoopPCs
  <2>2. \A t \in Threads : pc'[t] = pc[t]
    BY <1>1, <2>1, LoopGoes
  <2>3. m_State' = m_State
    BY DEF GetImageFromFrameGrabber, BeginGrab, NotDue, GetCameraId, ReadStatus, LockDevice,
           Dequeue, DequeueFails, Convert, Enqueue, process
  <2>4. QED
    BY <2>2, <2>3
<1>4. QED
  BY <1>2, <1>3

(* What a thread's step does to the places of the threads.                 *)
LEMMA ThreadStartsNothing ==
  ASSUME IInv, NEW t \in Threads, pc[t] \notin StartPCs,
         \/ StopProcess(t) \/ Proceed(t)
         \/ GetCameraFeatureValue(t) \/ SetCameraFeatureValue(t)
  PROVE  /\ pc'[t] \notin StartPCs
         /\ \A u \in Threads \ {t} : pc'[u] = pc[u]
         /\ m_State' \in {m_State} \cup Halting
         /\ pc[t] = "idle" => ~Proceed(t)
<1>1. PlacesOK
  BY DEF IInv
<1>2. PICK to \in CallPCs \ StartPCs : pc' = [pc EXCEPT ![t] = to]
  <2>1. CASE Proceed(t)
    BY <2>1 DEF Proceed, OpenCameras, AlreadyStarted, InitializationFails, SetUpCaptures,
                TransmissionOn, ShotStarted, Started, TransmissionOff, ShotStopped,
                FreeCamera, CleanMemory, Stopped, LockNextCamera, GetReturns, SetReturns,
                LockDevice, Goto, CallPCs, StartPCs
  <2>2. CASE ~Proceed(t)
    BY <2>2 DEF StopProcess, GetCameraFeatureValue, SetCameraFeatureValue, Goto, CallPCs, StartPCs
  <2>3. QED
    BY <2>1, <2>2
<1>3. pc'[t] \notin StartPCs /\ \A u \in Threads \ {t} : pc'[u] = pc[u]
  BY <1>1, <1>2, ThreadGoes
<1>4. m_State' \in {m_State} \cup Halting
  <2>1. CASE Proceed(t)
    BY <2>1 DEF Proceed, OpenCameras, AlreadyStarted, InitializationFails, SetUpCaptures,
                TransmissionOn, ShotStarted, Started, TransmissionOff, ShotStopped,
                FreeCamera, CleanMemory, Stopped, LockNextCamera, GetReturns, SetReturns,
                LockDevice, Goto, StartPCs, Halting, process
  <2>2. CASE ~Proceed(t)
    BY <2>2 DEF StopProcess, GetCameraFeatureValue, SetCameraFeatureValue, Halting, process
  <2>3. QED
    BY <2>1, <2>2
<1>5. pc[t] = "idle" => ~Proceed(t)
  BY DEF Proceed, OpenCameras, AlreadyStarted, InitializationFails, SetUpCaptures,
         TransmissionOn, ShotStarted, Started, TransmissionOff, ShotStopped,
         FreeCamera, CleanMemory, Stopped, LockNextCamera, GetReturns, SetReturns,
         LockDevice, Goto
<1>6. QED
  BY <1>3, <1>4, <1>5

-----------------------------------------------------------------------------
(* The invariant.                                                          *)

LEMMA ServerInvInit == ServerInit => ServerInv
<1> SUFFICES ASSUME ServerInit PROVE ServerInv
  OBVIOUS
<1>1. IInv
  BY InvInit DEF ServerInit
<1>2. ServerOK
  <2>1. sigints \in 0 .. MaxSigints
    BY MainAssumption DEF ServerInit
  <2>2. ExitMutex \in BOOLEAN /\ started \in BOOLEAN
    BY Zenon DEF ServerInit
  <2>3. QED
    BY <2>1, <2>2 DEF ServerInit, ServerOK
<1>3. HaltInv
  <2>1. mainpc = "wait" /\ ExitMutex = TRUE /\ sigints = 0
    BY DEF ServerInit
  <2>2. ~(sigints > 0)
    BY <2>1
  <2>3. QED
    BY <2>1, <2>2 DEF HaltInv
<1>4. KillInv
  BY DEF ServerInit, KillInv
<1>5. QED
  BY <1>1, <1>2, <1>3, <1>4 DEF ServerInv

(* A step of the grabber that starts nothing and leaves main where it is.  *)
LEMMA QuietStep ==
  ASSUME ServerInv, UNCHANGED <<server, started>>,
         ~started /\ sigints > 0 =>
           /\ m_State' \in {m_State} \cup Halting /\ ~Starting'
           /\ pc[Main] = "idle" => pc'[Main] = "idle"
  PROVE  ServerOK' /\ HaltInv' /\ KillInv'
<1>1. ServerOK'
  BY DEF ServerInv, server, ServerOK
<1>2. HaltInv'
  BY DEF ServerInv, server, HaltInv
<1>3. KillInv'
  BY DEF ServerInv, server, HaltInv, KillInv
<1>4. QED
  BY <1>1, <1>2, <1>3

LEMMA ThreadIsQuiet ==
  ASSUME ServerInv, UNCHANGED <<server, started>>, NEW t \in Threads,
         \/ Proceed(t)
         \/ t # Main /\ (StopProcess(t) \/ GetCameraFeatureValue(t) \/ SetCameraFeatureValue(t))
  PROVE  ServerOK' /\ HaltInv' /\ KillInv'
<1> SUFFICES ASSUME ~started, sigints > 0
             PROVE  /\ m_State' \in {m_State} \cup Halting /\ ~Starting'
                    /\ pc[Main] = "idle" => pc'[Main] = "idle"
  BY QuietStep
<1>1. IInv /\ \A u \in Threads : pc[u] \notin StartPCs
  BY StartingIs DEF ServerInv, HaltInv
<1>2. /\ pc'[t] \notin StartPCs /\ \A u \in Threads \ {t} : pc'[u] = pc[u]
      /\ m_State' \in {m_State} \cup Halting /\ (pc[t] = "idle" => ~Proceed(t))
  BY <1>1, ThreadStartsNothing
<1>3. ~Starting'
  BY <1>1, <1>2 DEF Starting, StartPCs
<1>4. pc[Main] = "idle" => pc'[Main] = "idle"
  BY <1>2, MainAssumption
<1>5. QED
  BY <1>2, <1>3, <1>4

LEMMA ServerInvStep == ServerInv /\ [ServerNext]_allVars => ServerInv'
<1> SUFFICES ASSUME ServerInv, [ServerNext]_allVars PROVE ServerInv'
  OBVIOUS
<1>1. IInv'
  BY ServerStepIsGrabberStep, InvStep DEF ServerInv
<1> SUFFICES ServerOK' /\ HaltInv' /\ KillInv'
  BY <1>1 DEF ServerInv
<1>2. ServerOK /\ HaltInv /\ KillInv /\ IInv
  BY DEF ServerInv
(* A step that changes nothing of the grabber's.                           *)
<1>3. UNCHANGED vars => UNCHANGED <<pc, m_State>> /\ Starting' = Starting
  BY DEF vars, process, Starting
<1>4. CASE SIGINT_handler
  <2>1. sigints' = sigints + 1 /\ sigints' > 0 /\ sigints' \in 0 .. MaxSigints
    BY <1>2, <1>4, MainAssumption DEF SIGINT_handler, ServerOK
  <2>2. started' \in BOOLEAN /\ (~started' => ~started /\ ~Starting')
    BY <1>2, <1>3, <1>4 DEF SIGINT_handler, ServerOK, Starting
  <2>3. ServerOK'
    BY <1>2, <1>4, <2>1, <2>2 DEF SIGINT_handler, ServerOK
  <2>4. HaltInv'
    BY <1>2, <1>3, <1>4, <2>1, <2>2 DEF SIGINT_handler, HaltInv
  <2>5. KillInv'
    BY <1>2, <1>3, <1>4, <2>2 DEF SIGINT_handler, KillInv
  <2>6. QED
    BY <2>3, <2>4, <2>5
<1>5. CASE LockExit \/ UnlockExit \/ KillThread \/ JoinThread \/ Exit
  <2>1. ServerOK'
    BY <1>2, <1>5 DEF LockExit, UnlockExit, KillThread, JoinThread, Exit, MainGoto, ServerOK
  <2>2. HaltInv'
    BY <1>2, <1>3, <1>5
       DEF LockExit, UnlockExit, KillThread, JoinThread, Exit, MainGoto, HaltInv
  <2>3. KillInv'
    BY <1>2, <1>3, <1>5
       DEF LockExit, UnlockExit, KillThread, JoinThread, Exit, MainGoto, KillInv
  <2>4. QED
    BY <2>1, <2>2, <2>3
<1>6. CASE StopMainProcess
  <2>1. sigints > 0 /\ llvs \notin {"killed", "ended"}
    BY <1>2, <1>6 DEF StopMainProcess, MainGoto, HaltInv, KillInv
  <2>2. ASSUME ~started PROVE ~Starting' /\ m_State' \in Halting
    <3>1. CASE StopProcess(Main)
      <4>1. \A u \in Threads : pc[u] \notin StartPCs
        BY <1>2, <2>1, <2>2, StartingIs DEF HaltInv
      <4>2. \A u \in Threads : pc'[u] \notin StartPCs
        BY <1>2, <3>1, <4>1, MainAssumption, ThreadStartsNothing
      <4>3. QED
        BY <3>1, <4>2 DEF Starting, StartPCs, StopProcess, Halting
    <3>2. CASE m_State \in Halting /\ UNCHANGED vars
      BY <1>2, <1>3, <2>1, <2>2, <3>2 DEF HaltInv
    <3>3. QED
      BY <1>6, <3>1, <3>2 DEF StopMainProcess, Halting
  <2>3. ServerOK'
    BY <1>2, <1>6 DEF StopMainProcess, MainGoto, ServerOK
  <2>4. HaltInv' /\ KillInv'
    BY <1>6, <2>1, <2>2 DEF StopMainProcess, HaltInv, KillInv
  <2>5. QED
    BY <2>3, <2>4
<1>7. CASE CleanUpGrabbing
  <2>1. sigints > 0
    BY <1>2, <1>7 DEF CleanUpGrabbing, MainGoto, HaltInv
  <2>2. ~started => UNCHANGED vars
    BY <1>2, <1>7 DEF CleanUpGrabbing, MainGoto, HaltInv, Halting, StopProcess
  <2>3. ServerOK'
    BY <1>2, <1>7 DEF CleanUpGrabbing, MainGoto, ServerOK
  <2>4. HaltInv'
    BY <1>2, <1>3, <1>7, <2>1, <2>2 DEF CleanUpGrabbing, MainGoto, HaltInv
  <2>5. KillInv'
    BY <1>2, <1>3, <1>7, <2>2 DEF CleanUpGrabbing, MainGoto, KillInv
  <2>6. QED
    BY <2>3, <2>4, <2>5
<1>8. CASE Proceed(Main) /\ UNCHANGED <<server, started>>
  BY <1>8, MainAssumption, ThreadIsQuiet
<1>9. CASE MainStep
  BY <1>5, <1>6, <1>7, <1>8, <1>9 DEF MainStep
<1>10. CASE LLVS
  <2>1. CASE LLVSThread
    <3>1. m_State' = m_State /\ \A t \in Threads : pc'[t] = pc[t]
      BY <1>2, <2>1, LoopStartsNothing DEF LLVSThread
    <3>2. Starting' = Starting
      BY <3>1 DEF Starting
    <3>3. QED
      BY <1>2, <2>1, <3>1, <3>2, MainAssumption, QuietStep DEF LLVSThread, HaltInv
  <2>2. CASE LLVSThreadBegins \/ LLVSThreadExits
    <3>1. ServerOK'
      BY <1>2, <2>2 DEF LLVSThreadBegins, LLVSThreadExits, ServerOK
    <3>2. HaltInv' /\ KillInv'
      BY <1>2, <1>3, <2>2 DEF LLVSThreadBegins, LLVSThreadExits, HaltInv, KillInv
    <3>3. QED
      BY <3>1, <3>2
  <2>3. QED
    BY <1>10, <2>1, <2>2 DEF LLVS
<1>11. ASSUME NEW t \in Threads \ {Main}, Starts(t) PROVE ServerOK' /\ HaltInv' /\ KillInv'
  <2>1. sigints \in Nat /\ started' = (started \/ sigints > 0) /\ UNCHANGED server
    BY <1>2, <1>11, MainAssumption DEF ServerOK, Starts
  <2>2. ServerOK'
    BY <1>2, <2>1 DEF server, ServerOK
  <2>3. HaltInv'
    BY <1>2, <2>1 DEF server, HaltInv
  <2>4. KillInv'
    BY <1>2, <2>1 DEF server, HaltInv, KillInv
  <2>5. QED
    BY <2>2, <2>3, <2>4
<1>12. CASE Clients
  BY <1>11, <1>12, ThreadIsQuiet DEF Clients, Calls, Proceeds
<1>13. CASE Frames
  <2>1. UNCHANGED <<server, started, pc, m_State>>
    BY <1>13 DEF Frames, FrameArrives, process
  <2>2. Starting' = Starting
    BY <2>1 DEF Starting
  <2>3. QED
    BY <1>2, <2>1, <2>2, QuietStep DEF HaltInv
<1>14. CASE UNCHANGED allVars
  <2>1. UNCHANGED <<server, started, pc, m_State>>
    BY <1>14 DEF allVars, vars, process
  <2>2. Starting' = Starting
    BY <2>1 DEF Starting
  <2>3. QED
    BY <1>2, <2>1, <2>2, QuietStep DEF HaltInv
<1>15. QED
  BY <1>4, <1>9, <1>10, <1>12, <1>13, <1>14 DEF ServerNext

(* The same for the whole server, until its shutdown is done.              *)
THEOREM ServerInvariance == ServerSpec => []ServerInv
BY ServerInvInit, ServerInvStep, PTL DEF ServerSpec

(* Types of the server's own variables, with the grabber's.                *)
THEOREM ServerTypeCorrect == ServerSpec => []ServerTypeOK
<1>1. ServerInv => ServerTypeOK
  BY InvType DEF ServerInv, ServerOK, ServerTypeOK
<1>2. QED
  BY ServerInvariance, <1>1, PTL

(* Main never waits for the device's mutex after the LLVS thread has died  *)
(* with it: when pthread_kill strikes, main's stop is over, and with no    *)
(* start since the SIGINT the clean-up finds nothing to stop.              *)
THEOREM ShutdownNotOrphaned == ServerSpec => []MainNeverOrphaned
<1>1. ServerInv => MainNeverOrphaned
  BY DEF ServerInv, KillInv, MainNeverOrphaned
<1>2. QED
  BY ServerInvariance, <1>1, PTL

-----------------------------------------------------------------------------
(* One client: the cameras and their frames while no start overlaps a stop *)
(* and none the shutdown.                                                  *)

StopPCs == {"off", "off_locked", "free", "free_locked", "stopped"}

Quiet == OneClient /\ ~started

(* A start has the grabber to itself.                                      *)
Orderly ==
  \A t, u \in Threads :
    pc[t] \in StartPCs =>
      /\ m_State = "STARTING" /\ pc[u] \notin StopPCs
      /\ pc[u] \in StartPCs => u = t

(* Main starts nothing and stops only after a SIGINT.                      *)
MainInv ==
  /\ pc[Main] \notin StartPCs
  /\ pc[Main] \in StopPCs => sigints > 0

(* A grabber that is stopping has a thread that stops it.                  *)
StopperInv == m_State = "STOPPING" => \E t \in Threads : pc[t] \in StopPCs

Idle(c) == c \notin capture /\ c \notin transmission /\ handle[c] # "open"

(* StopBoard leaves the cameras behind it idle, all of them when it empties *)
(* the vector, which stays empty until a start opens the board again.      *)
BoardInv ==
  /\ nbCameras = 0 => \A c \in Cameras : Idle(c)
  /\ m_State = "STOPPED" => nbCameras = 0
  /\ \A t \in Threads :
       /\ pc[t] \in {"setup", "on", "on_locked"} => nbCameras = NbCameras
       /\ pc[t] \in {"free", "free_locked"} => \A c \in Cameras : c < cam[t] => Idle(c)
       /\ pc[t] = "stopped" => nbCameras = 0

(* The loop has the only frame that is out, of a camera that captures.     *)
FramesInv ==
  \A c \in Cameras : out[c] > 0 =>
    /\ c \in capture
    /\ out[c] = 1 /\ cam[Loop] = c /\ m_VideoFrames[c] = "frame"
    /\ pc[Loop] \in {"convert", "relock", "enqueue"}

QuietInv == MainInv /\ (Quiet => Orderly /\ StopperInv /\ BoardInv /\ FramesInv)

-----------------------------------------------------------------------------
(* What the steps do to the cameras, on the grabber alone.                 *)

(* A thread's step from one place to another.                              *)
LEMMA ThreadMovesAlone ==
  ASSUME IInv, NEW t \in Threads, NEW from, NEW to \in CallPCs, Goto(t, from, to),
         UNCHANGED cam \/ \E c \in 1 .. NbCameras + 1 : cam' = [cam EXCEPT ![t] = c]
  PROVE  /\ pc[t] = from /\ pc'[t] = to
         /\ \A u \in Threads \ {t} : pc'[u] = pc[u] /\ cam'[u] = cam[u]
         /\ Undisturbed
<1>1. PlacesOK /\ CamOK
  BY DEF IInv
<1>2. /\ pc[t] = from /\ pc'[t] = to /\ pc'[Loop] = pc[Loop]
      /\ \A u \in Threads \ {t} : pc'[u] = pc[u]
  BY <1>1, ThreadGoes DEF Goto
<1>3. cam'[Loop] = cam[Loop] /\ \A u \in Threads \ {t} : cam'[u] = cam[u]
  BY <1>1, CamGoes
<1>4. QED
  BY <1>2, <1>3 DEF Undisturbed

(* A step that leaves the board alone, and that of the threads at most     *)
(* moves t to a place of which BoardInv says nothing.                      *)
LEMMA BoardLeft ==
  ASSUME BoardInv, NEW t \in Threads,
         UNCHANGED <<nbCameras, handle, capture, transmission>>,
         m_State' # "STOPPED" \/ UNCHANGED m_State,
         \A u \in Threads \ {t} : pc'[u] = pc[u] /\ cam'[u] = cam[u],
         \/ pc'[t] \notin {"setup", "on", "on_locked", "free", "free_locked", "stopped"}
         \/ pc'[t] = pc[t] /\ cam'[t] = cam[t]
  PROVE  BoardInv'
BY DEF BoardInv, Idle

(* A step that leaves the frames alone.                                    *)
LEMMA FramesLeft ==
  ASSUME FramesInv, Undisturbed, UNCHANGED <<out, m_VideoFrames>>,
         \A c \in Cameras : c \in capture => c \in capture'
  PROVE  FramesInv'
BY DEF FramesInv, Undisturbed

(* capture_stop of a camera.                                               *)
LEMMA StopCaptureLeaves ==
  ASSUME IInv, FramesInv, Undisturbed, NEW c \in Cameras, StopCapture(c)
  PROVE  /\ FramesInv'
         /\ c \notin capture' /\ c \notin transmission'
         /\ capture' \subseteq capture /\ transmission' \subseteq transmission
<1>1. DriverOK
  BY DEF IInv
<1>2. /\ out'[c] = 0
      /\ \A d \in Cameras \ {c} :
           /\ out'[d] = out[d] /\ m_VideoFrames'[d] = m_VideoFrames[d]
           /\ d \in capture => d \in capture'
  BY <1>1 DEF StopCapture, DriverOK
<1>3. FramesInv'
  BY <1>2 DEF FramesInv, Undisturbed
<1>4. QED
  BY <1>3 DEF StopCapture

(* The loop dequeues a frame when none is out and gives it back.           *)
LEMMA LoopKeepsFrames ==
  ASSUME IInv, BoardInv, FramesInv, GetImageFromFrameGrabber
  PROVE  BoardInv' /\ FramesInv'
<1>1. PlacesOK /\ CamOK /\ DriverOK /\ cam[Loop] \in Cameras
  BY DEF IInv, CamOK
<1>2. m_State' = m_State /\ \A t \in Threads : pc'[t] = pc[t]
  BY LoopStartsNothing
<1>3. \A t \in Threads : cam'[t] = cam[t]
  <2>1. CASE NextCamera
    BY <1>1, <2>1, LoopGoesOn
  <2>2. CASE ~NextCamera
    BY <2>2 DEF GetImageFromFrameGrabber, BeginGrab, NotDue, GetCameraId, ReadStatus, LockDevice,
                Dequeue, DequeueFails, Convert, Enqueue
  <2>3. QED
    BY <2>1, <2>2
<1>4. UNCHANGED <<nbCameras, handle, capture, transmission>>
  BY DEF GetImageFromFrameGrabber, BeginGrab, NotDue, GetCameraId, ReadStatus, LockDevice,
         Dequeue, DequeueFails, Convert, Enqueue, driver
<1>5. BoardInv'
  BY <1>2, <1>3, <1>4 DEF BoardInv, Idle
<1> SUFFICES FramesInv'
  BY <1>5
<1>6. CASE BeginGrab \/ NotDue \/ GetCameraId \/ ReadStatus \/ LockDevice(Loop, "lock", "dequeue")
           \/ DequeueFails
  <2>1. pc[Loop] \notin {"convert", "relock", "enqueue"} /\ UNCHANGED out
    BY <1>6 DEF BeginGrab, NotDue, GetCameraId, ReadStatus, LockDevice, DequeueFails, Goto, driver
  <2>2. QED
    BY <2>1 DEF FramesInv
<1>7. CASE Dequeue
  <2>1. \A c \in Cameras : ~(out[c] > 0)
    BY <1>7 DEF Dequeue, Goto, FramesInv
  <2>2. \A c \in Cameras : out[c] = 0
    BY <1>1, <2>1 DEF DriverOK
  <2>3. /\ out'[cam[Loop]] = 1 /\ m_VideoFrames'[cam[Loop]] = "frame" /\ cam[Loop] \in capture
        /\ \A c \in Cameras \ {cam[Loop]} : out'[c] = 0
    BY <1>1, <1>7, <2>2 DEF Dequeue, DriverOK
  <2>4. pc'[Loop] = "convert" /\ cam'[Loop] = cam[Loop]
    BY <1>1, <1>7 DEF Dequeue, Goto, PlacesOK
  <2>5. QED
    BY <1>4, <2>3, <2>4 DEF FramesInv
<1>8. CASE Convert
  <2>1. UNCHANGED <<out, m_VideoFrames>> /\ pc[Loop] = "convert"
    BY <1>8 DEF Convert, driver, Goto
  <2>2. CASE m_VideoFrames[cam[Loop]] # "null"
    <3>1. pc'[Loop] = "relock" /\ cam'[Loop] = cam[Loop]
      BY <1>1, <1>8, <2>2 DEF Convert, Goto, PlacesOK
    <3>2. QED
      BY <1>4, <2>1, <3>1 DEF FramesInv
  <2>3. CASE m_VideoFrames[cam[Loop]] = "null"
    BY <2>1, <2>3 DEF FramesInv
  <2>4. QED
    BY <2>2, <2>3
<1>9. CASE LockDevice(Loop, "relock", "enqueue")
  <2>1. pc[Loop] = "relock" /\ pc'[Loop] = "enqueue" /\ UNCHANGED <<cam, out, m_VideoFrames>>
    BY <1>1, <1>9 DEF LockDevice, Goto, driver, PlacesOK
  <2>2. QED
    BY <1>4, <2>1 DEF FramesInv
<1>10. CASE Enqueue
  <2>1. \A c \in Cameras \ {cam[Loop]} : ~(out[c] > 0) /\ out'[c] = out[c]
    BY <1>1, <1>10 DEF Enqueue, FramesInv, DriverOK
  <2>2. ~(out'[cam[Loop]] > 0)
    BY <1>1, <1>10 DEF Enqueue, FramesInv, DriverOK
  <2>3. QED
    BY <2>1, <2>2 DEF FramesInv
<1>11. QED
  BY <1>6, <1>7, <1>8, <1>9, <1>10 DEF GetImageFromFrameGrabber

(* A start has no stop beside it, and a stop leaves a camera behind it     *)
(* idle at each of its steps.                                              *)
LEMMA ThreadKeepsFrames ==
  ASSUME IInv, Orderly, BoardInv, FramesInv, NEW t \in Threads, Proceed(t)
  PROVE  BoardInv' /\ FramesInv'
<1>1. CamOK /\ DriverOK /\ cam[t] \in Nat \ {0} /\ 1 \in 1 .. NbCameras + 1
  BY GrabberAssumption DEF IInv, CamOK
<1>2. pc[t] \in {"on_locked", "off_locked", "free_locked"} =>
        cam[t] \in Cameras /\ cam[t] + 1 \in 1 .. NbCameras + 1
  BY GrabberAssumption DEF IInv, CameraInv, Cameras
<1> USE DEF CallPCs
<1>3. CASE OpenCameras(t)
  <2>1. /\ pc[t] = "start" /\ pc'[t] = "setup" /\ Undisturbed
        /\ \A u \in Threads \ {t} : pc'[u] = pc[u] /\ cam'[u] = cam[u]
    BY <1>3, ThreadMovesAlone DEF OpenCameras
  <2>2. /\ m_State = "STARTING" /\ m_State' = m_State /\ NbCameras # 0 /\ nbCameras' = NbCameras
        /\ \A u \in Threads : pc[u] \notin StopPCs
    BY <1>3, <2>1, GrabberAssumption DEF OpenCameras, Orderly, StartPCs, process
  <2>3. BoardInv'
    BY <2>1, <2>2 DEF BoardInv, StopPCs
  <2>4. \A c \in Cameras : out[c] > 0 => m_VideoFrames' = m_VideoFrames
    BY <1>3 DEF OpenCameras, BoardInv, FramesInv, Idle
  <2>5. FramesInv'
    BY <1>3, <2>1, <2>4 DEF OpenCameras, FramesInv, Undisturbed
  <2>6. QED
    BY <2>3, <2>5
<1>4. CASE AlreadyStarted(t) \/ ShotStarted(t) \/ Started(t)
  <2>1. /\ pc[t] \in StartPCs /\ pc'[t] \in {"started", "idle"} /\ Undisturbed
        /\ \A u \in Threads \ {t} : pc'[u] = pc[u] /\ cam'[u] = cam[u]
    <3>1. CASE AlreadyStarted(t)
      BY <3>1, ThreadMovesAlone DEF AlreadyStarted, StartPCs
    <3>2. CASE ShotStarted(t)
      BY <3>2, ThreadMovesAlone DEF ShotStarted, StartPCs
    <3>3. CASE Started(t)
      BY <1>1, <3>3, ThreadMovesAlone DEF Started, StartPCs
    <3>4. QED
      BY <1>4, <3>1, <3>2, <3>3
  <2>2. UNCHANGED <<nbCameras, handle, capture, transmission, out, m_VideoFrames>>
    BY <1>4 DEF AlreadyStarted, ShotStarted, Started, driver
  <2>3. m_State' # "STOPPED" \/ UNCHANGED m_State
    BY <1>4 DEF AlreadyStarted, ShotStarted, Started, process
  <2>4. BoardInv'
    BY <2>1, <2>2, <2>3, BoardLeft
  <2>5. FramesInv'
    BY <2>1, <2>2, FramesLeft
  <2>6. QED
    BY <2>4, <2>5
<1>5. CASE InitializationFails(t) \/ SetUpCaptures(t)
  <2>1. /\ pc[t] = "setup" /\ pc'[t] \in {"on", "idle"} /\ Undisturbed
        /\ \A u \in Threads \ {t} : pc'[u] = pc[u] /\ cam'[u] = cam[u]
    <3>1. CASE InitializationFails(t)
      BY <3>1, ThreadMovesAlone DEF InitializationFails
    <3>2. CASE SetUpCaptures(t)
      BY <1>1, <3>2, ThreadMovesAlone DEF SetUpCaptures
    <3>3. QED
      BY <1>5, <3>1, <3>2
  <2>2. /\ m_State = "STARTING" /\ NbCameras # 0 /\ nbCameras = NbCameras
        /\ \A u \in Threads : pc[u] \notin StopPCs
    BY <2>1, GrabberAssumption DEF Orderly, StartPCs, BoardInv
  <2>3. /\ UNCHANGED <<m_State, nbCameras, out, m_VideoFrames>>
        /\ \A c \in Cameras : c \in capture => c \in capture'
    BY <1>5 DEF InitializationFails, SetUpCaptures, process
  <2>4. BoardInv'
    BY <2>1, <2>2, <2>3 DEF BoardInv, StopPCs
  <2>5. FramesInv'
    BY <2>1, <2>3, FramesLeft
  <2>6. QED
    BY <2>4, <2>5
<1>6. CASE TransmissionOn(t)
  <2>1. pc[t] = "on_locked"
    BY <1>6 DEF TransmissionOn, Goto
  <2>2. /\ pc'[t] = "on" /\ Undisturbed
        /\ \A u \in Threads \ {t} : pc'[u] = pc[u] /\ cam'[u] = cam[u]
    BY <1>2, <1>6, <2>1, ThreadMovesAlone DEF TransmissionOn
  <2>3. /\ m_State = "STARTING" /\ NbCameras # 0 /\ nbCameras = NbCameras
        /\ \A u \in Threads : pc[u] \notin StopPCs
    BY <2>1, GrabberAssumption DEF Orderly, StartPCs, BoardInv
  <2>4. UNCHANGED <<m_State, nbCameras, capture, out, m_VideoFrames>>
    BY <1>6 DEF TransmissionOn, process
  <2>5. BoardInv'
    BY <2>1, <2>2, <2>3, <2>4 DEF BoardInv, StopPCs
  <2>6. FramesInv'
    BY <2>2, <2>4, FramesLeft
  <2>7. QED
    BY <2>5, <2>6
<1>7. CASE TransmissionOff(t) \/ FreeCamera(t)
  <2>1. pc[t] \in {"off_locked", "free_locked"} /\ cam[t] \in Cameras
    BY <1>2, <1>7 DEF TransmissionOff, FreeCamera, Goto
  <2>2. /\ Undisturbed
        /\ \A u \in Threads \ {t} : pc'[u] = pc[u] /\ cam'[u] = cam[u]
        /\ \/ pc'[t] = "off"
           \/ pc[t] = "free_locked" /\ pc'[t] = "free"
    <3>1. CASE TransmissionOff(t)
      BY <1>2, <2>1, <3>1, ThreadMovesAlone DEF TransmissionOff
    <3>2. CASE FreeCamera(t)
      BY <1>2, <2>1, <3>2, ThreadMovesAlone DEF FreeCamera
    <3>3. QED
      BY <1>7, <3>1, <3>2
  <2>3. cam'[t] = cam[t] + 1 /\ UNCHANGED <<m_State, nbCameras>> /\ StopCapture(cam[t])
    BY <1>1, <1>7 DEF TransmissionOff, FreeCamera, CamOK, process
  <2>4. \A c \in Cameras : Idle(c) => Idle(c)'
    BY <1>1, <1>7 DEF TransmissionOff, FreeCamera, StopCapture, Idle, DriverOK
  <2>5. ASSUME pc'[t] = "free", NEW c \in Cameras, c = cam[t] PROVE Idle(c)'
    <3>1. FreeCamera(t)
      <4>1. TransmissionOff(t) => pc'[t] = "off"
        BY ThreadGoes DEF TransmissionOff, Goto, IInv
      <4>2. QED
        BY <1>7, <2>5, <4>1
    <3>2. QED
      BY <1>1, <2>5, <3>1 DEF FreeCamera, StopCapture, Idle, DriverOK
  <2>6. \A c \in Cameras : c \in Nat
    BY GrabberAssumption DEF Cameras
  <2>7. pc'[t] = "free" => \A c \in Cameras : c < cam'[t] => Idle(c)'
    <3> SUFFICES ASSUME pc'[t] = "free", NEW c \in Cameras, c < cam'[t] PROVE Idle(c)'
      OBVIOUS
    <3>1. c < cam[t] \/ c = cam[t]
      BY <1>1, <2>3, <2>6
    <3>2. c < cam[t] => Idle(c)
      BY <2>2 DEF BoardInv
    <3>3. QED
      BY <2>4, <2>5, <3>1, <3>2
  <2>8. BoardInv'
    <3>1. (nbCameras = 0 => \A c \in Cameras : Idle(c))'
      BY <2>3, <2>4 DEF BoardInv
    <3>2. (m_State = "STOPPED" => nbCameras = 0)'
      BY <2>3 DEF BoardInv
    <3>3. ASSUME NEW u \in Threads
          PROVE  (/\ pc[u] \in {"setup", "on", "on_locked"} => nbCameras = NbCameras
                  /\ pc[u] \in {"free", "free_locked"} => \A c \in Cameras : c < cam[u] => Idle(c)
                  /\ pc[u] = "stopped" => nbCameras = 0)'
      <4>1. CASE u = t
        BY <2>2, <2>7, <4>1
      <4>2. CASE u # t
        BY <2>2, <2>3, <2>4, <4>2 DEF BoardInv
      <4>3. QED
        BY <4>1, <4>2
    <3>4. QED
      BY <3>1, <3>2, <3>3 DEF BoardInv
  <2>9. FramesInv'
    BY <2>1, <2>2, <2>3, StopCaptureLeaves
  <2>10. QED
    BY <2>8, <2>9
<1>8. CASE ShotStopped(t)
  <2>1. /\ pc'[t] = "free" /\ Undisturbed
        /\ \A u \in Threads \ {t} : pc'[u] = pc[u] /\ cam'[u] = cam[u]
    BY <1>1, <1>8, ThreadMovesAlone DEF ShotStopped
  <2>2. cam'[t] = 1 /\ \A c \in Cameras : ~(c < 1)
    BY <1>1, <1>8, GrabberAssumption DEF ShotStopped, CamOK, Cameras
  <2>3. UNCHANGED <<m_State, nbCameras, handle, capture, transmission, out, m_VideoFrames>>
    BY <1>8 DEF ShotStopped, process, driver
  <2>4. BoardInv'
    BY <2>1, <2>2, <2>3 DEF BoardInv, Idle
  <2>5. FramesInv'
    BY <2>1, <2>3, FramesLeft
  <2>6. QED
    BY <2>4, <2>5
<1>9. CASE CleanMemory(t)
  <2>1. /\ pc[t] = "free" /\ pc'[t] = "stopped" /\ Undisturbed
        /\ \A u \in Threads \ {t} : pc'[u] = pc[u] /\ cam'[u] = cam[u]
    BY <1>1, <1>9, ThreadMovesAlone DEF CleanMemory
  <2>2. UNCHANGED <<m_State, handle, capture, transmission, out, m_VideoFrames>> /\ nbCameras' = 0
    BY <1>9 DEF CleanMemory, process, driver
  <2>3. \A u \in Threads : pc[u] \notin StartPCs
    BY <2>1 DEF Orderly, StopPCs
  <2>4. \A c \in Cameras : Idle(c)
    <3>1. CASE nbCameras = 0
      BY <3>1 DEF BoardInv
    <3>2. CASE nbCameras = NbCameras
      <4>1. \A c \in Cameras : c < cam[t]
        BY <1>1, <1>9, <3>2, GrabberAssumption DEF CleanMemory, Cameras
      <4>2. QED
        BY <2>1, <4>1 DEF BoardInv
    <3>3. QED
      BY <1>1, <3>1, <3>2 DEF DriverOK
  <2>5. BoardInv'
    BY <2>1, <2>2, <2>3, <2>4 DEF BoardInv, Idle, StartPCs
  <2>6. FramesInv'
    BY <2>1, <2>2, FramesLeft
  <2>7. QED
    BY <2>5, <2>6
<1>10. CASE Stopped(t)
  <2>1. /\ pc[t] = "stopped" /\ pc'[t] = "idle" /\ Undisturbed
        /\ \A u \in Threads \ {t} : pc'[u] = pc[u] /\ cam'[u] = cam[u]
    BY <1>10, ThreadMovesAlone DEF Stopped
  <2>2. UNCHANGED <<nbCameras, handle, capture, transmission, out, m_VideoFrames>>
    BY <1>10 DEF Stopped, driver
  <2>3. BoardInv'
    BY <2>1, <2>2 DEF BoardInv, Idle
  <2>4. FramesInv'
    BY <2>1, <2>2, FramesLeft
  <2>5. QED
    BY <2>3, <2>4
<1>11. CASE LockNextCamera(t)
  <2>1. PICK from \in {"on", "off", "free"}, to \in {"on_locked", "off_locked", "free_locked"} :
          /\ LockDevice(t, from, to)
          /\ from = "on" <=> to = "on_locked"
          /\ from = "free" <=> to = "free_locked"
    BY <1>11, Zenon DEF LockNextCamera
  <2>2. /\ pc[t] = from /\ pc'[t] = to /\ Undisturbed
        /\ \A u \in Threads \ {t} : pc'[u] = pc[u]
    BY <2>1, ThreadMovesAlone DEF LockDevice
  <2>3. UNCHANGED <<m_State, nbCameras, handle, capture, transmission, out, m_VideoFrames, cam>>
    BY <2>1 DEF LockDevice, process, driver
  <2>4. BoardInv'
    BY <2>1, <2>2, <2>3 DEF BoardInv, Idle
  <2>5. FramesInv'
    BY <2>2, <2>3, FramesLeft
  <2>6. QED
    BY <2>4, <2>5
<1>12. CASE GetReturns(t) \/ SetReturns(t)
  <2>1. /\ pc'[t] \in {"get_locked", "idle"} /\ Undisturbed
        /\ \A u \in Threads \ {t} : pc'[u] = pc[u] /\ cam'[u] = cam[u]
    <3>1. CASE LockDevice(t, "get", "get_locked")
      BY <3>1, ThreadMovesAlone DEF LockDevice
    <3>2. CASE Goto(t, "get_locked", "idle") /\ cam' = [cam EXCEPT ![t] = 1]
      BY <1>1, <3>2, ThreadMovesAlone
    <3>3. CASE SetReturns(t)
      BY <1>1, <3>3, ThreadMovesAlone DEF SetReturns
    <3>4. QED
      BY <1>12, <3>1, <3>2, <3>3 DEF GetReturns
  <2>2. UNCHANGED <<m_State, nbCameras, handle, capture, transmission, out, m_VideoFrames>>
    BY <1>12 DEF GetReturns, SetReturns, LockDevice, process, driver
  <2>3. BoardInv'
    BY <2>1, <2>2, BoardLeft
  <2>4. FramesInv'
    BY <2>1, <2>2, FramesLeft
  <2>5. QED
    BY <2>3, <2>4
<1>13. QED
  BY <1>3, <1>4, <1>5, <1>6, <1>7, <1>8, <1>9, <1>10, <1>11, <1>12 DEF Proceed

LEMMA CallKeepsFrames ==
  ASSUME IInv, BoardInv, FramesInv, NEW t \in Threads,
         \/ StartProcess(t) \/ StopProcess(t)
         \/ GetCameraFeatureValue(t) \/ SetCameraFeatureValue(t)
  PROVE  BoardInv' /\ FramesInv'
<1>1. 1 \in 1 .. NbCameras + 1 /\ \A c \in Cameras : c \in 1 .. NbCameras + 1
  BY GrabberAssumption DEF Cameras
<1> USE DEF CallPCs
<1>2. /\ pc'[t] \in {"start", "off", "get", "set"} /\ Undisturbed
      /\ \A u \in Threads \ {t} : pc'[u] = pc[u] /\ cam'[u] = cam[u]
  <2>1. CASE StartProcess(t)
    BY <2>1, ThreadMovesAlone DEF StartProcess
  <2>2. CASE StopProcess(t)
    BY <1>1, <2>2, ThreadMovesAlone DEF StopProcess
  <2>3. CASE GetCameraFeatureValue(t)
    BY <1>1, <2>3, ThreadMovesAlone DEF GetCameraFeatureValue
  <2>4. CASE SetCameraFeatureValue(t)
    BY <1>1, <2>4, ThreadMovesAlone DEF SetCameraFeatureValue
  <2>5. QED
    BY <2>1, <2>2, <2>3, <2>4
<1>3. /\ UNCHANGED <<nbCameras, handle, capture, transmission, out, m_VideoFrames>>
      /\ m_State' # "STOPPED" \/ UNCHANGED m_State
  BY DEF StartProcess, StopProcess, GetCameraFeatureValue, SetCameraFeatureValue, driver, process
<1>4. QED
  BY <1>2, <1>3, BoardLeft, FramesLeft

-----------------------------------------------------------------------------
(* No start overlaps a stop.                                               *)

(* A call goes on as a start, as a stop or as neither, until it returns.   *)
LEMMA ProceedCalls ==
  ASSUME IInv, NEW t \in Threads, Proceed(t)
  PROVE  /\ \A u \in Threads \ {t} : pc'[u] = pc[u]
         /\ \/ /\ pc[t] \in StartPCs
               /\ \/ pc'[t] \in StartPCs /\ m_State' = m_State
                  \/ pc'[t] = "idle" /\ m_State' \in {m_State, "STARTED"}
            \/ /\ pc[t] \in StopPCs
               /\ \/ pc'[t] \in StopPCs /\ m_State' = m_State
                  \/ pc'[t] = "idle" /\ m_State' = "STOPPED"
            \/ /\ pc[t] \notin StartPCs \cup StopPCs /\ pc'[t] \notin StartPCs \cup StopPCs
               /\ m_State' = m_State
<1>1. PlacesOK
  BY DEF IInv
<1> USE ThreadGoes, <1>1 DEF Goto, CallPCs
<1>2. CASE OpenCameras(t) \/ AlreadyStarted(t) \/ SetUpCaptures(t) \/ TransmissionOn(t)
           \/ ShotStarted(t)
  <2>1. PICK to \in StartPCs : pc[t] \in StartPCs /\ pc' = [pc EXCEPT ![t] = to]
    BY <1>2 DEF OpenCameras, AlreadyStarted, SetUpCaptures, TransmissionOn, ShotStarted, StartPCs
  <2>2. m_State' = m_State
    BY <1>2 DEF OpenCameras, AlreadyStarted, SetUpCaptures, TransmissionOn, ShotStarted, process
  <2>3. QED
    BY <2>1, <2>2 DEF StartPCs
<1>3. CASE InitializationFails(t) \/ Started(t)
  <2>1. pc[t] \in StartPCs /\ pc' = [pc EXCEPT ![t] = "idle"]
    BY <1>3 DEF InitializationFails, Started, StartPCs
  <2>2. m_State' \in {m_State, "STARTED"}
    BY <1>3 DEF InitializationFails, Started, process
  <2>3. QED
    BY <2>1, <2>2
<1>4. CASE TransmissionOff(t) \/ ShotStopped(t) \/ FreeCamera(t) \/ CleanMemory(t)
  <2>1. PICK to \in StopPCs : pc[t] \in StopPCs /\ pc' = [pc EXCEPT ![t] = to]
    BY <1>4 DEF TransmissionOff, ShotStopped, FreeCamera, CleanMemory, StopPCs
  <2>2. m_State' = m_State
    BY <1>4 DEF TransmissionOff, ShotStopped, FreeCamera, CleanMemory, process
  <2>3. QED
    BY <2>1, <2>2 DEF StopPCs
<1>5. CASE Stopped(t)
  <2>1. pc[t] \in StopPCs /\ pc' = [pc EXCEPT ![t] = "idle"] /\ m_State' = "STOPPED"
    BY <1>5 DEF Stopped, StopPCs
  <2>2. QED
    BY <2>1
<1>6. CASE LockNextCamera(t)
  <2>1. m_State' = m_State
    BY <1>6 DEF LockNextCamera, LockDevice, process
  <2>2. CASE LockDevice(t, "on", "on_locked")
    BY <2>1, <2>2 DEF LockDevice, StartPCs
  <2>3. CASE LockDevice(t, "off", "off_locked") \/ LockDevice(t, "free", "free_locked")
    BY <2>1, <2>3 DEF LockDevice, StopPCs
  <2>4. QED
    BY <1>6, <2>2, <2>3 DEF LockNextCamera
<1>7. CASE GetReturns(t) \/ SetReturns(t)
  <2>1. PICK to \in {"get_locked", "idle"} :
          pc[t] \in {"get", "get_locked", "set"} /\ pc' = [pc EXCEPT ![t] = to]
    BY <1>7 DEF GetReturns, SetReturns, LockDevice
  <2>2. m_State' = m_State
    BY <1>7 DEF GetReturns, SetReturns, LockDevice, process
  <2>3. QED
    BY <2>1, <2>2 DEF StartPCs, StopPCs
<1>8. QED
  BY <1>2, <1>3, <1>4, <1>5, <1>6, <1>7 DEF Proceed

LEMMA ProceedIsOrderly ==
  ASSUME IInv, Orderly, StopperInv, NEW t \in Threads, Proceed(t)
  PROVE  Orderly' /\ StopperInv'
<1>1. \A u \in Threads \ {t} : pc'[u] = pc[u]
  BY ProceedCalls
<1>2. CASE /\ pc[t] \in StartPCs
           /\ \/ pc'[t] \in StartPCs /\ m_State' = m_State
              \/ pc'[t] = "idle" /\ m_State' \in {m_State, "STARTED"}
  BY <1>1, <1>2 DEF Orderly, StopperInv, StartPCs, StopPCs
<1>3. CASE /\ pc[t] \in StopPCs
           /\ \/ pc'[t] \in StopPCs /\ m_State' = m_State
              \/ pc'[t] = "idle" /\ m_State' = "STOPPED"
  BY <1>1, <1>3 DEF Orderly, StopperInv, StartPCs, StopPCs
<1>4. CASE /\ pc[t] \notin StartPCs \cup StopPCs /\ pc'[t] \notin StartPCs \cup StopPCs
           /\ m_State' = m_State
  BY <1>1, <1>4 DEF Orderly, StopperInv
<1>5. QED
  BY <1>2, <1>3, <1>4, ProceedCalls

(* A stop is called while no start is under way, a start while no call is; *)
(* the features are read and set at any time.                              *)
LEMMA CallIsOrderly ==
  ASSUME IInv, Orderly, StopperInv, NEW t \in Threads,
         \/ StopProcess(t) /\ \A u \in Threads \ {t} : pc[u] \notin StartPCs
         \/ StartProcess(t) /\ \A u \in Threads \ {t} : pc[u] \notin StartPCs \cup StopPCs
         \/ GetCameraFeatureValue(t) \/ SetCameraFeatureValue(t)
  PROVE  Orderly' /\ StopperInv'
<1>1. PlacesOK
  BY DEF IInv
<1> USE ThreadGoes, <1>1 DEF Goto, CallPCs
<1>2. CASE StopProcess(t) /\ \A u \in Threads \ {t} : pc[u] \notin StartPCs
  <2>1. pc'[t] = "off" /\ \A u \in Threads \ {t} : pc'[u] = pc[u]
    BY <1>2 DEF StopProcess
  <2>2. QED
    BY <1>2, <2>1 DEF Orderly, StopperInv, StartPCs, StopPCs
<1>3. CASE StartProcess(t) /\ \A u \in Threads \ {t} : pc[u] \notin StartPCs \cup StopPCs
  <2>1. /\ pc'[t] = "start" /\ m_State' = "STARTING"
        /\ \A u \in Threads \ {t} : pc'[u] = pc[u]
    BY <1>3 DEF StartProcess
  <2>2. QED
    BY <1>3, <2>1 DEF Orderly, StopperInv, StartPCs, StopPCs
<1>4. CASE GetCameraFeatureValue(t) \/ SetCameraFeatureValue(t)
  <2>1. PICK to \in {"get", "set"} : pc[t] = "idle" /\ pc' = [pc EXCEPT ![t] = to]
    BY <1>4 DEF GetCameraFeatureValue, SetCameraFeatureValue
  <2>2. pc'[t] \in {"get", "set"} /\ \A u \in Threads \ {t} : pc'[u] = pc[u]
    BY <2>1
  <2>3. m_State' = m_State
    BY <1>4 DEF GetCameraFeatureValue, SetCameraFeatureValue, process
  <2>4. /\ pc[t] \notin StartPCs \cup StopPCs /\ pc'[t] \notin StartPCs \cup StopPCs
        /\ \A u \in Threads : u = t \/ pc'[u] = pc[u]
    BY <2>1, <2>2 DEF StartPCs, StopPCs
  <2>5. Orderly' /\ StopperInv'
    BY <2>3, <2>4 DEF Orderly, StopperInv
  <2>6. QED
    BY <2>5
<1>5. QED
  BY <1>2, <1>3, <1>4

-----------------------------------------------------------------------------
(* The invariant of the server with one client.                            *)

LEMMA QuietInvInit == ServerInit => QuietInv
<1> SUFFICES ASSUME ServerInit PROVE QuietInv
  OBVIOUS
<1>1. /\ nbCameras = NbCameras /\ m_State = "INITIALIZED"
      /\ \A c \in Cameras : out[c] = 0
      /\ \A t \in Threads : pc[t] = "idle"
  BY DEF ServerInit, Init
<1>2. NbCameras # 0 /\ Main \in Threads
  BY GrabberAssumption, MainAssumption
<1>3. MainInv /\ Orderly /\ StopperInv
  BY <1>1, <1>2 DEF MainInv, Orderly, StopperInv, StartPCs, StopPCs
<1>4. BoardInv
  BY <1>1, <1>2 DEF BoardInv
<1>5. FramesInv
  BY <1>1 DEF FramesInv
<1>6. QED
  BY <1>3, <1>4, <1>5 DEF QuietInv

(* A step of the server that is none of the grabber.                       *)
LEMMA ServerAlone ==
  ASSUME ServerInv, QuietInv, UNCHANGED vars, sigints' \in {sigints, sigints + 1},
         started => started'
  PROVE  QuietInv'
<1>1. sigints \in Nat
  BY MainAssumption DEF ServerInv, ServerOK
<1>2. /\ UNCHANGED <<pc, cam, m_State, nbCameras, handle, capture, transmission, out>>
      /\ UNCHANGED m_VideoFrames
  BY DEF vars, process, driver
<1>3. MainInv'
  BY <1>1, <1>2 DEF QuietInv, MainInv
<1>4. Quiet' => Quiet
  BY DEF Quiet, OneClient
<1>5. Orderly /\ StopperInv /\ BoardInv /\ FramesInv =>
        Orderly' /\ StopperInv' /\ BoardInv' /\ FramesInv'
  BY <1>2 DEF Orderly, StopperInv, BoardInv, FramesInv, Idle
<1>6. QED
  BY <1>3, <1>4, <1>5 DEF QuietInv

(* A step of the grabber's loop or of a camera.                            *)
LEMMA GrabberAlone ==
  ASSUME ServerInv, QuietInv, UNCHANGED <<server, started>>,
         GetImageFromFrameGrabber \/ \E c \in Cameras : FrameArrives(c)
  PROVE  QuietInv'
<1>1. IInv
  BY DEF ServerInv
<1>2. m_State' = m_State /\ \A t \in Threads : pc'[t] = pc[t]
  <2>1. CASE GetImageFromFrameGrabber
    BY <1>1, <2>1, LoopStartsNothing
  <2>2. CASE \E c \in Cameras : FrameArrives(c)
    BY <2>2 DEF FrameArrives, process
  <2>3. QED
    BY <2>1, <2>2
<1>3. MainInv'
  BY <1>2, MainAssumption DEF QuietInv, MainInv, server
<1>4. Orderly /\ StopperInv => Orderly' /\ StopperInv'
  BY <1>2 DEF Orderly, StopperInv
<1>5. ASSUME BoardInv, FramesInv PROVE BoardInv' /\ FramesInv'
  <2>1. CASE GetImageFromFrameGrabber
    BY <1>1, <1>5, <2>1, LoopKeepsFrames
  <2>2. CASE \E c \in Cameras : FrameArrives(c)
    <3>1. /\ UNCHANGED <<pc, cam, m_State, nbCameras, handle, capture, transmission, out>>
          /\ UNCHANGED m_VideoFrames
      BY <2>2 DEF FrameArrives, process
    <3>2. QED
      BY <1>5, <3>1 DEF BoardInv, FramesInv, Idle
  <2>3. QED
    BY <2>1, <2>2
<1>6. Quiet' => Quiet
  BY DEF Quiet, OneClient
<1>7. QED
  BY <1>3, <1>4, <1>5, <1>6 DEF QuietInv

(* A call under way goes on.                                               *)
LEMMA ProceedIsQuiet ==
  ASSUME ServerInv, QuietInv, UNCHANGED <<server, started>>, NEW t \in Threads, Proceed(t)
  PROVE  QuietInv'
<1>1. IInv
  BY DEF ServerInv
<1>2. MainInv'
  <2>1. pc'[Main] \in StartPCs => pc[Main] \in StartPCs
    BY <1>1, ProceedCalls, MainAssumption DEF StartPCs, StopPCs
  <2>2. pc'[Main] \in StopPCs => pc[Main] \in StopPCs
    BY <1>1, ProceedCalls, MainAssumption DEF StartPCs, StopPCs
  <2>3. QED
    BY <2>1, <2>2 DEF QuietInv, MainInv, server
<1>3. Quiet' => Quiet
  BY DEF Quiet, OneClient
<1>4. Quiet => Orderly' /\ StopperInv' /\ BoardInv' /\ FramesInv'
  BY <1>1, ProceedIsOrderly, ThreadKeepsFrames DEF QuietInv
<1>5. QED
  BY <1>2, <1>3, <1>4 DEF QuietInv

(* The calls of the client: its start finds main in no stop, its stop finds *)
(* no start, as main makes none.                                           *)
LEMMA ClientIsQuiet ==
  ASSUME ServerInv, QuietInv, NEW t \in Threads \ {Main}, Starts(t) \/ Calls(t)
  PROVE  QuietInv'
<1>1. /\ IInv /\ sigints \in Nat /\ sigints' = sigints
      /\ ~started' => ~started /\ (Starts(t) => ~(sigints > 0))
  <2>1. IInv /\ sigints \in Nat /\ sigints' = sigints
    BY MainAssumption DEF ServerInv, ServerOK, Starts, Calls, server
  <2>2. CASE Starts(t)
    <3>1. started' = (started \/ sigints > 0)
      BY <2>2 DEF Starts
    <3>2. QED
      BY <2>1, <3>1, Zenon
  <2>3. CASE Calls(t) /\ ~Starts(t)
    <3>1. started' = started
      BY <2>3 DEF Calls
    <3>2. QED
      BY <2>1, <2>3, <3>1, Zenon
  <2>4. QED
    BY <2>1, <2>2, <2>3
<1>2. \A u \in Threads \ {t} : pc'[u] = pc[u]
  BY <1>1, ThreadGoes
     DEF IInv, Starts, Calls, StartProcess, StopProcess, GetCameraFeatureValue,
         SetCameraFeatureValue, Goto, CallPCs
<1>3. MainInv'
  BY <1>1, <1>2, MainAssumption DEF QuietInv, MainInv
<1>4. ASSUME Quiet' PROVE Quiet /\ (Starts(t) => ~(sigints > 0))
  BY <1>1, <1>4 DEF Quiet, OneClient
<1>5. ASSUME Quiet' PROVE \A u \in Threads \ {t} : u = Main /\ pc[u] \notin StartPCs
  BY <1>4, <1>5 DEF Quiet, OneClient, QuietInv, MainInv
<1>6. ASSUME Quiet' PROVE Orderly' /\ StopperInv'
  <2>1. CASE Starts(t)
    <3>1. \A u \in Threads \ {t} : pc[u] \notin StartPCs \cup StopPCs
      BY <1>1, <1>4, <1>5, <1>6, <2>1 DEF QuietInv, MainInv
    <3>2. QED
      BY <1>1, <1>4, <1>6, <2>1, <3>1, CallIsOrderly DEF QuietInv, Starts
  <2>2. CASE Calls(t)
    BY <1>1, <1>4, <1>5, <1>6, <2>2, CallIsOrderly DEF QuietInv, Calls
  <2>3. QED
    BY <2>1, <2>2
<1>7. ASSUME Quiet' PROVE BoardInv' /\ FramesInv'
  BY <1>1, <1>4, <1>7, CallKeepsFrames DEF QuietInv, Starts, Calls
<1>8. QED
  BY <1>3, <1>6, <1>7 DEF QuietInv

(* Main's stops: after a SIGINT no start is under way.                     *)
LEMMA MainStopIsQuiet ==
  ASSUME ServerInv, QuietInv, StopProcess(Main), sigints > 0, UNCHANGED <<sigints, started>>
  PROVE  QuietInv'
<1>1. IInv /\ Main \in Threads
  BY MainAssumption DEF ServerInv
<1>2. MainInv'
  BY <1>1, ThreadGoes DEF IInv, StopProcess, Goto, CallPCs, MainInv, StartPCs
<1>3. Quiet' => Quiet
  BY DEF Quiet, OneClient
<1>4. ASSUME Quiet PROVE Orderly' /\ StopperInv' /\ BoardInv' /\ FramesInv'
  <2>1. \A u \in Threads : pc[u] \notin StartPCs
    BY <1>4, StartingIs DEF ServerInv, HaltInv, Quiet
  <2>2. QED
    BY <1>1, <1>4, <2>1, CallIsOrderly, CallKeepsFrames DEF QuietInv
<1>5. QED
  BY <1>2, <1>3, <1>4 DEF QuietInv

LEMMA QuietInvStep == ServerInv /\ QuietInv /\ [ServerNext]_allVars => QuietInv'
<1> SUFFICES ASSUME ServerInv, QuietInv, [ServerNext]_allVars PROVE QuietInv'
  OBVIOUS
<1>1. CASE SIGINT_handler
  BY <1>1, ServerAlone DEF SIGINT_handler
<1>2. CASE LockExit \/ UnlockExit \/ KillThread \/ JoinThread \/ Exit
  BY <1>2, ServerAlone DEF LockExit, UnlockExit, KillThread, JoinThread, Exit
<1>3. CASE StopMainProcess \/ CleanUpGrabbing
  <2>1. sigints > 0 /\ UNCHANGED <<sigints, started>>
    BY <1>3 DEF ServerInv, HaltInv, StopMainProcess, CleanUpGrabbing, MainGoto
  <2>2. CASE StopProcess(Main)
    BY <2>1, <2>2, MainStopIsQuiet
  <2>3. CASE UNCHANGED vars
    BY <2>1, <2>3, ServerAlone
  <2>4. QED
    BY <1>3, <2>2, <2>3 DEF StopMainProcess, CleanUpGrabbing
<1>4. CASE MainStep
  BY <1>2, <1>3, <1>4, MainAssumption, ProceedIsQuiet DEF MainStep
<1>5. CASE LLVS
  <2>1. CASE LLVSThread
    BY <2>1, GrabberAlone DEF LLVSThread
  <2>2. CASE LLVSThreadBegins \/ LLVSThreadExits
    BY <2>2, ServerAlone DEF LLVSThreadBegins, LLVSThreadExits
  <2>3. QED
    BY <1>5, <2>1, <2>2 DEF LLVS
<1>6. CASE Clients
  BY <1>6, ClientIsQuiet, ProceedIsQuiet DEF Clients, Proceeds
<1>7. CASE Frames
  BY <1>7, GrabberAlone DEF Frames
<1>8. CASE UNCHANGED allVars
  BY <1>8, ServerAlone DEF allVars, server
<1>9. QED
  BY <1>1, <1>4, <1>5, <1>6, <1>7, <1>8 DEF ServerNext

(* With one client of the grabber, its frames and its cameras are          *)
(* accounted for in every state of the server.                             *)
THEOREM QuietInvariance == ServerSpec => []QuietInv
BY QuietInvInit, QuietInvStep, ServerInvariance, PTL DEF ServerSpec

(* With one client the loop gives back every frame it dequeues, of any     *)
(* number of cameras and however the client and main stop the grabber      *)
(* meanwhile, unless a start overlaps the shutdown.                        *)
THEOREM NoFrameLost == ServerSpec => []NoBufferLost
<1>1. QuietInv => NoBufferLost
  BY DEF QuietInv, Quiet, FramesInv, NoBufferLost
<1>2. QED
  BY QuietInvariance, <1>1, PTL

(* With one client a normal exit leaves every camera of the bus released   *)
(* and silent, unless the client starts the grabber during the shutdown or *)
(* is itself in the middle of a stop.                                      *)
THEOREM CamerasReleased == ServerSpec => []ExitReleasesCameras
<1>1. ServerInv /\ QuietInv => ExitReleasesCameras
  <2> SUFFICES ASSUME ServerInv, QuietInv, OneClient, mainpc = "exited", ~started,
                      \A t \in Threads : pc[t] \notin {"off", "off_locked", "free", "free_locked"}
               PROVE  (\A c \in Cameras : handle[c] # "open") /\ transmission = {}
    BY DEF ExitReleasesCameras
  <2>1. m_State \in Halting /\ Orderly /\ StopperInv /\ BoardInv
    BY DEF ServerInv, HaltInv, QuietInv, Quiet
  <2>2. nbCameras = 0
    BY <2>1 DEF Halting, StopperInv, BoardInv, StopPCs
  <2>3. transmission \subseteq Cameras
    BY DEF ServerInv, IInv, DriverOK
  <2>4. \A c \in Cameras : c \notin transmission /\ handle[c] # "open"
    BY <2>1, <2>2 DEF BoardInv, Idle
  <2>5. QED
    BY <2>3, <2>4
<1>2. QED
  BY ServerInvariance, QuietInvariance, <1>1, PTL

-----------------------------------------------------------------------------
(* The profiles (BoardSpec).                                               *)

(* A profile as a file may hold it, in either format.                      *)
GUIDsKnown == UNION {ToSet(b) : b \in Buses} \cup {"absent"}
WellFormed(p) ==
  /\ p \in Seq(Entry)
  /\ \A i, j \in DOMAIN p : i # j => p[i].guid # p[j].guid /\ p[i].semantic # p[j].semantic

(* The lists that were read and what the map has of the last of them.      *)
ListsInv ==
  /\ m_VisionSystemProfiles \in Seq({p \in Seq(Entry) : WellFormed(p)})
  /\ m_DC1394Cameras \in Seq(GUIDsKnown) /\ bus \in Buses
  /\ m_CurrentVisionSystemProfileID \in 0 .. Len(m_VisionSystemProfiles)
  /\ lastRead \in 0 .. Len(m_VisionSystemProfiles)
MapInv ==
  lastRead # 0 =>
    LET p == m_VisionSystemProfiles[lastRead] IN
    \A i \in DOMAIN p : m_MapFromSemanticToRealCamera[p[i].semantic] = i

(* What a start that succeeded has set up, and no call changes before the  *)
(* next stop: the cameras are those of the profile in a list that had all  *)
(* of the bus, with their periods and features.                            *)
SetUp ==
  /\ m_CurrentVisionSystemProfileID # 0
  /\ \E found : /\ OnBus(Current) \subseteq found
                /\ m_DC1394Cameras = Selected(GUIDs(Current), found)
  /\ \A i \in 1 .. 4 : i <= Len(m_DC1394Cameras) /\ Current[i].fps # 60 =>
       m_GrabbingPeriod[i] = Current[i].fps
  /\ Complete /\ lastRead = m_CurrentVisionSystemProfileID =>
       \A i \in DOMAIN Current : initializedBy[Current[i].semantic] = Current[i].guid

ProfilesInv == ListsInv /\ MapInv /\ (boardState = "started" => SetUp)

(* There is a semantic for each entry, and there are four.                 *)
LEMMA FourEntries ==
  ASSUME NEW p, WellFormed(p)
  PROVE  Len(p) <= 4
<1> DEFINE semantic == [i \in 1 .. Len(p) |-> p[i].semantic]
<1>1. Len(p) \in Nat /\ DOMAIN p = 1 .. Len(p) /\ \A i \in 1 .. Len(p) : p[i].semantic \in 0 .. 3
  <2>1. Len(p) \in Nat /\ DOMAIN p = 1 .. Len(p) /\ \A i \in 1 .. Len(p) : p[i] \in Entry
    BY DEF WellFormed
  <2>2. \A e \in Entry : e.semantic \in 0 .. 3
    BY DEF Entry, RobotSemantics
  <2> QED
    BY <2>1, <2>2
<1>2. PICK m \in Nat : m = 3
  OBVIOUS
<1>3. semantic \in Injection(1 .. Len(p), 0 .. m)
  <2>1. semantic \in [1 .. Len(p) -> 0 .. m]
    BY <1>1, <1>2
  <2>2. \A i, j \in 1 .. Len(p) : p[i].semantic = p[j].semantic => i = j
    BY <1>1 DEF WellFormed
  <2> QED
    BY <2>1, <2>2 DEF Injection, IsInjective
<1>4. Cardinality(1 .. Len(p)) <= m + 1
  <2>1. IsFiniteSet(0 .. m) /\ Cardinality(0 .. m) = m + 1
    BY FS_Interval
  <2> HIDE DEF semantic
  <2> QED
    BY <1>3, <2>1, FS_Injection
<1> QED
  BY <1>1, <1>2, <1>4, UpTo

(* A profile read in the older format is one of four entries too.          *)
LEMMA OlderFormat ==
  ASSUME NEW p, WellFormed(p)
  PROVE  WellFormed(InVVVFormat(p))
<1>1. p \in Seq(Entry) /\ DOMAIN p = 1 .. Len(p) /\ Len(p) \in Nat /\ Len(p) <= 4
  BY FourEntries DEF WellFormed
<1>2. ASSUME NEW i \in DOMAIN p
      PROVE  LET e == [p[i] EXCEPT !.semantic = i - 1] IN
             e \in Entry /\ e.guid = p[i].guid /\ e.semantic = i - 1
  <2>1. p[i] \in Entry
    BY <1>1
  <2>2. PICK g \in UNION {ToSet(b) : b \in Buses} \cup {"absent"} : \E s \in 0 .. 3 :
          \E f \in {60, 30, 15} : p[i] = [guid |-> g, semantic |-> s, fps |-> f]
    BY <2>1 DEF Entry, RobotSemantics
  <2>3. PICK s \in 0 .. 3 : \E f \in {60, 30, 15} : p[i] = [guid |-> g, semantic |-> s, fps |-> f]
    BY <2>2
  <2>4. PICK f \in {60, 30, 15} : p[i] = [guid |-> g, semantic |-> s, fps |-> f]
    BY <2>3
  <2>5. [p[i] EXCEPT !.semantic = i - 1] = [guid |-> g, semantic |-> i - 1, fps |-> f]
    BY <2>4
  <2>6. i - 1 \in 0 .. 3
    BY <1>1
  <2> QED
    BY <2>4, <2>5, <2>6 DEF Entry, RobotSemantics
<1>3. InVVVFormat(p) \in [1 .. Len(p) -> Entry]
  BY <1>1, <1>2 DEF InVVVFormat
<1>4. InVVVFormat(p) \in Seq(Entry) /\ DOMAIN InVVVFormat(p) = DOMAIN p
  BY <1>1, <1>3
<1>5. \A i \in DOMAIN p : InVVVFormat(p)[i].guid = p[i].guid /\ InVVVFormat(p)[i].semantic = i - 1
  BY <1>2 DEF InVVVFormat
<1>6. \A i, j \in DOMAIN p : i # j => /\ InVVVFormat(p)[i].guid # InVVVFormat(p)[j].guid
                                     /\ InVVVFormat(p)[i].semantic # InVVVFormat(p)[j].semantic
  <2> TAKE i, j \in DOMAIN p
  <2>1. i # j => p[i].guid # p[j].guid /\ i - 1 # j - 1
    BY <1>1 DEF WellFormed
  <2> QED
    BY <1>5, <2>1
<1> QED
  BY <1>4, <1>6 DEF WellFormed

(* The list of a profile's cameras.                                        *)
LEMMA ListOfNames ==
  ASSUME NEW p, WellFormed(p)
  PROVE  GUIDs(p) \in Seq(GUIDsKnown) /\ Len(GUIDs(p)) = Len(p) /\ DOMAIN GUIDs(p) = DOMAIN p
<1>1. p \in Seq(Entry) /\ DOMAIN p = 1 .. Len(p) /\ Len(p) \in Nat
  BY DEF WellFormed
<1>2. \A i \in DOMAIN p : p[i].guid \in GUIDsKnown
  <2>1. \A i \in DOMAIN p : p[i] \in Entry
    BY <1>1
  <2>2. \A e \in Entry : e.guid \in GUIDsKnown
    BY DEF Entry, GUIDsKnown
  <2> QED
    BY <2>1, <2>2
<1>3. GUIDs(p) \in [1 .. Len(p) -> GUIDsKnown]
  BY <1>1, <1>2 DEF GUIDs
<1> QED
  BY <1>1, <1>3

(* The cameras a profile keeps of some that were found: each once, in the  *)
(* profile's order, and if none is missing at the numbers of its entries.  *)
LEMMA CamerasOfProfile ==
  ASSUME NEW p, WellFormed(p), NEW found, NEW kept, kept = Selected(GUIDs(p), found)
  PROVE  /\ kept \in Seq(GUIDsKnown) /\ IsInjective(kept)
         /\ ToSet(kept) = ToSet(GUIDs(p)) \cap found
         /\ \A i, j \in DOMAIN kept : \A k, l \in DOMAIN p :
              i < j /\ p[k].guid = kept[i] /\ p[l].guid = kept[j] => k < l
         /\ ToSet(GUIDs(p)) \subseteq found => kept = GUIDs(p)
<1> DEFINE places == PlacesOf(GUIDs(p), found)
           n == Cardinality(places)
<1>1. p \in Seq(Entry) /\ DOMAIN p = 1 .. Len(p) /\ Len(p) \in Nat
  BY DEF WellFormed
<1>3. GUIDs(p) \in Seq(GUIDsKnown) /\ Len(GUIDs(p)) = Len(p) /\ DOMAIN GUIDs(p) = DOMAIN p
  BY ListOfNames
<1>4. \A i, j \in DOMAIN p : p[i].guid = p[j].guid => i = j
  BY DEF WellFormed
<1>5. /\ places \in SUBSET Nat /\ IsFiniteSet(places) /\ kept \in Seq(GUIDsKnown) /\ Len(kept) = n
      /\ \A k \in DOMAIN kept : InOrder(places)[k] \in places /\ kept[k] = GUIDs(p)[InOrder(places)[k]]
      /\ ToSet(kept) = ToSet(GUIDs(p)) \cap found
  BY <1>3, PartOfSequence
<1>6. places \subseteq DOMAIN p /\ DOMAIN kept = 1 .. n
  BY <1>3, <1>5 DEF PlacesOf
<1> HIDE DEF places
<1>7. \A k, l \in 1 .. n : k < l => InOrder(places)[k] < InOrder(places)[l]
  BY <1>5, OrderOfNumbers
<1>8. \A k \in 1 .. n : /\ InOrder(places)[k] \in DOMAIN p
                        /\ kept[k] = p[InOrder(places)[k]].guid
  BY <1>5, <1>6 DEF GUIDs
<1>9. n \in Nat
  BY <1>5, FS_CardinalityType
<1> HIDE DEF n
<1>10. \A k \in 1 .. n : InOrder(places)[k] \in Nat
  BY <1>1, <1>8
<1>11. ASSUME NEW i \in 1 .. n, NEW j \in 1 .. n, kept[i] = kept[j] PROVE i = j
  <2>1. InOrder(places)[i] = InOrder(places)[j]
    BY <1>4, <1>8, <1>11
  <2> QED
    BY <1>7, <1>9, <1>10, <2>1
<1>12. ASSUME NEW i \in 1 .. n, NEW j \in 1 .. n, NEW k \in DOMAIN p, NEW l \in DOMAIN p,
              i < j, p[k].guid = kept[i], p[l].guid = kept[j]
       PROVE  k < l
  <2>1. k = InOrder(places)[i] /\ l = InOrder(places)[j]
    BY <1>4, <1>8, <1>12
  <2> QED
    BY <1>7, <1>12, <2>1
<1>13. ASSUME ToSet(GUIDs(p)) \subseteq found PROVE kept = GUIDs(p)
  <2>1. places = 1 .. Len(p)
    BY <1>1, <1>3, <1>13 DEF places, PlacesOf, ToSet
  <2>2. InOrder(places) = [k \in 1 .. Len(p) |-> k]
    BY <1>1, <2>1, WholeInOrder
  <2>3. n = Len(p)
    BY <1>1, <2>1, FS_Interval DEF n
  <2>4. \A k \in 1 .. Len(p) : kept[k] = GUIDs(p)[k]
    BY <1>5, <1>6, <2>2, <2>3
  <2> QED
    BY <1>3, <1>5, <2>3, <2>4
<1> QED
  BY <1>5, <1>6, <1>11, <1>12, <1>13 DEF IsInjective

(* The score of a profile is the number of its cameras on the bus, as long *)
(* as none is listed twice, on either side.                                *)
LEMMA ScoreCountsCameras ==
  ASSUME NEW p, WellFormed(p),
         NEW C, NEW cams \in Seq(C), IsInjective(cams)
  PROVE  /\ Score(p, cams) = Cardinality(Present(p, cams))
         /\ Score(p, cams) \in 0 .. Len(cams)
<1> DEFINE pairs == {jk \in (DOMAIN p) \X (DOMAIN cams) : p[jk[1]].guid = cams[jk[2]]}
           places == 1 .. Len(cams)
           place == [jk \in pairs |-> jk[2]]
           camera == [jk \in pairs |-> cams[jk[2]]]
<1>1. DOMAIN cams = places /\ Len(cams) \in Nat
  OBVIOUS
<1>2. \A jk, lm \in pairs : jk[2] = lm[2] => jk = lm
  <2> SUFFICES ASSUME NEW jk \in pairs, NEW lm \in pairs, jk[2] = lm[2] PROVE jk = lm
    OBVIOUS
  <2>1. p[jk[1]].guid = p[lm[1]].guid /\ jk[1] \in DOMAIN p /\ lm[1] \in DOMAIN p
    OBVIOUS
  <2>2. jk[1] = lm[1]
    BY <2>1 DEF WellFormed
  <2> QED
    BY <2>2
<1>3. place \in Injection(pairs, places)
  <2>1. place \in [pairs -> places]
    BY <1>1
  <2> QED
    BY <1>2, <2>1 DEF Injection, IsInjective
<1>4. IsFiniteSet(places) /\ Cardinality(places) = Len(cams)
  BY <1>1, UpTo
<1>5. IsFiniteSet(pairs) /\ Cardinality(pairs) <= Len(cams)
  <2> HIDE DEF pairs, places, place
  <2> QED
    BY <1>3, <1>4, FS_Injection
<1>6. Cardinality(pairs) \in Nat
  BY <1>5, FS_CardinalityType
<1>7. camera \in Bijection(pairs, Present(p, cams))
  <2>1. ASSUME NEW jk \in pairs PROVE cams[jk[2]] \in Present(p, cams)
    BY DEF Present, ToSet
  <2>2. ASSUME NEW c \in Present(p, cams) PROVE \E jk \in pairs : cams[jk[2]] = c
    <3>1. PICK i \in DOMAIN p : p[i].guid = c
      BY DEF Present
    <3>2. PICK k \in DOMAIN cams : cams[k] = c
      BY DEF Present, ToSet
    <3>3. <<i, k>> \in pairs /\ cams[<<i, k>>[2]] = c
      BY <3>1, <3>2
    <3> QED
      BY <3>3
  <2>3. \A jk, lm \in pairs : cams[jk[2]] = cams[lm[2]] => jk = lm
    BY <1>2 DEF IsInjective
  <2> HIDE DEF pairs
  <2> QED
    BY <2>1, <2>2, <2>3 DEF Bijection, Injection, Surjection, IsInjective
<1>8. Cardinality(Present(p, cams)) = Cardinality(pairs)
  <2> HIDE DEF pairs, camera
  <2> QED
    BY <1>5, <1>7, FS_Bijection DEF ExistsBijection
<1> QED
  BY <1>5, <1>6, <1>8, <1>1 DEF Score

(* There is a best candidate unless all scores are 0.                      *)
LEMMA BestCandidateWins ==
  ASSUME NEW B \in Nat, NEW scores, DOMAIN scores \subseteq Nat,
         \A i \in DOMAIN scores : scores[i] \in 0 .. B
  PROVE  \/ /\ BestCandidate(scores) \in DOMAIN scores
            /\ \A i \in DOMAIN scores : scores[i] <= scores[BestCandidate(scores)]
         \/ /\ BestCandidate(scores) = 0
            /\ \A i \in DOMAIN scores : scores[i] = 0
<1> DEFINE best == {i \in DOMAIN scores : /\ scores[i] > 0
                                          /\ \A j \in DOMAIN scores : scores[j] <= scores[i]}
           tops == {m \in Nat : \A i \in DOMAIN scores : scores[i] <= m}
<1>1. tops \subseteq Nat /\ tops # {}
  BY B \in tops
<1>2. PICK m \in tops : \A k \in tops : m <= k
  BY <1>1, LeastNumber
<1>3. CASE m = 0
  <2>1. \A i \in DOMAIN scores : scores[i] = 0
    BY <1>2, <1>3
  <2>2. best = {}
    BY <2>1
  <2> QED
    BY <2>1, <2>2 DEF BestCandidate
<1>4. CASE m # 0
  <2>1. m - 1 \in Nat /\ m - 1 \notin tops
    BY <1>2, <1>4
  <2>2. PICK i \in DOMAIN scores : ~(scores[i] <= m - 1)
    BY <2>1
  <2>3. scores[i] = m /\ i \in best
    BY <1>2, <1>4, <2>1, <2>2
  <2>4. best \subseteq Nat /\ best # {}
    BY <2>3
  <2> HIDE DEF best
  <2>5. PICK k \in best : \A j \in best : k <= j
    BY <2>4, LeastNumber
  <2>6. BestCandidate(scores) = CHOOSE k1 \in best : \A j \in best : k1 <= j
    BY <2>4 DEF BestCandidate, best
  <2>7. BestCandidate(scores) \in best
    BY <2>5, <2>6
  <2> QED
    BY <2>7 DEF best
<1> QED
  BY <1>3, <1>4

(* A candidate is one of the profiles, or none.                            *)
LEMMA CandidateIsOne ==
  ASSUME NEW scores, DOMAIN scores \subseteq Nat
  PROVE  BestCandidate(scores) \in DOMAIN scores \/ BestCandidate(scores) = 0
<1> DEFINE best == {i \in DOMAIN scores : /\ scores[i] > 0
                                          /\ \A j \in DOMAIN scores : scores[j] <= scores[i]}
<1>1. best \subseteq DOMAIN scores /\ best \subseteq Nat
  OBVIOUS
<1>2. BestCandidate(scores) = IF best = {} THEN 0 ELSE CHOOSE i \in best : \A j \in best : i <= j
  BY DEF BestCandidate
<1> HIDE DEF best
<1>3. best # {} => \E i \in best : \A j \in best : i <= j
  BY <1>1, LeastNumber
<1> QED
  BY <1>1, <1>2, <1>3

(* What an entry names, and the cameras of a profile among others.         *)
LEMMA NamesOfEntries ==
  ASSUME NEW p, WellFormed(p), NEW list
  PROVE  /\ Present(p, list) = ToSet(GUIDs(p)) \cap ToSet(list)
         /\ {p[i].guid : i \in DOMAIN p} = ToSet(GUIDs(p))
  BY DEF Present, GUIDs, ToSet

LEMMA BoardStart == BoardInit => ProfilesInv
<1> SUFFICES ASSUME BoardInit PROVE ProfilesInv
  OBVIOUS
<1>1. m_VisionSystemProfiles = <<>> /\ m_DC1394Cameras = <<>> /\ lastRead = 0 /\ boardState = "constructing"
  BY DEF BoardInit
<1>2. ListsInv
  BY <1>1 DEF BoardInit, ListsInv
<1> QED
  BY <1>1, <1>2 DEF ProfilesInv, MapInv

(* Reading a profile moves none of those read before, and the map then     *)
(* has the new one or what it had.                                         *)
LEMMA ReadingHolds ==
  ASSUME ProfilesInv, NEW q, WellFormed(q),
         m_VisionSystemProfiles' = Append(m_VisionSystemProfiles, q),
         UNCHANGED <<boardState, bus, boardVars>>,
         \/ UNCHANGED <<m_MapFromSemanticToRealCamera, lastRead>>
         \/ /\ m_MapFromSemanticToRealCamera' = MapAfterReading(q, m_MapFromSemanticToRealCamera)
            /\ lastRead' = Len(m_VisionSystemProfiles) + 1
  PROVE  ProfilesInv'
<1> DEFINE profiles == m_VisionSystemProfiles
           All == {p \in Seq(Entry) : WellFormed(p)}
<1>0. q \in All
  BY DEF WellFormed
<1> HIDE DEF All
<1>1. profiles \in Seq(All) /\ Len(profiles) \in Nat /\ DOMAIN profiles = 1 .. Len(profiles)
  BY DEF ProfilesInv, ListsInv, All
<1>2. /\ profiles' \in Seq(All) /\ Len(profiles') = Len(profiles) + 1
      /\ profiles'[Len(profiles) + 1] = q
      /\ \A i \in 1 .. Len(profiles) : profiles'[i] = profiles[i]
  BY <1>0, <1>1, AppendProperties
<1> HIDE DEF profiles
<1>3. /\ m_CurrentVisionSystemProfileID \in 0 .. Len(profiles) /\ lastRead \in 0 .. Len(profiles)
      /\ m_CurrentVisionSystemProfileID' = m_CurrentVisionSystemProfileID
      /\ lastRead' \in 0 .. Len(profiles) + 1
  BY <1>1 DEF ProfilesInv, ListsInv, boardVars, profiles
<1>4. ListsInv'
  BY <1>1, <1>2, <1>3 DEF ProfilesInv, ListsInv, boardVars, profiles, All
<1>5. MapInv'
  <2>1. CASE UNCHANGED <<m_MapFromSemanticToRealCamera, lastRead>>
    <3>1. lastRead # 0 => profiles'[lastRead] = profiles[lastRead]
      BY <1>2, <1>3
    <3> QED
      BY <2>1, <3>1 DEF ProfilesInv, MapInv, profiles
  <2>2. CASE /\ m_MapFromSemanticToRealCamera' = MapAfterReading(q, m_MapFromSemanticToRealCamera)
             /\ lastRead' = Len(profiles) + 1
    <3>1. ASSUME NEW i \in DOMAIN q PROVE m_MapFromSemanticToRealCamera'[q[i].semantic] = i
      <4>1. q[i].semantic \in RobotSemantics
        <5>1. q[i] \in Entry
          BY DEF WellFormed
        <5> QED
          BY <5>1 DEF Entry
      <4>2. \A j \in DOMAIN q : q[j].semantic = q[i].semantic => j = i
        BY DEF WellFormed
      <4>3. (CHOOSE j \in DOMAIN q : q[j].semantic = q[i].semantic) = i
        BY <4>2
      <4> QED
        BY <2>2, <4>1, <4>3 DEF MapAfterReading
    <3>2. profiles'[lastRead'] = q
      BY <1>2, <2>2
    <3> QED
      BY <3>1, <3>2 DEF MapInv, profiles
  <2> QED
    BY <2>1, <2>2 DEF profiles
<1>6. ASSUME boardState' = "started" PROVE SetUp'
  <2>1. SetUp /\ boardState = "started"
    BY <1>6 DEF ProfilesInv, boardVars
  <2>2. Current' = Current
    BY <1>2, <1>3, <2>1 DEF Current, SetUp, profiles
  <2>3. lastRead' = m_CurrentVisionSystemProfileID' => lastRead = m_CurrentVisionSystemProfileID
    BY <1>1, <1>3 DEF profiles
  <2>4. Complete' = Complete /\ OnBus(Current)' = OnBus(Current)
    BY <2>2 DEF Complete, OnBus, boardVars
  <2> HIDE DEF profiles
  <2> QED
    BY <2>1, <2>2, <2>3, <2>4 DEF SetUp, boardVars
<1> QED
  BY <1>4, <1>5, <1>6 DEF ProfilesInv

(* The cameras a profile keeps of those that were found have all of its    *)
(* own that are on the bus.                                                *)
LEMMA NoneForgotten ==
  ASSUME NEW p, WellFormed(p), NEW found \in Seq(GUIDsKnown)
  PROVE  ToSet(GUIDs(p)) \cap ToSet(found) \subseteq ToSet(KeptCameras(p, found))
<1>1. ToSet(Selected(found, ToSet(GUIDs(p)))) = ToSet(found) \cap ToSet(GUIDs(p))
  BY PartOfSequence
<1> QED
  BY <1>1 DEF KeptCameras, BusOrder

(* An initialisation of the board that succeeds sets up what SetUp says.   *)
LEMMA SettingUp ==
  ASSUME ProfilesInv, NEW then, NEW otherwise, otherwise # "started", InitializeBoard(then, otherwise)
  PROVE  ProfilesInv'
<1> DEFINE profiles == m_VisionSystemProfiles
           found == m_DC1394Cameras \o bus
           scores == [i \in DOMAIN profiles |-> Score(profiles[i], found)]
           best == BestCandidate(scores)
           current == IF best # 0 THEN best ELSE m_CurrentVisionSystemProfileID
           p == profiles[current]
           kept == KeptCameras(p, found)
           cams == InProfileOrder(p, kept)
           failed == current = 0 \/ Tie(scores, best, current)
           All == {q \in Seq(Entry) : WellFormed(q)}
<1>1. /\ detectedOn' = bus /\ m_CurrentVisionSystemProfileID' = current
      /\ UNCHANGED <<bus, profileVars>>
      /\ failed => m_DC1394Cameras' = found /\ boardState' = otherwise
      /\ ~failed => m_DC1394Cameras' = cams /\ InitializeCameras(p, cams)
  BY DEF InitializeBoard
<1>2. profiles \in Seq(All) /\ DOMAIN profiles = 1 .. Len(profiles) /\ Len(profiles) \in Nat
  BY DEF ProfilesInv, ListsInv
<1>3. found \in Seq(GUIDsKnown) /\ ToSet(bus) \subseteq ToSet(found)
  <2>1. bus \in Seq(GUIDsKnown)
    <3>1. bus \in Seq(ToSet(bus)) /\ ToSet(bus) \subseteq GUIDsKnown
      BY ProfileAssumption DEF ProfilesInv, ListsInv, GUIDsKnown
    <3> QED
      BY <3>1
  <2>2. m_DC1394Cameras \in Seq(GUIDsKnown)
    BY DEF ProfilesInv, ListsInv
  <2>3. /\ found \in Seq(GUIDsKnown) /\ Len(found) = Len(m_DC1394Cameras) + Len(bus)
        /\ \A i \in 1 .. Len(bus) : found[Len(m_DC1394Cameras) + i] = bus[i]
    BY <2>1, <2>2
  <2>4. \A i \in 1 .. Len(bus) : Len(m_DC1394Cameras) + i \in DOMAIN found
    BY <2>1, <2>2, <2>3
  <2> HIDE DEF found
  <2> QED
    BY <2>1, <2>3, <2>4 DEF ToSet
<1>4. current \in 0 .. Len(profiles)
  <2>1. DOMAIN scores = DOMAIN profiles
    OBVIOUS
  <2>2. best \in DOMAIN scores \/ best = 0
    <3> HIDE DEF scores
    <3>1. DOMAIN scores \subseteq Nat
      BY <1>2, <2>1
    <3> QED
      BY <3>1, CandidateIsOne
  <2>3. m_CurrentVisionSystemProfileID \in 0 .. Len(profiles)
    BY DEF ProfilesInv, ListsInv
  <2> HIDE DEF best
  <2> QED
    BY <1>2, <2>1, <2>2, <2>3
<1> HIDE DEF found, scores, best, current, profiles, cams, kept, failed
<1>5. ASSUME ~failed
      PROVE  /\ current # 0 /\ p \in All /\ WellFormed(p)
             /\ cams = Selected(GUIDs(p), ToSet(kept))
             /\ ToSet(GUIDs(p)) \cap ToSet(bus) \subseteq ToSet(kept)
             /\ cams \in Seq(GUIDsKnown)
  <2>1. current # 0
    BY <1>5 DEF failed
  <2>2. p \in All /\ WellFormed(p)
    BY <1>2, <1>4, <2>1
  <2> HIDE DEF p
  <2>3. cams = Selected(GUIDs(p), ToSet(kept))
    BY DEF cams, InProfileOrder
  <2>4. ToSet(GUIDs(p)) \cap ToSet(bus) \subseteq ToSet(kept)
    BY <1>3, <2>2, NoneForgotten DEF kept
  <2>5. cams \in Seq(GUIDsKnown)
    BY <2>2, <2>3, CamerasOfProfile
  <2> QED
    BY <2>1, <2>2, <2>3, <2>4, <2>5
<1>6. ListsInv' /\ MapInv'
  <2>1. m_DC1394Cameras' \in Seq(GUIDsKnown)
    BY <1>1, <1>3, <1>5
  <2> QED
    BY <1>1, <1>4, <2>1 DEF ProfilesInv, ListsInv, MapInv, profileVars, profiles
<1>7. ASSUME boardState' = "started" PROVE SetUp'
  <2>1. ~failed /\ m_DC1394Cameras' = cams /\ InitializeCameras(p, cams)
    BY <1>1, <1>7
  <2>2. Current' = p /\ lastRead' = lastRead
    BY <1>1 DEF Current, profileVars, profiles
  <2> HIDE DEF p
  <2>3. OnBus(Current)' = ToSet(GUIDs(p)) \cap ToSet(bus)
    BY <1>1, <1>5, <2>1, <2>2, NamesOfEntries DEF OnBus
  <2>4. \A i \in 1 .. 4 : i <= Len(cams) /\ p[i].fps # 60 => m_GrabbingPeriod'[i] = p[i].fps
    <3> SUFFICES ASSUME NEW i \in 1 .. 4, i <= Len(cams), p[i].fps # 60
                 PROVE  m_GrabbingPeriod'[i] = p[i].fps
      OBVIOUS
    <3>1. Len(cams) \in Nat /\ Len(cams) <= Len(p) /\ p \in Seq(Entry)
      <4>1. Len(cams) = Cardinality(PlacesOf(GUIDs(p), ToSet(kept)))
        BY <1>5, <2>1, ListOfNames, PartOfSequence
      <4>2. GUIDs(p) \in Seq(GUIDsKnown) /\ Len(GUIDs(p)) = Len(p) /\ Len(p) \in Nat
        BY <1>5, <2>1, ListOfNames DEF WellFormed
      <4>3. PlacesOf(GUIDs(p), ToSet(kept)) \in SUBSET (1 .. Len(p))
        BY <4>2 DEF PlacesOf
      <4>4. IsFiniteSet(1 .. Len(p)) /\ Cardinality(1 .. Len(p)) = Len(p)
        BY <4>2, UpTo
      <4>5. Cardinality(PlacesOf(GUIDs(p), ToSet(kept))) <= Len(p)
        BY <4>3, <4>4, FS_Subset
      <4> QED
        BY <1>5, <2>1, <4>1, <4>5 DEF WellFormed
    <3>2. p[i] \in Entry
      BY <3>1
    <3>3. p[i].fps \in {30, 15}
      BY <3>2 DEF Entry
    <3> QED
      BY <2>1, <3>1, <3>3 DEF InitializeCameras, PeriodsSet, DecideBasicFeatureOnCamera
  <2>5. ASSUME Complete', lastRead' = m_CurrentVisionSystemProfileID', NEW i \in DOMAIN p
        PROVE  initializedBy'[p[i].semantic] = p[i].guid
    <3>1. ToSet(GUIDs(p)) \subseteq ToSet(kept)
      <4>1. ToSet(GUIDs(p)) \cap ToSet(bus) = ToSet(GUIDs(p))
        BY <1>5, <2>1, <2>2, <2>3, <2>5, NamesOfEntries DEF Complete
      <4> QED
        BY <1>5, <2>1, <4>1
    <3>2. cams = GUIDs(p)
      BY <1>5, <2>1, <3>1, CamerasOfProfile
    <3>3. i \in DOMAIN cams /\ cams[i] = p[i].guid
      BY <3>2 DEF GUIDs
    <3>4. m_MapFromSemanticToRealCamera[p[i].semantic] = i
      <4>1. lastRead = current /\ current # 0
        BY <1>1, <1>5, <2>1, <2>2, <2>5
      <4> QED
        BY <4>1 DEF ProfilesInv, MapInv, p, profiles
    <3>5. \E e \in ToSet(p) : e.semantic = p[i].semantic /\ e.guid \in ToSet(cams)
      <4>1. p[i] \in ToSet(p) /\ p[i].guid \in ToSet(cams)
        BY <3>3 DEF ToSet
      <4> QED
        BY <4>1
    <3>6. p[i].semantic \in RobotSemantics
      <4>1. p[i] \in Entry
        BY <1>5, <2>1 DEF WellFormed
      <4> QED
        BY <4>1 DEF Entry
    <3> QED
      BY <2>1, <3>3, <3>4, <3>5, <3>6 DEF InitializeCameras, InitializeCamera
  <2>6. \E set : OnBus(Current)' \subseteq set /\ m_DC1394Cameras' = Selected(GUIDs(p), set)
    BY <1>5, <2>1, <2>3
  <2>7. m_CurrentVisionSystemProfileID' # 0
    BY <1>1, <1>5, <2>1
  <2> QED
    BY <2>1, <2>2, <2>4, <2>5, <2>6, <2>7 DEF SetUp
<1> QED
  BY <1>6, <1>7 DEF ProfilesInv

LEMMA BoardHolds == BoardSpec => []ProfilesInv
<1>1. ASSUME ProfilesInv, [BoardNext]_boardAll PROVE ProfilesInv'
  <2>1. CASE ReadDefaults
    <3>1. PICK p \in Profiles : ReadConfigurationFileVSPFormat(p)
      BY <2>1 DEF ReadDefaults
    <3>2. WellFormed(p)
      BY ProfileAssumption DEF WellFormed
    <3> QED
      BY <1>1, <2>1, <3>1, <3>2, ReadingHolds DEF ReadDefaults, ReadConfigurationFileVSPFormat
  <2>2. CASE pSetParameter
    <3>1. PICK p \in Profiles : \/ ReadConfigurationFileVSPFormat(p)
                                \/ ReadConfigurationFileVVVFormat(p)
      BY <2>2 DEF pSetParameter
    <3>2. WellFormed(p) /\ WellFormed(InVVVFormat(p))
      <4>1. WellFormed(p)
        BY ProfileAssumption DEF WellFormed
      <4> QED
        BY <4>1, OlderFormat
    <3>3. CASE ReadConfigurationFileVSPFormat(p)
      BY <1>1, <2>2, <3>2, <3>3, ReadingHolds DEF pSetParameter, ReadConfigurationFileVSPFormat
    <3>4. CASE ReadConfigurationFileVVVFormat(p)
      BY <1>1, <2>2, <3>2, <3>4, ReadingHolds DEF pSetParameter, ReadConfigurationFileVVVFormat
    <3> QED
      BY <3>1, <3>3, <3>4
  <2>3. CASE Construct
    BY <1>1, <2>3, SettingUp DEF Construct
  <2>4. CASE StartProcess_board
    BY <1>1, <2>4, SettingUp DEF StartProcess_board
  <2>5. CASE StopBoard
    <3>1. <<>> \in Seq(GUIDsKnown)
      OBVIOUS
    <3> QED
      BY <1>1, <2>5, <3>1 DEF StopBoard, ProfilesInv, ListsInv, MapInv, profileVars
  <2>6. CASE Plug \/ (\E f \in {"RGB", "PGM"} : SetFormatOfLeft(f)) \/ UNCHANGED boardAll
    <3>1. bus' \in Buses
      BY <1>1, <2>6 DEF Plug, SetFormatOfLeft, boardAll, ProfilesInv, ListsInv
    <3>2. UNCHANGED <<boardState, profileVars, detectedOn, m_CurrentVisionSystemProfileID,
                      m_DC1394Cameras, m_GrabbingPeriod, initializedBy>>
      BY <2>6 DEF Plug, SetFormatOfLeft, boardAll, boardVars
    <3> QED
      BY <1>1, <3>1, <3>2
         DEF ProfilesInv, ListsInv, MapInv, SetUp, Complete, OnBus, Current, profileVars
  <2> QED
    BY <1>1, <2>1, <2>2, <2>3, <2>4, <2>5, <2>6 DEF BoardNext
<1> QED
  BY <1>1, BoardStart, PTL DEF BoardSpec

(* For any profiles, buses and calls, the server grabs from the cameras of *)
(* its profile, each once and in the profile's order, and finds each where *)
(* the profile says, with its own period and features, if none is missing. *)
THEOREM CamerasRight == BoardSpec => []CamerasOfTheProfile
<1>1. ProfilesInv => CamerasOfTheProfile
  <2> SUFFICES ASSUME ProfilesInv, boardState = "started" PROVE CamerasOfTheProfile
    BY DEF CamerasOfTheProfile, CamerasKept, ImageOfItsCamera
  <2> DEFINE p == Current
             current == m_CurrentVisionSystemProfileID
             cams == m_DC1394Cameras
  <2>1. SetUp
    BY DEF ProfilesInv
  <2>2. WellFormed(p)
    BY <2>1 DEF SetUp, ProfilesInv, ListsInv, Current
  <2>3. PICK found : OnBus(p) \subseteq found /\ cams = Selected(GUIDs(p), found)
    BY <2>1 DEF SetUp
  <2>4. OnBus(p) = ToSet(GUIDs(p)) \cap ToSet(detectedOn)
    BY <2>2, NamesOfEntries DEF OnBus
  <2> HIDE DEF p
  <2>5. /\ cams \in Seq(GUIDsKnown) /\ IsInjective(cams)
        /\ ToSet(cams) = ToSet(GUIDs(p)) \cap found
        /\ \A i, j \in DOMAIN cams : \A k, l \in DOMAIN p :
             i < j /\ p[k].guid = cams[i] /\ p[l].guid = cams[j] => k < l
        /\ ToSet(GUIDs(p)) \subseteq found => cams = GUIDs(p)
    BY <2>2, <2>3, CamerasOfProfile
  <2>6. CamerasKept
    BY <2>3, <2>4, <2>5 DEF CamerasKept, p
  <2>7. ImageOfItsCamera
    <3> SUFFICES ASSUME Complete, NEW e \in ToSet(p)
                 PROVE  /\ e.fps # 60 =>
                             \A i \in DOMAIN cams : cams[i] = e.guid => m_GrabbingPeriod[i] = e.fps
                        /\ lastRead = current =>
                             /\ GetCameraIdOf(e.semantic) # 0
                             /\ cams[GetCameraIdOf(e.semantic)] = e.guid
                             /\ initializedBy[e.semantic] = e.guid
      BY DEF ImageOfItsCamera, p
    <3>1. PICK j \in DOMAIN p : e = p[j]
      BY DEF ToSet
    <3>2. OnBus(p) = ToSet(GUIDs(p))
      BY <2>2, NamesOfEntries DEF Complete, p
    <3>3. cams = GUIDs(p)
      BY <2>3, <2>5, <3>2
    <3>4. /\ p \in Seq(Entry) /\ Len(p) \in Nat /\ DOMAIN p = 1 .. Len(p) /\ Len(p) <= 4
          /\ Len(cams) = Len(p) /\ DOMAIN cams = DOMAIN p
      BY <2>2, <3>3, FourEntries, ListOfNames DEF WellFormed
    <3>5. \A i \in DOMAIN p : cams[i] = p[i].guid
      BY <3>3 DEF GUIDs
    <3>6. ASSUME e.fps # 60, NEW i \in DOMAIN cams, cams[i] = e.guid
          PROVE  m_GrabbingPeriod[i] = e.fps
      <4>1. i = j
        BY <2>2, <3>1, <3>4, <3>5, <3>6 DEF WellFormed
      <4>2. i \in 1 .. 4 /\ i <= Len(cams)
        BY <3>4, <3>6
      <4> QED
        BY <2>1, <3>1, <3>6, <4>1, <4>2 DEF SetUp, p
    <3>7. ASSUME lastRead = current
          PROVE  /\ GetCameraIdOf(e.semantic) # 0
                 /\ cams[GetCameraIdOf(e.semantic)] = e.guid
                 /\ initializedBy[e.semantic] = e.guid
      <4>1. m_MapFromSemanticToRealCamera[p[j].semantic] = j
        BY <2>1, <3>7 DEF ProfilesInv, MapInv, SetUp, Current, p
      <4>2. GetCameraIdOf(e.semantic) = j
        BY <3>1, <3>4, <4>1 DEF GetCameraIdOf
      <4>3. j # 0
        BY <3>4
      <4>4. initializedBy[p[j].semantic] = p[j].guid
        BY <2>1, <3>7 DEF SetUp, p
      <4> QED
        BY <3>1, <3>5, <4>2, <4>3, <4>4
    <3> QED
      BY <3>6, <3>7
  <2> QED
    BY <2>6, <2>7 DEF CamerasOfTheProfile
<1> QED
  BY <1>1, BoardHolds, PTL

(* "The one with the highest number of camera present win": whatever the   *)
(* profiles and the cameras on the bus, a start from an empty list that    *)
(* succeeds has chosen a profile with more cameras on the bus than any     *)
(* other (DetectTheBestVisionSystemProfile refuses a tie).                 *)
THEOREM BestProfileWins == BoardSpec => BestProfileChosen
<1> DEFINE Begins == boardState' = "started" /\ boardState # "started" /\ m_DC1394Cameras = <<>>
           Fewer == \A i \in (DOMAIN m_VisionSystemProfiles) \ {m_CurrentVisionSystemProfileID'} :
                      Cardinality(Present(m_VisionSystemProfiles[i], bus))
                      < Cardinality(Present(m_VisionSystemProfiles[m_CurrentVisionSystemProfileID'], bus))
<1>1. ASSUME ProfilesInv, [BoardNext]_boardAll, Begins PROVE Fewer
  <2> DEFINE profiles == m_VisionSystemProfiles
             found == m_DC1394Cameras \o bus
             scores == [i \in DOMAIN profiles |-> Score(profiles[i], found)]
             best == BestCandidate(scores)
             current == IF best # 0 THEN best ELSE m_CurrentVisionSystemProfileID
  <2>1. StartProcess_board
    BY <1>1 DEF BoardNext, boardAll, Construct, InitializeBoard, StopBoard, ReadDefaults,
       pSetParameter, Plug,
                SetFormatOfLeft
  <2>2. m_CurrentVisionSystemProfileID' = current /\ ~(current = 0 \/ Tie(scores, best, current))
    BY <1>1, <2>1 DEF StartProcess_board, InitializeBoard
  <2>3. bus \in Seq(ToSet(bus)) /\ IsInjective(bus) /\ found = bus
    <3>1. bus \in Seq(ToSet(bus)) /\ IsInjective(bus)
      BY <1>1, ProfileAssumption DEF ProfilesInv, ListsInv
    <3> QED
      BY <1>1, <3>1, ConcatEmptySeq
  <2>4. \A i \in DOMAIN profiles : /\ scores[i] = Cardinality(Present(profiles[i], bus))
                                   /\ scores[i] \in 0 .. Len(bus)
    BY <1>1, <2>3, ScoreCountsCameras DEF ProfilesInv, ListsInv
  <2>5. DOMAIN scores = DOMAIN profiles /\ Len(bus) \in Nat
    BY <2>3
  <2> HIDE DEF scores, profiles, found
  <2>6. \/ /\ best \in DOMAIN scores
           /\ \A i \in DOMAIN scores : scores[i] <= scores[best]
        \/ /\ best = 0
           /\ \A i \in DOMAIN scores : scores[i] = 0
    <3>1. DOMAIN scores \subseteq Nat
      BY <1>1, <2>5 DEF ProfilesInv, ListsInv, profiles
    <3> QED
      BY <2>4, <2>5, <3>1, BestCandidateWins
  <2> HIDE DEF best
  <2>7. ASSUME NEW i \in (DOMAIN scores) \ {current}
        PROVE  current \in DOMAIN scores /\ scores[i] < scores[current]
    <3>1. scores[i] # IF best = 0 THEN 0 ELSE scores[best]
      BY <2>2, <2>7 DEF Tie
    <3>2. best # 0
      <4>1. best = 0 => scores[i] # 0
        BY <3>1
      <4>2. (\A k \in DOMAIN scores : scores[k] = 0) => scores[i] = 0
        BY <2>7
      <4>3. DOMAIN scores \subseteq 1 .. Len(profiles)
        BY <1>1, <2>5 DEF ProfilesInv, ListsInv, profiles
      <4> QED
        BY <2>6, <4>1, <4>2, <4>3
    <3>3. best \in DOMAIN scores /\ scores[i] <= scores[best] /\ current = best
      BY <2>6, <2>7, <3>2
    <3>4. scores[i] \in Nat /\ scores[best] \in Nat
      BY <2>4, <2>5, <2>7, <3>3
    <3> QED
      BY <3>1, <3>2, <3>3, <3>4
  <2>8. \A i \in (DOMAIN profiles) \ {current} :
          Cardinality(Present(profiles[i], bus)) < Cardinality(Present(profiles[current], bus))
    BY <2>4, <2>5, <2>7
  <2> QED
    BY <2>2, <2>8 DEF profiles
<1>2. [][Begins => Fewer]_boardAll => BestProfileChosen
  BY PTL DEF BestProfileChosen
<1> QED
  BY <1>1, <1>2, BoardHolds, PTL DEF BoardSpec
==============================================================================
