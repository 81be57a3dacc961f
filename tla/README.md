# Verification of the Low Level Vision Server

`llvs` is the vision server of the HRP-2 humanoid. One thread, the LLVS thread,
calls `LowLevelVisionServer::ApplyingProcess` for ever: it waits for a trigger or
not, grabs the cameras and calls `RealizeTheProcess` on a list of vision
processes. The threads of the CORBA ORB run everything else: clients start and
stop processes, set modes, trigger, and read results. Almost nothing that the two
sides share is protected by a lock, so what can be wrong in this program is
mostly in the interleaving of a few dozen reads and writes. That is what the
modules here model.

Paths below are relative to the root of the repository. `PROJECT.json` maps every
definition to its lines.

## 1. The system and its parts

| Part | State | Operations | Hard behaviour |
|---|---|---|---|
| Frame loop (`src/LowLevelVisionServer.cpp`, `src/MainEntryPoint.cpp`) | `m_Computing`, `m_TypeOfSynchro`, `m_SynchroTrigger`, `m_DumpImageMode`, `m_ImageCounter`, `m_BinaryImages`, the static `FirstTime`, the list of processes | `ApplyingProcess`; `TriggerSynchro`, `SetSynchronizationMode`, `SetDumpImageMode`, `StartMainProcess`, `StopMainProcess`, `StartProcess`, `StopProcess` | flags read several times in a frame while clients set them; the result of a grab kept from one turn to the next; data handed from process to process by the order of a list |
| Life cycle of a process (`src/VisionBasicProcess.cpp`) | `m_State`, `m_Computing`, the table of parameters | initialise, start, stop, realize, clean up | check-then-act without a lock; hooks that refuse and are not heard |
| Circular buffer (`include/llvs/CircularBuffer.t.h`) and the tracker's servant (`src/Corba/ModelTrackerInterface_impl.cpp`) | the slots with a mutex each, `m_IndexBuffer`, the servant's `m_CBTD` | `SaveData` by the loop, `ReadData` and the replies by clients | a `trylock` whose result is misread, an index read without a lock, a copy that is not atomic, one member for all calls |
| External scripts (`src/Corba/StereoVision_impl.cpp`) | `m_LLVSGrabbingStatus`, the status of the grabbing process | five calls that stop the grabbing, run a script and restore it | early returns between the stop and the restore; one member for all calls |
| FireWire grabber (`src/dc1394/IEEE1394DCImagesInputMethod.cpp`) | the cameras, `m_mutex_device`, the frames in the driver | grab (dequeue, copy, enqueue), start, stop, features | a wait inside the driver with the mutex held; cameras freed between a test and their use |
| Vision profiles (same file) | the profiles, the cameras on the bus, the maps between camera numbers and meanings | reading of profiles, the choice of the best, the set-up of the cameras | ties, a profile of an earlier detection, three lists indexed by one number |
| Start-up and shutdown (`src/MainEntryPoint.cpp`) | the exit mutex, the two threads | SIGINT, `StopMainProcess`, `pthread_kill`, join, clean-up | a thread ended with a mutex in hand; a client's call during the shutdown |
| Server's images (`src/LowLevelVisionServer.cpp`, `src/ViSP/vispUndistordedProcess.cpp`) | `m_Width`, `m_Height`, `m_depth`, `m_BinaryImages`, and the grabber's own sizes | `SetAcquisitionSize`, `SetImagesGrabbedSize`, `getImage`, the grab, the undistortion | one image has two sizes in two objects, changed one after the other while others access it; a change the grabber refuses because it is stopped |
| Control law (`src/ViSP/ComputeControlLawProcess*.cpp`), connection to the robot (`src/ConnectionToSot.cpp`) | `m_cdMoSet`, `m_RealiseControlLaw`, the limits, the last velocity | `SetcdMo`, parameters, start, realize, stop, clean-up | latched errors; the last velocity standing after a stop; limits changed in the middle of a frame |
| Trackers (`src/ModelTracker`, `src/PointTracker`) | the pose, the points, the calibration, the filter, deferred parameters | `Init`, `SetcMo`, `SetParameter`, `SetInputVispImages`, realize | settings of a client racing the frame; lists that belong together replaced one by one |
| Parameters (`src/VisionBasicProcess.cpp`) | two vectors and an uninitialised size | set, get | insertion by two threads |
| Image stack (`StoreImageOnStack`, `RecordImagesOnDisk`) | `m_IndexSI` and the stored images | store, record | wrap, slots never filled, order of the cameras |
| Inputs without cameras (`src/Simu`) | image sizes, the next file | grab, `SetImageSize` | sizes that do not divide; headers that disagree with buffers |
| SLAM (`src/MonoSlam`, `src/BtlSlam`) | flags and samples of the sensors' plugin; shared memory, map requests | a step of the filter; start, stop, requests for the map | a plugin that is lost; memory made again under a frame; requests that meet a stop |
| Image processing (`src/OpticalFlowProcess.cpp`, `src/ViSP`, `src/VVV`, `src/OpenCV`) | tiles and points, boxes of errors, buffers of images, matchers | computations on one frame, settings between them | indices into lists of different lengths; flags telling which step was taken |
| VVV grabber (`src/VVV/IEEE1394ImagesInputMethod.cpp`) | `m_Board` | create, shoot, delete | deletion by one thread while the other shoots |

Interactions. The loop calls the processes (`RealizeTheProcess`), and the grabber
through `GetImageFromFrameGrabber`; clients call the server, which calls the same
processes (`StartProcess`, `StopProcess`), so each process has two callers. The
tracker's buffer is the last process of the list and writes the ring; the
tracker's servant reads it. The script servant steers the grabber by its name.

What makes each part correct, in one sentence each:

- frame loop: frames, triggers, images and dumps correspond one to one, and a stop stops;
- life cycle: a status of 1 means that frames are computed, a stop is felt within a frame, and no interleaving leaves a process in a state without issue;
- circular buffer: a reader gets the last datum, whole, and never delays the loop;
- scripts: the cameras are free while a script runs and are given back;
- grabber: a camera is used by one thread at a time, never after it was freed, and a stop returns;
- profiles: every image reaches the buffer of the camera it comes from;
- images: every access stays inside of the image as it is then;
- shutdown: SIGINT ends the server, the cameras released;
- control law: no velocity from a tracking that has failed, none over its limits, and a stop when something is lost;
- trackers: a pose belongs to the points, the image and the calibration it is given with;
- image stack: what is recorded was stored, with its own time stamp.

## 2. The modules

| Module | Models | Built on |
|---|---|---|
| `CircularBuffer` | the ring, its one writer and the calls of the tracker's servant | |
| `ProcessLifecycle` | abstract: a process is uninitialised, idle or running, and computes only while its status is 1 | |
| `VisionProcess` | the five operations of `HRP2VisionBasicProcess` as threads interleave them | refines `ProcessLifecycle` |
| `FrameLoop` | `ApplyingProcess` and the calls that steer it | a process is what `VisionProcess` says of it, reduced to its status |
| `StereoGrabbing` | the calls of `StereoVision_impl` around the grabbing process | likewise |
| `FrameGrabber` | the grab, start, stop and features of the FireWire grabber, over the driver's rings of frames | its life cycle is that of `VisionProcess` |
| `Shutdown` | the main thread, the LLVS thread, SIGINT and clients | composes with, and refines, `FrameGrabber` |
| `VisionProfile` | reading, choice and set-up of a profile | |
| `ServerImages`, `ImageStack` | sizes and buffers of the server's images; the stack of images on its way to the disk | |
| `Selection` | what a loop that keeps some elements of a list leaves | used by `VisionProfile`, `ImageStack`, `Disparity` |
| `StampedFiles` | `ImageStack` and `ImageDifference`, the two ways of an image to a file | states what both promise |
| `ClientSettings` | `ProcessParameters` and `CameraCalibration`, what clients set of a tracker | states what both promise |
| `SimulatorImages`, `FileImages` | the inputs without cameras | |
| `ControlLaw`, `MotionLimits` | tracker, law and robot; the limits of the motion and the speed | `ControlLaw` abstracts what `MotionLimits` says of an accepted motion |
| `PointTracker`, `CameraCalibration`, `KalmanTracker`, `ProcessParameters` | the trackers and their settings | |
| `SlamSensors`, `BattleSlam`, `SlamMaps` | what surrounds the two SLAM engines: the sensors of one; the shared memory and the map requests of the other | |
| `HarrisPoints`, `ImageConversion`, `ImageDifference`, `Disparity`, `StereoVision` | image processing, as far as it is indices, sizes and order | |
| `BoardShot`, `Subsampling` | the VVV grabber's board, and the averaging of its images | |
| `MC<module>` | the values of the constants for TLC; `MCParts` for all the parts that share no state | |
| `CircularBufferProofs`, `VisionProcessProofs`, `FrameLoopProofs` | theorems about the module of that name | |
| `GrabberProofs` | theorems about `FrameGrabber`, `Shutdown` and `VisionProfile` | |
| `StereoProofs` | about `StereoGrabbing`, `StereoVision`, `BoardShot` and `Disparity` | |
| `ServoingProofs` | about `PointTracker`, `KalmanTracker`, `ControlLaw`, `MotionLimits` and `ClientSettings` | |
| `ImagesProofs` | about `ServerImages`, `StampedFiles`, `FileImages`, `ImageConversion`, `HarrisPoints`, `BattleSlam`, `SlamMaps` and `SlamSensors` | |
| `SelectionProofs` | lemmas about `Selection`, the least of some numbers and their order | used by `GrabberProofs`, `StereoProofs` and `ImagesProofs` |

**CircularBuffer.** `wpc` and `rpc[r]` are the program counters of the writer and of
the calls. The writer goes through `TryLock`, `SaveImage`, `SavePose`, `SaveUnlock`,
`NextIndex`, `Wrap`, which are the statements of `SaveData`; `SaveImage` and `SavePose`
are the two halves of `CBTrackerData::operator=`. `TryLock` goes on whether it got
the mutex or not, because the code tests `r<0` where `pthread_mutex_trylock` returns a
positive `EBUSY`. A call goes through `TakeIndex`, `Lock`, `ReadImage`, `ReadPose`,
`Unlock` (`ReadData`) and `ReplyImage`, `ReplyPose` (`GetDebugInfoObject`). A datum is the
number of its frame, kept twice. `seen` and `until` are history: how many frames were
saved when the reader took its index and when it had its copy. A reader that takes
the index between the increment and the wrap looks at the last slot, as the code
does. The clean-up of the buffer, which the server never calls, is left out.

**VisionProcess.** `op[t]`, `at[t]`: the operation a thread is in and where in it.
An operation reads `m_State` once (`CheckAccepted`, `CheckRefused`), and writes it before
and after the hook (`Enter`, `Leave`), each write followed by `SetStateParameter` in two
steps, the naming of the state and the store of the name. A compound condition on
`m_State` is one read: the terms of a disjunction are read one after the other, and
a change between two of them gives an outcome that a single earlier or later read
gives too, but for chains of several changes in a few instructions. `StopProcess` clears
`m_Computing` before its first write, `StartProcess` raises it last. `HookRefuses` is a
hook that clears `m_Computing` and returns -1 (the control law's start, the Kalman
tracker's initialisation). `late` counts the frames a thread has begun at status 0.

**FrameLoop.** `pc` walks through one call of `ApplyingProcess`; each step reads or
writes one of the variables shared with clients, so a client's call can come between
any two. `synchro` is the mode the call found first, which the code keeps in the form
of the branch it is in. `GetImageFromFrameGrabber` chooses the cameras that are due
and those that deliver; its result is that of the last due camera. The wait for
`TooFast` is absent: `LastProcessTime` holds a date, so `0.015 - LastProcessTime` is
negative and the test never true. Of the list of processes the model has the four
that hand data to each other, in the constructor's order, the control law twice as in
the code (lines 478 and 484). A realized process takes what the one before left. The
model has one executor of `ApplyingProcess` and cameras that are present.

**StereoGrabbing.** The five calls differ in their script only and are one here.
`clean` is history: in the present busy period no call overlapped another and no
script failed to open. A script is over, for the model, when the grabbing is
restored: the code sleeps a fixed time and trusts that.

**FrameGrabber.** `pc[t]` and `cam[t]`: where a thread is and at which camera. The
driver is modelled from its use: a camera has a ring of `Buffers` frames while its
capture is set up, `FrameArrives` fills one, `Dequeue` waits for one with
`m_mutex_device` in hand, and `capture_stop` releases the ring. What the driver answers
to a dequeue on a stopped capture is not in the repository: `StoppedCaptureFails` says
whether it refuses or waits, and the liveness is claimed for the former.
`std::vector::clear` leaves the storage in place, so an index into the cleared vector
finds the old pointers, which `handle` and `m_VideoFrames` keep as "freed" and "released".
`late` counts the dequeues since `m_Computing` was cleared.

**Shutdown.** Main is one of the grabber's threads. A second SIGINT ends the LLVS thread
wherever it is, with what it holds (`LLVSThreadExits`). `started` is history: a client
started the grabber during the shutdown. The module has its own next-state relation,
built from the actions of `FrameGrabber`; that each step of it is one of the grabber's is
a theorem.

**VisionProfile.** Three lists share one index after a start: the profile's, the
cameras', and the map from semantics to cameras, which the reading of a profile writes.
`detectedOn` and `lastRead` are history and carry the conditions under which they agree.
That a bus finds a camera once is an assumption on libdc1394's enumeration
(`ProfileAssumption`), as is that a profile names each camera and semantic once.

**Selection.** Several loops go over a list and keep some of its elements: the cameras of
the profile, the words of the parameters that have a value, the images of one camera. A
set of numbers in its order (`InOrder`) is the sequence that has at k the member with k - 1
members before it (`Before`), and `Selected` takes the elements of a sequence at the places
kept. The definition is closed, where a fold over the list would be recursive, so what the
loops leave can be proved about.

**FileImages.** A file is the images it has, each with the place of its first byte (`at`),
its size and its depth; `Next_P` looks from the end of the bytes that were read for the
next image that starts, so a buffer that is too large skips images. `FileAssumption` says
that the images of a file do not overlap. A pixel that is by chance a 'P' is not modelled.
The size wanted is kept for each camera, as `HRP2ImagesInputMethod` keeps it.

**ServerImages.** A size is the number of its pixels. An access (`grab`, `copy`) takes its
length when it begins and is judged when it ends; one that a resize overlapped
("overlapped") promises nothing. A stop and a start of the grabber are two calls: the stop
empties the list of the cameras (`StopGrabber`), so a resize in between fails in the
grabber, which the server ignores, and the start (`StartGrabber`) finds the cameras that
are then on the bus and keeps the old sizes. `reformatted` is history: the cameras whose
format has changed since their last resize; `away` those that were not there at it.

**ControlLaw** and **MotionLimits.** Poses and velocities are kept as what they come from
("tracked", "identity"; "servo", "blind", "zero"); the frame of the law is in steps
between which a client's call can come. A clean-up is three of them: the state "cleaning"
with the flag down (`CleanUpLaw`), the hook's zero velocity (`CleanUpWrites`), the state
"cleaned" (`LawCleanedUp`); a frame may decide, write and end between them, and store its
own state first. `outrun` is history: when the clean-up began a frame had decided and not
written yet. `MotionLimits` has integers in place of speeds, a factor is a fraction, and
an assignment of a parameter is one step: `SetMotionTest` and `VEL_MAX` make several. 0/0
is a factor of its own, not a number: `min(a,b)` is `a<b?a:b`, so it is taken as the
second argument and left as the first (`Smooth`). The inputs are non-negative; a negative
`VEL_MAX` turns the direction round in the code.

**PointTracker**, **CameraCalibration**, **KalmanTracker**, **ProcessParameters.** A
list of points is the target and the frame it is of, a calibration the entry it was read
from, a filtered pose its kind and time. The tracking libraries may find or lose.

**SlamMaps.** A request is in the steps of `setMapRequest`: what it finds is kept, then
the wish and the file are noted, the map is saved, and what follows the file is met; a
request that is refused takes back the two members one by one. The stop reads the wish,
saves and clears it. None takes a lock, and any number of threads does so at once.
`crowded` is history: the operation under way has met another; `unsure` what such a
meeting may have left otherwise than the clients asked, until an operation alone settles
it.

**SlamSensors.** An instant is counted in units in which the 33 ms the code goes back from
the time of the image (`FrameLag`) and the 60 ms it goes on (`SensorDelay`) are constants;
`InstantOf` is what it looks for among the samples.

**HarrisPoints.** A client may set any integer as the size of a tile. The tiles are those
that are whole in the Harris image; the rest of the image has none of its own, and the
number computed for a point there is a tile's of the next row or past the array, where the
point is accepted or not without a trace in any tile (`AcceptPastTheTiles`). With a size
of 0 or less the allocation divides by zero or has no tile to make; no frame comes after.

**The others** keep of an image which pixel, camera, frame or file each part of it is
from, and of a library (VVV, OpenCV, libmmx, `VSLAM_App`, the filter) that it succeeds or
fails. `Subsampling` and `ImageConversion` compute addresses as the loops do.

`MCParts` instantiates the parts that share no variable with each other. In the server
they run side by side, but no property relates two of them, so their product would show
nothing that they do not show alone: `part` chooses the one that runs, `Alone(p)` keeps
the others still, and the view of a state is the part's own variables. The next-state
relation of each part is the module's own.

What could come next: `SetImage`, which runs `ApplyingProcess` on an ORB thread (a second
executor for `FrameLoop` and a second writer for `CircularBuffer`); of the theorems,
`AveragesOfTheirBoxes` of `Subsampling`, whose addresses are those that `RowAndColumn` is
about, with the number of the samples of a box; a law in `ControlLaw` that uses
`MotionLimits` instead of its abstraction.

## 3. The runs

All bounds are constants of the configurations. Deadlock is checked but in `GR_shutdown`,
where the program ends, and `Parts`, where some parts end too (the server can die of a
deleted board or of tiles of size 0, the limits' calls are bounded, a conversion is done
once).

| Run | Instance | Properties and what they show |
|---|---|---|
| `CB_safety` | 3 slots (the server's number), 4 frames, 2 calls on 2 servants | `UnlappedReplyIsLatest`: a reader the writer does not overtake replies with the datum that was last, whole, even though the writer takes no notice of its mutex; `ReplyNeverStale`: no part of a reply is older than the call, overtaken or not; `SaveAlwaysEnds`: the loop is never held up by a client, even one that stops in the middle of `ReadData`; `CallsReturn` |
| `CB_protected` (violation) | 1 call | `SlotProtected`: "a protected circular buffer" writes a slot while a reader that locked it copies it |
| `VP_sequential` | 1 thread making all calls | `ImplementsLifecycle` |
| `VP_server` | the loop and a client with the other four operations | `AtMostOneLateFrame`, `SettledAtRest`, `RunningIsComputed` |
| `VP_refused` (violation) | 1 thread | `RefusedStartIsNotRunning`: `StartProcess` ignores the refusal of its hook |
| `FL_modes` | 2 cameras, either initial mode, clients leave the mode alone | `OneFramePerTrigger`, `TriggerServed` |
| `FL_switch` | 2 cameras, clients set both modes | `TriggeredFrameHasImage`, `StopBoundsFrames`, `SingleDumpsOnce` |
| `FL_processes` | 1 camera, clients start and stop all processes | `DatumOfThisFrame` |
| `FL_new_image` (violation) | 1 camera, `SYNCHRO_TRIGGER` | `TriggeredImageIsNew`: a trigger may be answered with an image older than it |
| `GR_shutdown` | 1 camera with a ring of 1, main and a client, 2 SIGINTs | `OneFrameAfterStop`, `NoBufferLost` of the grabber; `MainNeverOrphaned`, `ExitReleasesCameras`, `SigintEndsServer`, `StopsReturn` of the two together |
| `Parts` | 22 parts, one in each behaviour | below |
| `SG_restore` (violation) | 2 clients | `GrabbingRestored`: a script that does not open leaves the grabbing off |

What `Parts` checks, by part:

| Property | Says |
|---|---|
| `BestProfileChosen`, `CamerasOfTheProfile` | a start chooses the profile with most cameras on the bus, and each image then comes from its own camera at its own rate, under the conditions stated with it |
| `SizesAgree`, `AccessesStayInImages` | between resizes server and grabber agree on an image whose camera was there at its resize, and every grab, undistortion and reply that no resize overlapped is inside of its image, if the resize found the camera |
| `StampsOfTheFiles` | an image on disk has its own stamp, from the stack or, as long as its files open, from the difference's ring, and a difference is of successive images |
| `PixelsWhereTheyBelong` | the simulator's subsampling, the board's averaging and the conversions put every pixel in its place and write nothing outside |
| `ImagesOfTheFile` | the file input never overflows a buffer and gives each camera its image of the last file |
| `BoardFollowsCalls` | at most one image after a client's stop of the VVV board, and a board between calls transmits |
| `VelocityFollowsTracker`, `RobotStops` | the robot never moves on a pose that was not tracked, stands still after a clean-up that no decided frame outran, and stops at last when something was lost |
| `SpeedWithinLimits` | no speed over every limit in force since the frame began, and no motion those limits refuse; but for an axis before one at rest with a limit of 0 |
| `PoseOfItsPoints` | a pose goes to clients with the points of its own target and frame |
| `SettingsTakeEffect` | a parameter that was set is found and reaches the tracker, and the calibration is the one the settings ask for |
| `KalmanOK` | predictions cover the time once, and a frame's output is of its own image |
| `HarrisPointsOK` | in whole tiles points are apart across tiles, and a match is where the flow led |
| `PointsKeepTheirData` | a point of the range map keeps its box, its row of the file and its arguments |
| `StereoVisionOK` | a range map is of the images set last and the matcher has the parameters set last |
| `SlamMeasurements` | the filter uses no measurement that was never read, and those nearest to the instant it looks for, 27 ms after its image |
| `BattleSlamOK` | `SharedMemoryKept`: a started process has the shared memory it copies to, and the living server no other; `MapSavedAsAsked`: a stop saves the map if and only if that was asked, to the file of the last accepted request, unless requests and stops met |
| `GrabbingPromise` | a call that overlapped no other and whose script opened restores the grabbing; one that was off is never turned on (3 clients) |

Bounds. *CircularBuffer*: four frames in three slots wrap the index and let the writer lap
a reader; a reader holds one slot, so what two readers do to each other (wait for the
same slot) shows with two. `MaxFrames` stops the writer and not the readers.
*VisionProcess*: nothing is bounded; `late` stays below 2, which is a property.
*FrameLoop*: images and frames are numbered modulo `Frames` = 3, enough to tell this
frame's image, the last one's and an older one. The two views leave out variables that no
guard, and no property of their run, depends on, and count frames and images from a
reference point. `NbOfWait` is the code's own counter, reset at 2. *Shutdown*: one camera
and one buffer already make the loop wait in the driver with the mutex; more cameras and
buffers are in the theorems. A third SIGINT would find the program ended. The properties
marked `OneClient` are about one client: with two, a start that overlaps the other's stop
breaks them (section 5). *Parts*: three profiles over a bus of three cameras give ties,
missing cameras and another detection; rings of two and of four slots wrap; two threads
make every race of two; sizes include one that does not divide another, an odd one and
one that is too large; frames and calls are counted to two or three, as no flag outlives
the next frame or call. `HarrisPoints`' image of 5 by 4 has tiles of 2, which leave a column
over, of 3, which leave two columns and a row, and the size 0; in the former there are borders
between tiles. `ServerImages` has two cameras, both away while the grabber is stopped,
and a resize that makes an image smaller and one that makes it larger; the theorems have
any cameras at each start. `FileImages` has one or two files of six kinds. `SlamMaps`: two
requests and a stop meet in every order, over one named file and the default one. The views
of these two and of `ControlLaw` (`ImagesView`, `MapsView`, `ControlView`) leave out what no property looks at until it is set
again.

Fairness. *CircularBuffer*: the LLVS thread runs (`WF` on `SaveData`); `CallsReturn`
assumes in addition that the ORB's threads run and that a mutex that is free again
and again is obtained at last (`SF` on `Lock`): an unlock wakes a waiter, and the holder
copies for much less than a frame. `SaveAlwaysEnds` does not use the readers' fairness:
it holds if they stop. *VisionProcess*: threads run, and the loop calls `RealizeTheProcess`
for ever (`LLVSThread`). *FrameLoop*: the LLVS thread runs, and the cameras deliver
again and again (`SF` on a successful grab in the waiting loop), which is the meaning of
a connected camera; `TriggerServed` depends on it, as the loop waits for an image.
*Shutdown*: main and the LLVS thread run, calls under way go on, a camera that transmits
sends frames, and the mutex is obtained as above. *ControlLaw*: the loop runs, a call of
the ORB that has begun ends, and the stack of tasks takes a velocity again and again
(`SF` on a successful `LawWrites`): its CORBA object is connected. No client is assumed to
call anything.

## 4. The theorems

All hold for every value of the constants allowed by the modules' assumptions.

- `CircularBufferProofs!TypeCorrect`: types and `WriterIndexInRing`, for any ring size. The
  index is at `Size` only at the wrap.
- `CircularBufferProofs!UnlappedReplies`: `UnlappedReplyIsLatest`, assuming that no two calls
  share a servant. Locks cannot carry the argument, as the writer ignores them. The
  inductive invariant says instead which frame every slot holds (`Held`), as a function of
  the number of frames saved; a slot is rewritten `Size` frames after it was written, so a
  reader with `until - seen < Size - 1` has read a slot the writer had not come back to.
- `CircularBufferProofs!RepliesNeverStale`: `ReplyNeverStale` under the same assumption. `Held`
  never decreases, a slot is never older than it, and a reader's slot held the last frame
  when it took its index.
- `VisionProcessProofs!TypeCorrect`, `LateFrames`, `NeverStuckInTransition`: the invariant `IInv`
  strengthens the properties with where a thread can be in which operation, with
  "status 1 means no late frame yet", and with "an unsettled state has a thread between
  its two writes". The last is what makes `SettledAtRest` hold for any number of threads:
  whoever writes an intermediate state will write a settled one.
- `VisionProcessProofs!SequentialCallsImplementLifecycle`: with one thread, every step is a
  step of `ProcessLifecycle` or a stutter.
- `FrameLoopProofs!TriggeredFramesHaveImages`: a result of 0 in the present call means that a
  camera delivered in it, in every place of the loop.
- `FrameLoopProofs!OneFrameForEachTrigger`: if clients do not set the mode. With the flag up,
  a trigger has come since the loop was last left, except between the loop and the reset,
  which the mode cannot skip.
- `FrameLoopProofs!StopEndsTheFrames`: the counter differs from the one at the stop by at most
  the frame under way.
- `FrameLoopProofs!SingleDumpsAreAsked`: the mode is `SINGLE` without an open request only
  while the loop is between the dump and its return to `NONE`. A client's `NONE` or `FLOW`, and
  a `SINGLE` that the return overwrites, can lose a request but not make one.
- `FrameLoopProofs!DataOfOneFrame`: how far a call is in the list (`ListInv`), and that what
  has run has worked on this call's image (`DataInv`), whatever is started or stopped between
  two processes: the order of the list carries the argument.
- `StereoProofs!GrabbingPromised`, from `GrabbingStaysOff` and `CleanCalls`.
- `StereoProofs!RangeMapRight`: `StereoVisionOK`. The flags (map computed, loaded, rectified)
  say of which pair the images in hand are and how often they were rectified
  (`FlagsOfTheImages`), the size kept is that of the loaded images unless it was
  changed since, and a calibration loaded after them is for it (`SizeOfTheImages`); all
  matchers exist and the one that computes has the parameters set last (`MatcherInv`).
- `StereoProofs!BoardFollows`: `BoardFollowsCalls`, for two threads without a lock. `StopStands`
  says that after a stop no thread but the loop makes a board, and that the loop is past
  its grab once an image is late, where it deletes the board; `BoardMended` that a board is
  deleted and still pointed to, or silent, only while a thread is on its way to start it.
- `StereoProofs!PointsRight`: `PointsKeepTheirData`, for any numbers of pixels, matches and
  parameters. The points are the matched pixels in their order (`RangeInOrder`), the boxes
  are packed from the front in the same order (`FramedBoxes`), there are as many as pixels
  of the image, of the format of the error model (`BoxesOfModel`). A dark pixel's row is
  counted (`Before`) and found in the list of the dark ones (`OrderOfNumbers`): one more than
  its predecessors, in both. The words passed to the library are a set of places as large
  as the first pass counted (`WordsCounted`).
- `GrabberProofs!StopFeltWithinOneFrame`, `TypeCorrect`: any cameras, buffers and
  threads. No lock joins the loop's test of `m_Computing` to its dequeue. The invariant
  `LateInv` says that while the status is 1, or the loop is between its test and its dequeue
  (`Committed`), no frame is late yet; so the one dequeue of a committed loop is the only
  late one, whoever stops, starts or frees meanwhile. `OutInv`, about the frame in the
  loop's hand, is what makes the enqueue keep the ring's count.
- `GrabberProofs!ServerImplementsGrabber`: a refinement without a mapping, as `Shutdown`
  keeps the grabber's variables: each step of the server is one of `FrameGrabber` or leaves
  it alone. `ServerStopFeltWithinOneFrame` follows from it and the grabber's theorem.
- `GrabberProofs!ShutdownNotOrphaned`: `HaltInv` says that once main's stop has been made the
  grabber is stopping or stopped, unless a start came since the SIGINT; `KillInv` that the
  LLVS thread is killed only when main is back from its stop. So main asks for no mutex
  after the kill.
- `GrabberProofs!NoFrameLost`, `CamerasReleased`: `NoBufferLost` and `ExitReleasesCameras`, for
  one client (`OneClient`, their precondition) and any cameras and rings. `Orderly` says that
  a start has the grabber to itself: the client makes one call at a time, and main, which
  starts nothing, stops only after a SIGINT, when a start under way is known (`started`).
  Without a start beside it a stop leaves the cameras behind it idle (`BoardInv`), so the
  empty vector means that all are, and the loop holds the only frame that is out, of a
  camera that still captures (`FramesInv`).
- `ServoingProofs!PublishedPoses`: an Init that overlaps the frame is known to it
  (`raced`). Without one the lists, the datum and the pose are of one target, which the
  invariant follows through the places of the frame and of the Init.
- `ServoingProofs!SpeedsAreLimited`: for any limits, heights, motions and velocities, and
  any number of assignments in a frame. `Bounded(k)` says that the factor keeps axis k in
  a limit some setting had since the frame began; a lesser factor keeps what it bounded
  (`LesserKeepsLimit`, the one non-linear argument), so an axis that was passed stays
  bounded while the others are, unless a factor of one of them is not a number, which the
  property excepts: such an axis is at rest with a limit of 0. A test that was passed has
  seen a setting that accepts (`TestInv`).
- `ServoingProofs!KalmanFollowsFrames`: `KalmanOK`. From the first start on the filter covers
  the time up to the last frame (`FilterInv`), the clock stands still in a frame, so an
  output the filter is updated with is of this one (`MeasureInv`), and settings in order
  leave the sizes equal before the start and after it (`SizesInv`).
- `ServoingProofs!RobotFollowsTracker`: `VelocityFollowsTracker`. Two flags are written by
  two threads in either order; the invariant (`TrackerInv`) says that `trackSuccess` is up
  only for a pose just found and that a stop or an initialisation under way keeps the loop
  out of the tracker, unless a stop fell into its frame. The half about the clean-up has
  its own invariant (`CleanUpInv`): a clean-up under way keeps the flag down, so a frame
  that had not decided when it began (`outrun`) will write zero, whatever it writes and
  ends between; and once the zero was heard nothing but zero is written until the law is
  given a target.
- `ServoingProofs!SettingsRight`: `SettingsTakeEffect`, for any number of callers. The two lists
  of names and values pair up, but for the value that follows its name (`ListsPairUp`); an
  insertion that no other raced was alone (`InsertsAlone`), so each name is there once
  (`NamesOnce`) with its last value (`ValuesAtNames`) and below the count (`NamesCounted`). For
  the calibration: calls that did not overlap look for what the settings are
  (`CallsInTurn`), and in a frame without a call it does not change (`PointsOfOneCam`).
- `GrabberProofs!BestProfileWins`: `BestProfileChosen`. The score counts places of the bus's
  list, the property cameras; a bus finds each once, so the two are equal
  (`ScoreCountsCameras`, by the correspondence of places and cameras).
- `GrabberProofs!CamerasRight`: `CamerasOfTheProfile`. A started board has the profile's list
  selected by what was found (`SetUp`), in the profile's order and without repetition even
  if the list of the cameras was not emptied before; if none is missing the k-th camera is
  the k-th entry's (`WholeInOrder`), which is where the map sends its semantic (`MapInv`).
- `ImagesProofs!SizesRight`, `AccessesRight`: `SizesAgree`, `AccessesStayInImages`. Only
  the image under resize has a buffer of another size (`BuffersOfTheirSize`), only a
  camera in `reformatted` another depth than its format's (`DepthsOfTheirFormat`), only
  one in `away` another size in the grabber (a stop, a resize and a start leave it there),
  an access knows of every resize that overlaps it (`KnowsItsRaces`), and what one that
  none overlapped noted at its beginning still holds (`GrabStands`, `CopyStands`).
- `ImagesProofs!StampsRight`, from `DifferencesRight`: `StampsOfTheFiles`. With one or two
  cameras that missed no pass the slots alternate (`SlotsAlternate`), so the rule by slot
  numbers and the rule by sides keep the same places in the same order: a correspondence
  of their places that keeps the order keeps the sequence (`OrderKept`, `SameParts`). In
  the difference's ring a slot has its image's stamp but for the one being written
  (`RingInv`), while the files open the slot and the place the image is read from go
  together, so what has been written of the files is right and the rest will be
  (`FilesInv`), and the cameras the loop has passed have this frame as their previous one
  (`PreviousInv`).
- `ImagesProofs!FilesRight`: `ImagesOfTheFile`. Each of the four images of a file is one
  step of a reading (`ReadingHolds`); the buffers are as large as what they hold
  (`BuffersHold`); if all images have one depth a buffer is exactly as large as its image,
  whatever size was wanted of any camera, so the next one that starts is the next in the
  file (`NextImage`), and the k-th camera has the k-th.
- `ImagesProofs!HarrisRight`: `HarrisPointsOK`. For any integers as sizes of the tiles,
  whether they divide the image or not, of the points in whole tiles: such a point is in
  the tile it lies in and apart from the others (`HarrisInv`). A point that is too near
  lies in one of the tiles looked at if whole tiles make up the separation
  (`PointsTooNear`), and a match is in the tile where the flow led because a tile's number
  gives its row and its column (`PlaceInRows`, `Tiling`). The points of the rest can be
  anywhere, as in the code.
- `ImagesProofs!ConversionsRight`: the part of `PixelsWhereTheyBelong` about conversions. A
  row's width with its padding is at least that of its pixels (`SizesFit`), so an address
  gives its row, its column and its channel (`MatrixAddress`).
- `ImagesProofs!BattleSlamRight`: `BattleSlamOK`, from `MapsRight` and `MemoryRight`.
  Unless it was renamed in use, the system has the segment the process holds and no other
  (`SegmentInv`).
- `ImagesProofs!MapsRight`: `MapSavedAsAsked`, for any number of threads and files. An
  operation that meets no other finds the two members as the accepted requests left them
  (`RestInv`), keeps what it will take back (`RequestInv`) or reads what it saves
  (`StopInv`); a meeting is known to all it touches (`MeetInv`).
- `ImagesProofs!SlamMeasuresRight`: `SlamMeasurements`. Without the plugin the two flags
  are down but for those a client raised (`SensorsInv`); the sample nearest on the
  plugin's clock to the instant looked for (`InstantOf`, 27 ms after the image) is so on
  the server's own up to the call's duration (`WithinTheDelay`).

The inductive invariants of `Parts` were checked by TLC on the instance of the run before
they were proved. Where the code counts or orders the elements of a list, induction over
the list is avoided: a finite set of numbers has a least member (`LeastNumber`), its
members in order are each at the place after those before it (`OrderOfNumbers`), and two selections
are equal if an order-keeping correspondence takes one's places to the other's (`OrderKept`).

Two definitions were wrong or could not be reasoned about and were changed. In
`ImageConversion` the conversion to make was a `CASE` with overlapping guards, which before
the first image may have any of its values; TLC takes the first. In `FileImages` the places
of the images of a file were computed by a sum over it, and are now given with it.

Only model-checked: `PixelsWhereTheyBelong` but for the conversions (the simulator's walk
through the pixels is a recursive function, and what it computes for every size takes an
induction over data; the averaging of `Subsampling` is not proved yet), and the liveness
properties (`SaveAlwaysEnds`, `CallsReturn`, `RunningIsComputed`, `TriggerServed`,
`SigintEndsServer`, `StopsReturn`, `RobotStops`): temporal reasoning under fairness and
`ENABLED` are out of the prover's reach.

## 5. What the code does that its documents deny

Four runs exhibit a disagreement: the slot written while locked (`CB_protected`), the
refused process that runs (`VP_refused`), the trigger answered with an old image
(`FL_new_image`), the grabbing not restored when a script fails to open (`SG_restore`).

The conditions of the other properties say where they stop to hold. Seen on the way, and
without a run of their own:

Frame loop, processes, servants
- two calls on one tracker servant share `m_CBTD`: a reply can join the image of one frame
  and the pose of another (`ModelTrackerInterface_impl.cpp:169`);
- `GetStatus` is 0 while the frame that was past its test is still computed
  (`VisionBasicProcess.h:89` says "not running"), and when that frame ends `m_State` is
  `EXECUTE_PROCESS_FINISHED`, from which `StartProcess` is refused until another stop;
- two overlapping script calls: the second saves the 0 the first one caused, and the
  grabbing stays off (`StereoVision_impl.cpp:358`);
- the control law is in the list of processes twice and its IROS 2010 variant never
  (`LowLevelVisionServer.cpp:484`); `InitializeTheProcess` is called twice on the tracker and
  never on the Kalman tracker (498-504);
- `m_ParametersSize` is never initialised and `SetParameter` returns it less one, not the
  index of the parameter (`VisionBasicProcess.h:109`); two calls that insert may leave the
  two lists of different lengths.

Grabber and shutdown
- a client's `StopProcess` in progress at the shutdown makes main's own stop and clean-up
  refuse, and the program exits with its cameras open;
- a loop that passed its status test before a stop and a start dequeues from a camera that
  does not transmit yet, with the mutex that `StartContinuousShot` waits for: a deadlock;
- with two clients, a start that overlaps a stop forgets a dequeued frame, or leaves the
  cameras open in a process that is stopped;
- the mutex is there "to protect the device" (`IEEE1394DCImagesInputMethod.h:261`), and
  `SetCameraFeatureValue` does not take it; `CleanMemory` clears the list of cameras before
  the loop over it (341-353);
- a camera of the profile that is missing shifts the cameras after it to other meanings; a
  rate of 60 leaves the period the initialisation found.

Images
- `getRectifiedImage` reads the size of any camera from the one undistorted image, and
  accepts camera 4 (`LowLevelVisionServer.cpp:2268-2330`); the microseconds `getImage`
  returns are always 0; a failed resize throws what its signature does not allow, and the
  server ends;
- a resize while the grabber is stopped, as a script's is, changes the server's size and
  buffer only (`LowLevelVisionServer.cpp:670`): after the start the grab writes images of the
  old size, past a smaller buffer, until the next resize;
- a file of the difference's images that does not open keeps the place of the next image,
  so the files after it have earlier images with later stamps (`ImageDifference.cpp:64-74`);
- the stack writes stamps and images by two rules, which part with a third camera or a
  missed image; the dump is rotated once the ring has wrapped;
- the simulator accepts sizes it cannot grab (`SimulatorInputMethod.h:97`), and leaving out
  only rows skips pixels too; the file input uses the first image's depth for all, and its
  modes cannot start in the server, whose constructor finds no camera;
- a grey image flipped on its way to ViSP goes past the end of the image.

Servoing and trackers
- the refused start of the law (`VP_refused`) lets the robot move before a target is set;
  `SetMotionTest` sets the test before its limits, so a frame in between may refuse and
  latch the robot off; `planMotion` is never called and `PLAN_MOTION` refuses every
  motion; a negative `VEL_MAX` reverses the direction; an axis at rest with a limit of 0
  has the factor 0/0, after which the bounds of the axes before it are forgotten and the
  "saturated velocity" (`ComputeControlLawProcess.cpp:832`) is over their limits; a
  clean-up writes zero and a frame that had decided before writes its velocity after, with
  the law cleaned up;
- a setting of the moving edges made between the application of the settings and the
  reset of their flag is lost;
- both trackers take the height of an image from its width, so an entry for 640 by 480 is
  never found; a calibration set by parameter is not told to the model tracker;
- the Kalman tracker: a lost tracking's identity is used as a measure; the order of the
  variances and the state's type matters, and the wrong one gives matrices that do not
  fit; `ACC_CAM` and `ACC_OBJ` use the rotations the opposite way to `VEL_*`; control
  inputs are read from a queue nothing fills.

SLAM and image processing
- the flags of the orientation and the camera's height stay up without a plugin, over
  vectors nothing set; no sample within a second gives zeros and no error; the sample is
  that of 27 ms after the image, 33 ms back and 60 ms on, not the image's own;
- the requests for a map and the stop share two members without a lock: a stop in the
  middle of a request may save to its file before it is refused, a request that takes
  back its values undoes another's, and the stop clears a wish that came while it saved;
- the Battle SLAM: a restart during a frame deletes the memory the frame writes;
  `save X extra` is refused and has saved; a bad word of a configuration leaves the names of
  those before it; a start from `LIMBO` initialises twice;
- the Harris points may be one more than `MaxNumberOfPoints`; with tiles that do not make
  up the separation, points across their borders are nearer than the "separation space
  between points" (line 678), as the tiles looked at are the quotient rounded down; tiles
  that do not divide the Harris image put the points of the rest into tiles of the next
  row or past the array, and `RatioHarrisImage` may be set to 0, which ends the server
  (`OpticalFlowProcess.cpp:979`);
- the disparity: setting a parameter deletes the boxes the frame is writing; the boxes of
  the "hz" model are copied from the wrong triple; the header of the `.ply` counts rows that
  are left out; `argv` is one byte short for each argument's end;
- the range map: images that are rectified may be rectified again; the SGBM penalties use
  the channels of the images at the time of the setting;
- the VVV board: deletion without a lock under a shot ends the server; the loop's own
  restart can undo a client's stop; a size larger than the board's divides by zero.

## 6. What is not modelled

- `SetImage` and a second executor of the loop; cameras unplugged during a run; memory is
  sequentially consistent in all modules.
- Pure I/O and data: the naming service, the registration of servants, the options of
  `main`, the reading of calibration and model files, `Camera_impl` (it forwards names and
  values of features).
- Code that does not run: the thread and the buffer of `ConnectionToSot` (`if (0)`; its
  buffer for the waist is never filled); `ComputeControlLawProcessIROS2010`, never in the
  list; the PGM and RAW output of the dc1394 grabber, which reads an image nothing fills;
  the server's getters for the Harris points and the edges, compiled with MMX only. The
  VVV code is off by default and with it on `LowLevelVisionServer.cpp` does not compile
  (line 694); of it the parts with an order or an index of their own are modelled.
- Numerical content: the control law's matrices, the filters of the SLAM and of the Kalman
  tracker, the covariances of the disparity's errors, and the pixel code of rectification,
  edges, colours, features, BRep, motion evaluation and the calibration grid. They compute
  on real numbers inside one frame and keep nothing that another thread changes.
- Hazards without a property: the four of `PROJECT.json` that have a note there.
