--------------------------- MODULE FrameLoopProofs ---------------------------
(***************************************************************************)
(* Proofs about FrameLoop, for any number of cameras, any choice of the    *)
(* modes and processes clients may change, and any numbering of frames.    *)
(***************************************************************************)
EXTENDS FrameLoop, TLAPS

(* What a grab that returns 0 has done: some camera delivered an image.    *)
LEMMA GrabDelivers ==
  ASSUME GetImageFromFrameGrabber
  PROVE  /\ ResFromGIFF' = -1 \/ fresh' # {}
         /\ fresh \subseteq fresh'
BY DEF GetImageFromFrameGrabber

-----------------------------------------------------------------------------
(* A triggered frame has an image.                                         *)

ImageInv ==
  /\ ResFromGIFF = -1 \/ fresh # {}
  /\ pc \in {"flow", "first"} => synchro # "TRIGGER"
  /\ pc \in {"mode", "reset", "grab", "dump"} /\ synchro = "TRIGGER" => fresh # {}

(* However clients switch the modes and trigger, the processes never work  *)
(* on a triggered frame for which no camera delivered an image.            *)
THEOREM TriggeredFramesHaveImages == Spec => []TriggeredFrameHasImage
<1>1. Init => ImageInv
  BY DEF Init, ImageInv
<1>2. ImageInv /\ [Next]_vars => ImageInv'
  <2> SUFFICES ASSUME ImageInv, [Next]_vars
               PROVE  ImageInv'
    OBVIOUS
  <2> USE DEF ImageInv, steering, data, grabbing, history, At
  <2>1. CASE Client
    BY <2>1 DEF Client, TriggerSynchro, StartMainProcess, StopMainProcess, StopNextProcess,
                SetSynchronizationMode, SetDumpImageMode, StartProcess, StopProcess, SetStatus
  <2>2. CASE Enter
    BY <2>2 DEF Enter, EnterUnchecked
  <2>3. CASE ReadMode
    BY <2>3 DEF ReadMode
  <2>4. CASE Wait
    <3>1. CASE GetImageFromFrameGrabber
      BY <2>4, <3>1, GrabDelivers DEF Wait
    <3>2. CASE UNCHANGED grabbing
      BY <2>4, <3>2 DEF Wait
    <3> QED
      BY <2>4, <3>1, <3>2 DEF Wait
  <2>5. CASE Test
    BY <2>5 DEF Test
  <2>6. CASE EnterFlow \/ FirstTrigger
    BY <2>6 DEF EnterFlow, FirstTrigger
  <2>7. CASE ReadModeAgain \/ ResetTrigger
    BY <2>7 DEF ReadModeAgain, ResetTrigger
  <2>8. CASE Grab
    <3>1. CASE GetImageFromFrameGrabber
      BY <2>8, <3>1, GrabDelivers DEF Grab
    <3>2. CASE UNCHANGED grabbing
      BY <2>8, <3>2 DEF Grab
    <3> QED
      BY <2>8, <3>1, <3>2 DEF Grab
  <2>9. CASE Dump \/ ReadDumpMode \/ ClearDumpMode
    BY <2>9 DEF Dump, ReadDumpMode, ClearDumpMode
  <2>10. CASE Realize \/ End
    BY <2>10 DEF Realize, End
  <2>11. CASE UNCHANGED vars
    BY <2>11 DEF vars
  <2> QED
    BY <2>1, <2>2, <2>3, <2>4, <2>5, <2>6, <2>7, <2>8, <2>9, <2>10, <2>11
       DEF Next, ApplyingProcess
<1>3. ImageInv => TriggeredFrameHasImage
  BY DEF ImageInv, TriggeredFrameHasImage
<1> QED
  BY <1>1, <1>2, <1>3, PTL DEF Spec

-----------------------------------------------------------------------------
(* A trigger lets one frame through.                                       *)

TriggerInv ==
  /\ pc \notin {"enter", "synchro"} => synchro = m_TypeOfSynchro
  /\ pc \in {"wait", "test"} => synchro = "TRIGGER"
  /\ m_SynchroTrigger => called \/ (pc \in {"mode", "reset"} /\ synchro = "TRIGGER")

(* While clients leave the mode alone, each time the trigger loop is left  *)
(* TriggerSynchro has been called since it was left the time before.       *)
THEOREM OneFrameForEachTrigger ==
  ASSUME NewModes = {}
  PROVE  Spec => OneFramePerTrigger
<1>1. Init => TriggerInv
  BY DEF Init, TriggerInv
<1>2. TriggerInv /\ [Next]_vars => TriggerInv'
  <2> SUFFICES ASSUME TriggerInv, [Next]_vars
               PROVE  TriggerInv'
    OBVIOUS
  <2> USE DEF TriggerInv, steering, history, At
  <2>1. CASE Client
    <3>1. CASE TriggerSynchro
      BY <3>1 DEF TriggerSynchro
    <3>2. CASE StartMainProcess \/ StopMainProcess \/ StopNextProcess
      BY <3>2 DEF StartMainProcess, StopMainProcess, StopNextProcess
    <3>3. CASE \E mode \in NewDumpModes : SetDumpImageMode(mode)
      BY <3>3 DEF SetDumpImageMode
    <3>4. CASE \E p \in ClientProcs : StartProcess(p) \/ StopProcess(p)
      BY <3>4 DEF StartProcess, StopProcess, SetStatus
    <3> QED
      BY <2>1, <3>1, <3>2, <3>3, <3>4 DEF Client
  <2>2. CASE Enter
    BY <2>2 DEF Enter, EnterUnchecked
  <2>3. CASE ReadMode
    BY <2>3 DEF ReadMode
  <2>4. CASE Wait
    BY <2>4 DEF Wait
  <2>5. CASE Test
    BY <2>5 DEF Test
  <2>6. CASE EnterFlow \/ FirstTrigger
    BY <2>6 DEF EnterFlow, FirstTrigger
  <2>7. CASE ReadModeAgain \/ ResetTrigger
    BY <2>7 DEF ReadModeAgain, ResetTrigger
  <2>8. CASE Grab
    BY <2>8 DEF Grab
  <2>11. CASE Dump \/ ReadDumpMode \/ ClearDumpMode
    <3>1. CASE Dump
      BY <3>1 DEF Dump
    <3>2. CASE ReadDumpMode
      BY <3>2 DEF ReadDumpMode
    <3>3. CASE ClearDumpMode
      BY <3>3 DEF ClearDumpMode
    <3> QED
      BY <2>11, <3>1, <3>2, <3>3
  <2>9. CASE Realize \/ End
    BY <2>9 DEF Realize, End
  <2>10. CASE UNCHANGED vars
    BY <2>10 DEF vars
  <2> QED
    BY <2>1, <2>2, <2>3, <2>4, <2>5, <2>6, <2>7, <2>8, <2>9, <2>10, <2>11
       DEF Next, ApplyingProcess
<1>3. TriggerInv /\ [Next]_vars => [pc = "test" /\ pc' = "mode" => called]_vars
  <2> SUFFICES ASSUME TriggerInv, Next, pc = "test", pc' = "mode"
               PROVE  called
    BY DEF vars
  <2>1. Test
    BY DEF Next, Client, TriggerSynchro, StartMainProcess, StopMainProcess, StopNextProcess,
           SetSynchronizationMode, SetDumpImageMode, StartProcess, StopProcess, SetStatus,
           ApplyingProcess, Enter, EnterUnchecked, ReadMode, Wait, EnterFlow, FirstTrigger,
           ReadModeAgain, ResetTrigger, Grab, Dump, ReadDumpMode, ClearDumpMode, Realize, End, At
  <2> QED
    BY <2>1 DEF Test, TriggerInv
<1> QED
  BY <1>1, <1>2, <1>3, PTL DEF Spec, OneFramePerTrigger

-----------------------------------------------------------------------------
(* Stopping the loop.                                                      *)

(* The successor of a frame number is a frame number, one more modulo      *)
(* Frames.                                                                 *)
LEMMA NextNumber ==
  ASSUME NEW n \in Numbers
  PROVE  /\ (n + 1) % Frames \in Numbers
         /\ (n - n) % Frames = 0
         /\ (((n + 1) % Frames) - n) % Frames <= 1
<1> USE FramesAssumption DEF Numbers
<1>1. (n - n) % Frames = 0
  OBVIOUS
<1>2. CASE n + 1 < Frames
  <2>1. (n + 1) % Frames = n + 1
    BY <1>2
  <2>2. (n + 1) - n = 1 /\ 1 % Frames = 1
    OBVIOUS
  <2> QED
    BY <1>1, <1>2, <2>1, <2>2
<1>3. CASE n + 1 = Frames
  <2>1. (n + 1) % Frames = 0
    BY <1>3
  <2>2. 0 - n = 1 - Frames /\ (1 - Frames) % Frames = 1
    BY <1>3
  <2> QED
    BY <1>1, <2>1, <2>2
<1> QED
  BY <1>2, <1>3

StopInv ==
  /\ m_Computing \in {0, 1}
  /\ m_ImageCounter \in Numbers /\ atStop \in Numbers
  /\ m_Computing = 0 =>
       m_ImageCounter = atStop \/ (pc = "enter" /\ m_ImageCounter = (atStop + 1) % Frames)

(* After StopMainProcess has cleared m_Computing, at most the frame that   *)
(* was under way is completed, whatever the clients do but StartMainProcess. *)
THEOREM StopEndsTheFrames == Spec => []StopBoundsFrames
<1>1. Init => StopInv
  BY FramesAssumption DEF Init, StopInv, Numbers
<1>2. StopInv /\ [Next]_vars => StopInv'
  <2> SUFFICES ASSUME StopInv, [Next]_vars
               PROVE  StopInv'
    OBVIOUS
  <2> USE DEF StopInv, steering, history, At
  <2>1. CASE Client
    BY <2>1 DEF Client, TriggerSynchro, StartMainProcess, StopMainProcess, StopNextProcess,
                SetSynchronizationMode, SetDumpImageMode, StartProcess, StopProcess, SetStatus
  <2>2. CASE Enter
    BY <2>2 DEF Enter, EnterUnchecked
  <2>3. CASE ReadMode \/ Wait \/ Test
    BY <2>3 DEF ReadMode, Wait, Test
  <2>4. CASE EnterFlow \/ FirstTrigger \/ ReadModeAgain \/ ResetTrigger
    BY <2>4 DEF EnterFlow, FirstTrigger, ReadModeAgain, ResetTrigger
  <2>5. CASE Grab
    BY <2>5 DEF Grab
  <2>6. CASE Dump
    BY <2>6 DEF Dump
  <2>7. CASE ReadDumpMode \/ ClearDumpMode
    BY <2>7 DEF ReadDumpMode, ClearDumpMode
  <2>8. CASE Realize
    BY <2>8 DEF Realize
  <2>9. CASE End
    BY <2>9, NextNumber DEF End
  <2>10. CASE UNCHANGED vars
    BY <2>10 DEF vars
  <2> QED
    BY <2>1, <2>2, <2>3, <2>4, <2>5, <2>6, <2>7, <2>8, <2>9, <2>10 DEF Next, ApplyingProcess
<1>3. StopInv => StopBoundsFrames
  BY NextNumber, FramesAssumption DEF StopInv, StopBoundsFrames
<1> QED
  BY <1>1, <1>2, <1>3, PTL DEF Spec

-----------------------------------------------------------------------------
(* Dumps.                                                                  *)

(* The mode is SINGLE with no request open only while the loop is between  *)
(* the dump and its return to NONE.                                        *)
DumpInv == m_DumpImageMode = "SINGLE" => asked \/ pc \in {"single", "none"}

(* A step that leaves "dump" is Dump itself.                               *)
LEMMA OnlyDumpLeavesDump ==
  ASSUME Next, pc = "dump", pc' # pc
  PROVE  Dump
BY DEF Next, Client, TriggerSynchro, StartMainProcess, StopMainProcess, StopNextProcess,
       SetSynchronizationMode, SetDumpImageMode, StartProcess, StopProcess, SetStatus,
       ApplyingProcess, Enter, EnterUnchecked, ReadMode, Wait, Test, EnterFlow, FirstTrigger,
       ReadModeAgain, ResetTrigger, Grab, ReadDumpMode, ClearDumpMode, Realize, End, At

(* However clients set the dump mode meanwhile, each dump in mode SINGLE   *)
(* answers a request not answered before.                                  *)
THEOREM SingleDumpsAreAsked == Spec => SingleDumpsOnce
<1>1. Init => DumpInv
  BY DEF Init, DumpInv
<1>2. DumpInv /\ [Next]_vars => DumpInv'
  <2> SUFFICES ASSUME DumpInv, [Next]_vars
               PROVE  DumpInv'
    OBVIOUS
  <2> USE DEF DumpInv, steering, history, At
  <2>1. CASE Client
    <3>1. CASE TriggerSynchro \/ StartMainProcess \/ StopMainProcess \/ StopNextProcess
      BY <3>1 DEF TriggerSynchro, StartMainProcess, StopMainProcess, StopNextProcess
    <3>2. CASE \E mode \in NewModes : SetSynchronizationMode(mode)
      BY <3>2 DEF SetSynchronizationMode
    <3>3. CASE \E mode \in NewDumpModes : SetDumpImageMode(mode)
      BY <3>3 DEF SetDumpImageMode
    <3>4. CASE \E p \in ClientProcs : StartProcess(p) \/ StopProcess(p)
      BY <3>4 DEF StartProcess, StopProcess, SetStatus
    <3> QED
      BY <2>1, <3>1, <3>2, <3>3, <3>4 DEF Client
  <2>2. CASE Enter \/ ReadMode
    BY <2>2 DEF Enter, EnterUnchecked, ReadMode
  <2>3. CASE Wait \/ Test
    BY <2>3 DEF Wait, Test
  <2>4. CASE EnterFlow \/ FirstTrigger \/ ReadModeAgain \/ ResetTrigger \/ Grab
    BY <2>4 DEF EnterFlow, FirstTrigger, ReadModeAgain, ResetTrigger, Grab
  <2>5. CASE Dump
    BY <2>5 DEF Dump
  <2>6. CASE ReadDumpMode
    BY <2>6 DEF ReadDumpMode
  <2>7. CASE ClearDumpMode
    BY <2>7 DEF ClearDumpMode
  <2>8. CASE Realize \/ End
    BY <2>8 DEF Realize, End
  <2>9. CASE UNCHANGED vars
    BY <2>9 DEF vars
  <2> QED
    BY <2>1, <2>2, <2>3, <2>4, <2>5, <2>6, <2>7, <2>8, <2>9 DEF Next, ApplyingProcess
<1>3. DumpInv /\ [Next]_vars =>
        [pc = "dump" /\ pc' # pc /\ m_DumpImageMode = "SINGLE" => asked]_vars
  BY DEF DumpInv
<1> QED
  BY <1>1, <1>2, <1>3, PTL DEF Spec, SingleDumpsOnce

-----------------------------------------------------------------------------
(* The data of a frame.                                                    *)

(* How far a call is in the list of processes: those after i have not run. *)
ListInv ==
  /\ i \in 1 .. 6
  /\ done \in [Procs -> Nat]
  /\ pc = "realize" => i \in 1 .. 5
  /\ pc \notin {"enter", "realize", "end"} => i = 1
  /\ pc # "enter" =>
       /\ i < 2 => done["undistort"] = 0
       /\ i < 3 => done["tracker"] = 0
       /\ i < 4 => done["control"] = 0
       /\ i < 6 => done["buffer"] = 0

(* What the processes that have run have made of the image of this call.   *)
ImageOfThisFrame == m_BinaryImages[Wide]

DataInv ==
  pc \in {"realize", "end"} /\ done["undistort"] > 0 =>
    /\ undistorted = ImageOfThisFrame
    /\ done["tracker"] > 0 =>
         /\ pose = ImageOfThisFrame
         /\ done["control"] > 0 => velocity = ImageOfThisFrame
         /\ done["buffer"] > 0 => datum = [image |-> ImageOfThisFrame, cMo |-> ImageOfThisFrame]

(* Whenever clients start and stop the processes, the datum of a call in   *)
(* which the undistortion, the tracker and the buffer were all realized    *)
(* has the image of that call and the pose computed from it.               *)
THEOREM DataOfOneFrame == Spec => []DatumOfThisFrame
<1> DEFINE IInv == ListInv /\ DataInv
<1>1. Init => IInv
  BY DEF Init, ListInv, DataInv, Procs
<1>2. IInv /\ [Next]_vars => IInv'
  <2> SUFFICES ASSUME ListInv, DataInv, [Next]_vars
               PROVE  ListInv' /\ DataInv'
    OBVIOUS
  <2> USE DEF ListInv, DataInv, ImageOfThisFrame, steering, data, grabbing, history, At
  <2>1. CASE Client
    <3>1. CASE TriggerSynchro \/ StartMainProcess
      BY <3>1 DEF TriggerSynchro, StartMainProcess
    <3>2. CASE StopMainProcess
      BY <3>2 DEF StopMainProcess
    <3>3. CASE StopNextProcess
      BY <3>3 DEF StopNextProcess
    <3>4. CASE \E mode \in NewModes : SetSynchronizationMode(mode)
      BY <3>4 DEF SetSynchronizationMode
    <3>5. CASE \E mode \in NewDumpModes : SetDumpImageMode(mode)
      BY <3>5 DEF SetDumpImageMode
    <3>6. CASE \E p \in ClientProcs : StartProcess(p) \/ StopProcess(p)
      BY <3>6 DEF StartProcess, StopProcess, SetStatus
    <3> QED
      BY <2>1, <3>1, <3>2, <3>3, <3>4, <3>5, <3>6 DEF Client
  <2>2. CASE Enter
    BY <2>2 DEF Enter, EnterUnchecked, Procs
  <2>3. CASE ReadMode
    BY <2>3 DEF ReadMode
  <2>4. CASE Wait
    BY <2>4 DEF Wait
  <2>5. CASE Test
    BY <2>5 DEF Test
  <2>6. CASE EnterFlow \/ FirstTrigger \/ ReadModeAgain \/ ResetTrigger
    BY <2>6 DEF EnterFlow, FirstTrigger, ReadModeAgain, ResetTrigger
  <2>7. CASE Grab
    BY <2>7 DEF Grab
  <2>8. CASE Dump \/ ReadDumpMode \/ ClearDumpMode
    <3>1. CASE Dump
      BY <3>1 DEF Dump
    <3>2. CASE ReadDumpMode
      BY <3>2 DEF ReadDumpMode
    <3>3. CASE ClearDumpMode
      BY <3>3 DEF ClearDumpMode
    <3> QED
      BY <2>8, <3>1, <3>2, <3>3
  <2>9. CASE Realize
    <3> USE <2>9 DEF Realize, m_ListOfProcesses
    <3>0. i \in 1 .. 5
      OBVIOUS
    <3>1. CASE i = 1
      BY <3>1 DEF Procs
    <3>2. CASE i = 2
      BY <3>2 DEF Procs
    <3>3. CASE i \in {3, 4}
      BY <3>3 DEF Procs
    <3>4. CASE i = 5
      BY <3>4 DEF Procs
    <3> QED
      BY <3>0, <3>1, <3>2, <3>3, <3>4
  <2>10. CASE End
    BY <2>10 DEF End
  <2>11. CASE UNCHANGED vars
    BY <2>11 DEF vars
  <2> QED
    BY <2>1, <2>2, <2>3, <2>4, <2>5, <2>6, <2>7, <2>8, <2>9, <2>10, <2>11
       DEF Next, ApplyingProcess
<1>3. IInv => DatumOfThisFrame
  BY DEF ListInv, DataInv, DatumOfThisFrame, ImageOfThisFrame, Procs
<1> QED
  BY <1>1, <1>2, <1>3, PTL DEF Spec

=============================================================================
