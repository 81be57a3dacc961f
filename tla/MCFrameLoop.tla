---------------------------- MODULE MCFrameLoop ----------------------------
(* Instances of FrameLoop for TLC.                                         *)
EXTENDS FrameLoop

BothModes == Modes
TriggerMode == {"TRIGGER"}
FlowMode == {"FLOW"}
NoMode == {}
AllDumpModes == DumpModes
AllProcs == Procs
NoProc == {}

(* For the run about the data of the processes: the state without the      *)
(* history variables and the counter, which decide no step, and with the   *)
(* images numbered from the wide camera's, as no step compares two of them. *)
DataView ==
  LET age(image) == (m_BinaryImages[Wide] - image) % Frames IN
  <<m_Computing, m_TypeOfSynchro, m_SynchroTrigger, m_DumpImageMode, FirstTime, status,
    age(undistorted), age(pose), age(velocity), age(datum.image), age(datum.cMo),
    pc, synchro, ResFromGIFF, NbOfWait, i, stopAt, done>>

(* For the run about the control: the state without the images and what is *)
(* computed from them, which decide no step, and with the frames counted   *)
(* from the last stop, as no step compares two of them.                    *)
ControlView ==
  <<m_Computing, m_TypeOfSynchro, m_SynchroTrigger, m_DumpImageMode, FirstTime, status,
    (m_ImageCounter - atStop) % Frames, pc, synchro, ResFromGIFF, NbOfWait, i, stopAt,
    fresh, asked, done>>
=============================================================================
