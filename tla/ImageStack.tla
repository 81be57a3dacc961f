----------------------------- MODULE ImageStack -----------------------------
(***************************************************************************)
(* The memory stack of the server for the option checkEntry: every grabbed *)
(* image is copied to a ring of m_MaxSI slots, and when the server ends    *)
(* RecordImagesOnDisk writes the ring to files.                            *)
(*                                                                         *)
(* Images are stored under the number li of their camera and all slots     *)
(* have camera 0's size.  A frame is its number in the order of grabbing.  *)
(***************************************************************************)
EXTENDS Naturals, Selection

CONSTANTS
  CameraCounts,   \* the numbers of cameras that may be connected
  m_MaxSI,        \* the slots, 33*60 in the code
  MaxStored       \* bound: the images stored

ASSUME StackAssumption ==
  /\ CameraCounts \subseteq 1 .. 4
  /\ m_MaxSI \in Nat \ {0} /\ MaxStored \in Nat
  /\ \A n \in CameraCounts : m_MaxSI % n = 0

Unset == [frame |-> 0, side |-> 0]

VARIABLES
  m_NumberOfImagesToStack,
  m_IndexSI,
  stack,           \* m_StoredTimeStamp and m_SideOfTheImage of each slot
  li,              \* where the loop is in its pass over the cameras
  stored,          \* history: what was stored, in this order
  missed           \* history: a camera had no image in some pass

stackVars == <<m_NumberOfImagesToStack, m_IndexSI, stack, li, stored, missed>>

-----------------------------------------------------------------------------

(* The next slot, the first again after the last.                          *)
NextSlot == IF m_IndexSI + 1 = m_MaxSI THEN 0 ELSE m_IndexSI + 1

(* The last camera is followed by the next pass.                           *)
NextCamera == (li + 1) % m_NumberOfImagesToStack

StoreImageOnStack(image) ==
  LET datum == [frame |-> Len(stored) + 1, side |-> image] IN
  /\ stack' = [stack EXCEPT ![m_IndexSI] = datum]
  /\ stored' = Append(stored, datum)
  /\ m_IndexSI' = NextSlot

(* GetImageFromFrameGrabber: the camera is due and its grab succeeded; the *)
(* third camera is not stored.                                             *)
Grabbed ==
  /\ Len(stored) < MaxStored
  /\ IF li # 2 THEN StoreImageOnStack(li) ELSE UNCHANGED <<stack, stored, m_IndexSI>>
  /\ li' = NextCamera
  /\ UNCHANGED <<m_NumberOfImagesToStack, missed>>

(* It was not due yet, or its grab failed.                                 *)
NotGrabbed ==
  /\ Len(stored) < MaxStored
  /\ li' = NextCamera
  /\ missed' = TRUE
  /\ UNCHANGED <<m_NumberOfImagesToStack, stack, stored, m_IndexSI>>

(* CreateStack, before the loop starts; the arrays are not cleared.        *)
StackInit ==
  /\ m_NumberOfImagesToStack \in CameraCounts
  /\ m_IndexSI = 0
  /\ stack = [i \in 0 .. m_MaxSI - 1 |-> Unset]
  /\ li = 0 /\ stored = <<>> /\ missed = FALSE

StackNext == Grabbed \/ NotGrabbed
StackSpec == StackInit /\ [][StackNext]_stackVars

-----------------------------------------------------------------------------
(* What RecordImagesOnDisk writes.                                         *)

StampsInBlocks(camera) ==
  LET n == m_MaxSI \div m_NumberOfImagesToStack
  IN  [j \in 1 .. n |-> stack[camera * n + j - 1]]

(* The stamps of the file TimeStampNN.dat of a camera: the images of the   *)
(* cameras are taken to alternate in the ring.                             *)
TimeStampFile(camera) ==
  [j \in 1 .. m_MaxSI \div m_NumberOfImagesToStack |->
     stack[(j - 1) * m_NumberOfImagesToStack + camera]]

(* The images dumpcheckNNNNNN_MM of a camera, from slot 0 on.              *)
DataOf(sides) == [frame : 1 .. MaxStored, side : sides]
DumpFiles(camera) == Selected([i \in 1 .. m_MaxSI |-> stack[i - 1]], DataOf({camera}))

Cameras == 0 .. m_NumberOfImagesToStack - 1

-----------------------------------------------------------------------------
(* Properties.                                                             *)

StackTypeOK ==
  /\ m_IndexSI \in 0 .. m_MaxSI - 1
  /\ DOMAIN stack = 0 .. m_MaxSI - 1
  /\ li \in Cameras /\ missed \in BOOLEAN

(* A camera's stamps and a camera's images are written to two files each   *)
(* by a rule of its own: the stamps by the slot's number, the images by    *)
(* the side kept with it.  They name the same images as long as no camera  *)
(* ever missed a pass, and there is no third camera.                       *)
StampsOfTheImages ==
  ~missed /\ m_NumberOfImagesToStack # 3 /\ m_NumberOfImagesToStack # 4 =>
    \A camera \in Cameras :
      Selected(TimeStampFile(camera), DataOf(Cameras)) = DumpFiles(camera)
=============================================================================
