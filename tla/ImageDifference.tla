-------------------------- MODULE ImageDifference --------------------------
(***************************************************************************)
(* HRP2ImageDifferenceProcess: the difference of each camera's image with  *)
(* the one before, or, once a client asks to buffer, a ring of the images  *)
(* of all its cameras in turn with their stamps.  A client's "SaveImage"   *)
(* writes the ring to files from its own thread, while the loop may be     *)
(* filling it: no lock protects the ring.                                  *)
(*                                                                         *)
(* An image is the camera and the frame it is of, "unset" the memory that  *)
(* nothing was written to yet; the grabber stamps all the images of a      *)
(* frame alike.                                                            *)
(***************************************************************************)
EXTENDS Integers, Sequences

CONSTANTS
  Slots,         \* 33 * 3 * m_NbOfSecondsToGrab
  MaxDifferences \* bound: the frames grabbed

ASSUME DifferenceAssumption == Slots \in Nat \ {0} /\ MaxDifferences \in Nat

VARIABLES
  m_BufferImage,
  m_ImagesOnWhichToProcess,   \* the cameras, in their order
  m_PrevInputImage, m_DifferenceOfImages,
  m_BufferOfImages, m_BufferOfTimeStamp, m_IndexOfImage,
  differing,         \* m_Computing
  differenceAt,      \* the loop: the camera's number in the frame, and what is next
  grabbedFrame,
  saving,            \* SaveImages of the client: the file, and the slot its image is read from
  files,             \* TimeStamp.dat, and the image files: the number, image and stamp of each
  lastDifferenced,   \* history: the frame before this one that was processed
  savedOver,         \* history: the ring was written while it was saved
  saves              \* there was a save

ring == <<m_BufferOfImages, m_BufferOfTimeStamp, m_IndexOfImage>>
differences == <<m_PrevInputImage, m_DifferenceOfImages>>
diffSettings == <<m_BufferImage, m_ImagesOnWhichToProcess, differing>>
savedFiles == <<saving, files, saves>>
differenceVars == <<ring, differences, diffSettings, differenceAt, grabbedFrame, savedFiles,
                    lastDifferenced, savedOver>>

NothingYet == [camera |-> -1, frame |-> 0]
RingIndices == 0 .. Slots - 1
LoopAtRest == [camera |-> 0, at |-> "idle"]
Ahead == {camera \in m_ImagesOnWhichToProcess : camera >= differenceAt.camera}
Smallest(cameras) == CHOOSE c \in cameras : \A d \in cameras : c <= d
NextInFrame == [camera |-> differenceAt.camera + 1, at |-> "frame"]
NotSaving == [at |-> "idle", slot |-> 0, src |-> 0]
Writing == saving.at # "idle"

-----------------------------------------------------------------------------
(* A frame: the loop over the cameras of RealizeTheProcess.                *)

BeginDifference ==
  /\ differenceAt = LoopAtRest /\ grabbedFrame < MaxDifferences
  /\ grabbedFrame' = grabbedFrame + 1
  /\ differenceAt' = IF differing THEN [camera |-> 0, at |-> "frame"] ELSE LoopAtRest
  /\ UNCHANGED <<ring, differences, diffSettings, savedFiles, lastDifferenced, savedOver>>

(* The difference with the previous image, which this one replaces.        *)
Difference ==
  /\ differenceAt.at = "frame" /\ Ahead # {} /\ ~m_BufferImage
  /\ LET c == Smallest(Ahead) IN
     /\ m_DifferenceOfImages' = [m_DifferenceOfImages EXCEPT
                                   ![c] = <<grabbedFrame, m_PrevInputImage[c]>>]
     /\ m_PrevInputImage' = [m_PrevInputImage EXCEPT ![c] = grabbedFrame]
     /\ differenceAt' = [camera |-> c + 1, at |-> "frame"]
  /\ UNCHANGED <<ring, diffSettings, grabbedFrame, savedFiles, lastDifferenced, savedOver>>

(* The image goes to the ring as it is, and replaces the previous one too. *)
BufferTheImage ==
  /\ differenceAt.at = "frame" /\ Ahead # {} /\ m_BufferImage
  /\ LET c == Smallest(Ahead) IN
     /\ m_BufferOfImages' = [m_BufferOfImages EXCEPT
                               ![m_IndexOfImage] = [camera |-> c, frame |-> grabbedFrame]]
     /\ m_PrevInputImage' = [m_PrevInputImage EXCEPT ![c] = grabbedFrame]
     /\ differenceAt' = [camera |-> c, at |-> "stamp"]
  /\ savedOver' = (savedOver \/ Writing)
  /\ UNCHANGED <<m_BufferOfTimeStamp, m_IndexOfImage, m_DifferenceOfImages, diffSettings,
                 grabbedFrame, savedFiles, lastDifferenced>>

StampTheImage ==
  /\ differenceAt.at = "stamp"
  /\ m_BufferOfTimeStamp' = [m_BufferOfTimeStamp EXCEPT ![m_IndexOfImage] = grabbedFrame]
  /\ m_IndexOfImage' = (m_IndexOfImage + 1) % Slots
  /\ differenceAt' = NextInFrame
  /\ savedOver' = (savedOver \/ Writing)
  /\ UNCHANGED <<m_BufferOfImages, differences, diffSettings, grabbedFrame, savedFiles,
                 lastDifferenced>>

EndDifference ==
  /\ differenceAt.at = "frame" /\ Ahead = {}
  /\ differenceAt' = LoopAtRest
  /\ lastDifferenced' = grabbedFrame
  /\ UNCHANGED <<ring, differences, diffSettings, grabbedFrame, savedFiles, savedOver>>

-----------------------------------------------------------------------------
(* The client's calls.                                                     *)

(* "BufferImage": neither "true" nor "false" changes nothing.              *)
SetBufferImage ==
  /\ m_BufferImage' = ~m_BufferImage
  /\ UNCHANGED <<ring, differences, m_ImagesOnWhichToProcess, differing, differenceAt,
                 grabbedFrame, savedFiles, lastDifferenced, savedOver>>

StartOrStopDifference ==
  /\ differing' = ~differing
  /\ UNCHANGED <<ring, differences, m_BufferImage, m_ImagesOnWhichToProcess, differenceAt,
                 grabbedFrame, savedFiles, lastDifferenced, savedOver>>

(* "SaveImage": all the stamps go to one file, if it opens ...             *)
SaveStamps(opens) ==
  /\ ~Writing /\ ~saves
  /\ files' = [stamps |-> IF opens THEN m_BufferOfTimeStamp ELSE <<>>, images |-> <<>>]
  /\ saving' = [NotSaving EXCEPT !.at = "image"] /\ saves' = TRUE
  /\ savedOver' = (differenceAt.at = "stamp")
  /\ UNCHANGED <<ring, differences, diffSettings, differenceAt, grabbedFrame, lastDifferenced>>

(* ... then each slot's stamp to its own file, with the next image of the  *)
(* ring: a file that does not open takes none.                             *)
SaveImage(opens) ==
  /\ Writing
  /\ files' = IF opens
              THEN [files EXCEPT !.images =
                      Append(@, [slot |-> saving.slot, image |-> m_BufferOfImages[saving.src],
                                 stamp |-> m_BufferOfTimeStamp[saving.slot]])]
              ELSE files
  /\ saving' = IF saving.slot + 1 = Slots THEN NotSaving
               ELSE [saving EXCEPT !.slot = @ + 1, !.src = IF opens THEN @ + 1 ELSE @]
  /\ UNCHANGED <<ring, differences, diffSettings, differenceAt, grabbedFrame, saves,
                 lastDifferenced, savedOver>>

-----------------------------------------------------------------------------
(* After SetInputImages and InitializeTheProcess.                          *)
DifferenceInit ==
  /\ m_BufferImage = FALSE /\ differing = FALSE
  /\ m_ImagesOnWhichToProcess \in {{0, 1}, {0, 2}}     \* SetImageOnWhichToProcess
  /\ m_PrevInputImage = [c \in 0 .. 2 |-> 0] /\ m_DifferenceOfImages = [c \in 0 .. 2 |-> <<0, 0>>]
  /\ m_BufferOfImages = [i \in RingIndices |-> NothingYet]
  /\ m_BufferOfTimeStamp = [i \in RingIndices |-> 0] /\ m_IndexOfImage = 0
  /\ differenceAt = LoopAtRest /\ grabbedFrame = 0 /\ lastDifferenced = 0
  /\ saving = NotSaving /\ files = [stamps |-> <<>>, images |-> <<>>]
  /\ savedOver = FALSE /\ saves = FALSE

DifferenceNext ==
  \/ BeginDifference \/ Difference \/ BufferTheImage \/ StampTheImage \/ EndDifference
  \/ SetBufferImage \/ StartOrStopDifference
  \/ \E opens \in BOOLEAN : SaveStamps(opens) \/ SaveImage(opens)

DifferenceSpec == DifferenceInit /\ [][DifferenceNext]_differenceVars

-----------------------------------------------------------------------------
(* Properties.                                                             *)

(* An image that was saved has the stamp of the frame it was grabbed in,   *)
(* in its own file and, if it was written, in the file of all the stamps,  *)
(* unless the loop wrote to the ring meanwhile or a file before it did not *)
(* open: the files after that one have the images of earlier slots.        *)
SavedWithItsStamp ==
  ~savedOver => \A i \in DOMAIN files.images :
    LET file == files.images[i]
    IN  file.slot = i - 1 => /\ file.stamp = file.image.frame
                             /\ files.stamps # <<>> => file.stamp = files.stamps[file.slot]

(* "Difference of Images": a difference is of an image and of the same     *)
(* camera's image of the frame processed before, also when that one went   *)
(* to the ring.                                                            *)
DifferenceOfSuccessiveImages ==
  \A c \in m_ImagesOnWhichToProcess :
    m_DifferenceOfImages[c][1] = grabbedFrame /\ differenceAt # LoopAtRest =>
      m_DifferenceOfImages[c][2] = lastDifferenced
=============================================================================
