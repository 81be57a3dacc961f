---------------------------- MODULE ServerImages ----------------------------
(***************************************************************************)
(* The images the server keeps for its cameras, LowLevelVisionServer's     *)
(* m_Width, m_Height, m_depth and m_BinaryImages, and the frame grabber's  *)
(* own size and format of the same images.                                 *)
(*                                                                         *)
(* Three threads meet here without a lock: the loop grabs into the images  *)
(* and undistorts the wide camera's, a client resizes them                 *)
(* (SetAcquisitionSize), another copies one (getImage).  A size is a       *)
(* number of pixels, a format the bytes of one: "gray" is PGM and RAW.     *)
(***************************************************************************)
EXTENDS Naturals, Sequences, SequencesExt

CONSTANTS
  Semantics,     \* the cameras the server has images for
  ImageSizes,    \* the numbers of pixels a client may ask for
  FirstSize,     \* of the images when the server starts
  Wide,          \* the wide camera's semantic
  Connections    \* the semantics of the cameras that may be on the bus

ASSUME ImageAssumption ==
  /\ ImageSizes \subseteq Nat \ {0} /\ FirstSize \in ImageSizes
  /\ 0 \in Semantics /\ Wide \in Semantics \ {0}
  /\ Connections \subseteq Seq(Semantics)

(* A camera the grabber has made no entry for has the format NoFormat.     *)
NoFormat == "none"
Depths == [gray |-> 1, RGB |-> 3]

VARIABLES
  cameras,         \* the semantics of the connected cameras, in order
  m_Size,          \* m_Width * m_Height of a semantic
  m_depth,
  m_BinaryImages,  \* the number of bytes of a semantic's buffer
  cameraSize,      \* m_ImagesWidth * m_ImagesHeight of the frame grabber
  formatOf,        \* m_Format of the frame grabber, of a semantic's camera
  resize,          \* the SetImagesGrabbedSize under way
  grab,            \* what the loop is at: a GetSingleImage or an undistortion
  copy,            \* the getImage under way
  reformatted,     \* history: the semantics whose format is newer than their size
  away             \* history: those whose last resize did not find their camera

serverImages == <<m_Size, m_depth, m_BinaryImages>>
grabberImages == <<cameras, cameraSize, formatOf>>
imageVars == <<serverImages, grabberImages, resize, grab, copy, reformatted, away>>

Idle == [pc |-> "idle"]
Bytes(s) == m_Size[s] * m_depth[s]
Connected(s) == Contains(cameras, s)
HasFormat(s) == Connected(s) /\ formatOf[s] # NoFormat

(* Whether an image is being resized; an access that a resize of its image *)
(* overlaps may use a buffer that is deleted, and promises nothing; n      *)
(* bytes from the pointer of another are in its buffer if it has as many.  *)
Resizing(s) == resize.pc # "idle" /\ resize.camera = s
Overlapped == [pc |-> "overlapped"]
Begun(access) == IF Resizing(access.camera) THEN Overlapped ELSE access
Unless(access, s) == IF access.pc = "busy" /\ access.camera = s THEN Overlapped ELSE access
Fits(access, n) == n <= m_BinaryImages[access.camera]

-----------------------------------------------------------------------------
(* SetImagesGrabbedSize, behind SetAcquisitionSize: the server's size and  *)
(* the frame grabber's, the depth, and at last the buffer.  The grabber's  *)
(* SetImageSize fails without the camera, and the server goes on.          *)

ResizeServerOnly(s, size) ==
  /\ resize.pc = "idle"
  /\ m_Size' = [m_Size EXCEPT ![s] = size]
  /\ away' = IF Connected(s) THEN away \ {s} ELSE away \union {s}
  /\ resize' = [pc |-> "depth", camera |-> s]
  /\ grab' = Unless(grab, s) /\ copy' = Unless(copy, s)
  /\ UNCHANGED <<m_depth, m_BinaryImages, grabberImages, reformatted>>

SetImagesGrabbedSize(s, size) ==
  /\ resize.pc = "idle"
  /\ m_Size' = [m_Size EXCEPT ![s] = size]
  /\ IF Connected(s)
     THEN cameraSize' = [cameraSize EXCEPT ![s] = size] /\ away' = away \ {s}
     ELSE cameraSize' = cameraSize /\ away' = away \union {s}
  /\ resize' = [pc |-> "depth", camera |-> s]
  /\ grab' = Unless(grab, s) /\ copy' = Unless(copy, s)
  /\ UNCHANGED <<m_depth, m_BinaryImages, cameras, formatOf, reformatted>>

DepthOfLeft ==
  /\ resize.pc = "depth"
  /\ HasFormat(0)
  /\ m_depth' = [m_depth EXCEPT ![resize.camera] = Depths[formatOf[0]]]
  /\ reformatted' = reformatted \ {resize.camera}
  /\ resize' = [resize EXCEPT !.pc = "buffer"]
  /\ UNCHANGED <<m_Size, m_BinaryImages, grabberImages, grab, copy, away>>

(* Of a camera that is not connected the frame grabber knows no format,    *)
(* and the depth stays.                                                    *)
SetDepth ==
  /\ resize.pc = "depth"
  /\ LET s == resize.camera IN
     IF HasFormat(s)
     THEN /\ m_depth' = [m_depth EXCEPT ![s] = Depths[formatOf[s]]]
          /\ reformatted' = reformatted \ {s}
          /\ away' = away
     ELSE m_depth' = m_depth /\ reformatted' = reformatted /\ away' = away \union {s}
  /\ resize' = [resize EXCEPT !.pc = "buffer"]
  /\ UNCHANGED <<m_Size, m_BinaryImages, grabberImages, grab, copy>>

(* The old buffer is deleted, an overlapped access may hold its address.   *)
Reallocate ==
  /\ resize.pc = "buffer"
  /\ m_BinaryImages' = [m_BinaryImages EXCEPT ![resize.camera] = Bytes(resize.camera)]
  /\ resize' = Idle
  /\ UNCHANGED <<m_Size, m_depth, grabberImages, grab, copy, reformatted, away>>

-----------------------------------------------------------------------------
(* The frame grabber's parameter Format is the left camera's, and neither  *)
(* the server's depth nor its buffer follows.                              *)
SetFormat(format) ==
  /\ HasFormat(0)
  /\ formatOf' = [formatOf EXCEPT ![0] = format]
  /\ reformatted' = reformatted \union {0}
  /\ UNCHANGED <<serverImages, cameras, cameraSize, resize, grab, copy, away>>

(* A client stops the board and starts it again in calls of their own:     *)
(* StopBoard empties the list of the cameras, ...                          *)
StopGrabber ==
  /\ cameras' = <<>>
  /\ UNCHANGED <<serverImages, cameraSize, formatOf, resize, grab, copy, reformatted, away>>

(* ... and InitializeBoard finds those that are on the bus then, makes     *)
(* each one's format RGB, unless the detection refuses, and keeps the      *)
(* sizes.                                                                  *)
StartGrabber(refused) ==
  /\ cameras' \in Connections
  /\ IF refused
     THEN UNCHANGED <<formatOf, reformatted>>
     ELSE /\ formatOf' = [s \in Semantics |-> IF Connected(s)' THEN "RGB" ELSE NoFormat]
          /\ reformatted' = reformatted \union {s \in Semantics : formatOf[s] # "RGB"}
  /\ UNCHANGED <<serverImages, cameraSize, resize, grab, copy, away>>

(* GetSingleImage takes the buffer's address and the format, waits for a   *)
(* frame, and writes it in the size that is set by then.                   *)
GrabBegins(s) ==
  /\ grab.pc = "idle" /\ HasFormat(s)
  /\ grab' = Begun([pc |-> "busy", camera |-> s, for |-> "grab", format |-> formatOf[s]])
  /\ UNCHANGED <<serverImages, grabberImages, resize, copy, reformatted, away>>

(* The undistortion converts the wide camera's image from RGB, as large as *)
(* it was when the server was built.                                       *)
UndistortBegins ==
  /\ grab.pc = "idle"
  /\ grab' = Begun([pc |-> "busy", camera |-> Wide, for |-> "undistort"])
  /\ UNCHANGED <<serverImages, grabberImages, resize, copy, reformatted, away>>

LoopAccessEnds ==
  /\ grab # Idle
  /\ grab' = Idle
  /\ UNCHANGED <<serverImages, grabberImages, resize, copy, reformatted, away>>

(* getImage makes the reply's length and then copies up to the size of the *)
(* moment.                                                                 *)
CopyBegins(s) ==
  /\ copy.pc = "idle"
  /\ copy' = Begun([pc |-> "busy", camera |-> s, length |-> Bytes(s)])
  /\ UNCHANGED <<serverImages, grabberImages, resize, grab, reformatted, away>>

CopyEnds ==
  /\ copy # Idle
  /\ copy' = Idle
  /\ UNCHANGED <<serverImages, grabberImages, resize, grab, reformatted, away>>

-----------------------------------------------------------------------------
(* The constructor sizes every image; the depth of a camera that is not    *)
(* there is 0.                                                             *)
ImagesInit ==
  /\ cameras \in Connections
  /\ m_Size = [s \in Semantics |-> FirstSize]
  /\ formatOf = [s \in Semantics |-> IF Connected(s) THEN "RGB" ELSE NoFormat]
  /\ m_depth = [s \in Semantics |-> IF Connected(s) THEN 3 ELSE 0]
  /\ m_BinaryImages = [s \in Semantics |-> Bytes(s)]
  /\ cameraSize = [s \in Semantics |-> IF Connected(s) THEN FirstSize ELSE 0]
  /\ resize = Idle /\ grab = Idle /\ copy = Idle
  /\ reformatted = {} /\ away = {s \in Semantics : ~Connected(s)}

ImagesNext ==
  \/ \E s \in Semantics, size \in ImageSizes : SetImagesGrabbedSize(s, size)
  \/ SetDepth \/ Reallocate \/ UndistortBegins \/ LoopAccessEnds \/ CopyEnds
  \/ StopGrabber \/ \E refused \in BOOLEAN : StartGrabber(refused)
  \/ \E format \in DOMAIN Depths : SetFormat(format)
  \/ \E s \in Semantics : GrabBegins(s) \/ CopyBegins(s)

ImagesSpec == ImagesInit /\ [][ImagesNext]_imageVars

-----------------------------------------------------------------------------
(* Properties.                                                             *)

(* Between two resizes each buffer has the bytes the server's size and     *)
(* depth call for, and the frame grabber keeps the same size: getImage,    *)
(* the undistortion and the stack trust the server's, the grab the other.  *)
(* Of a camera that was not there when its image was resized, as each is   *)
(* while the grabber is stopped, the grabber's size is an older one.       *)
SizesAgree ==
  resize = Idle =>
    \A s \in Semantics : /\ m_BinaryImages[s] = Bytes(s)
                         /\ s \notin away => cameraSize[s] = m_Size[s]

(* A frame is written inside of the image it belongs to, the undistortion  *)
(* reads and a reply of getImage holds one whole image, unless a resize    *)
(* overlapped the access.  The exceptions are images nothing but a resize  *)
(* brings up to date: one whose camera was not there at the last resize or *)
(* got another format since, and, for the undistortion, one made smaller   *)
(* or whose camera was never there.                                        *)
GrabInImage ==
  \/ Fits(grab, cameraSize[grab.camera] * Depths[grab.format])
  \/ grab.camera \in reformatted \union away

UndistortInImage ==
  \/ Fits(grab, FirstSize * Depths["RGB"])
  \/ m_Size[Wide] < FirstSize \/ m_depth[Wide] = 0

ReplyIsWhole == Fits(copy, Bytes(copy.camera)) /\ copy.length = Bytes(copy.camera)

AccessesStayInImages ==
  [][ /\ grab.pc = "busy" /\ grab' = Idle =>
           IF grab.for = "grab" THEN GrabInImage ELSE UndistortInImage
      /\ copy.pc = "busy" /\ copy' = Idle => ReplyIsWhole
    ]_imageVars
=============================================================================
