---------------------------- MODULE ImagesProofs ----------------------------
(***************************************************************************)
(* Theorems about the images the server keeps (ServerImages), for any      *)
(* cameras and sizes, about those that come from files (FileImages,        *)
(* StampedFiles), and about the processes that get them: conversions,      *)
(* differences, points of interest and the two SLAM processes.             *)
(***************************************************************************)
EXTENDS ServerImages, ImageConversion, StampedFiles, FileImages, HarrisPoints, BattleSlam,
        SlamSensors, SelectionProofs

-----------------------------------------------------------------------------
(* Products and quotients of any numbers.                                  *)

LEMMA ProductGrows ==
  ASSUME NEW T \in Nat, NEW a \in Int, NEW b \in Int, a <= b
  PROVE  T * a <= T * b
<1>1. T * (b - a) >= 0
  OBVIOUS
<1> QED
  BY <1>1

LEMMA ProductIsNumber ==
  ASSUME NEW a \in Nat, NEW b \in Nat
  PROVE  a * b \in Nat /\ (a > 0 /\ b > 0 => a * b > 0)
<1>1. a * 0 <= a * b
  BY ProductGrows
<1>2. a > 0 /\ b > 0 => a * 1 <= a * b
  BY ProductGrows
<1> QED
  BY <1>1, <1>2

LEMMA Quotient ==
  ASSUME NEW T \in Nat \ {0}, NEW a \in Nat
  PROVE  /\ a \div T \in Nat /\ a % T \in 0 .. T - 1
         /\ a = T * (a \div T) + (a % T)
<1>1. a % T \in 0 .. T - 1
  OBVIOUS
<1>2. a = T * (a \div T) + (a % T)
  OBVIOUS
<1>3. a \div T \in Int
  OBVIOUS
<1>4. a \div T >= 0
  <2>1. CASE a \div T <= 0 - 1
    <3>1. T * (a \div T) <= T * (0 - 1)
      BY <1>3, <2>1, ProductGrows
    <3> QED
      BY <1>1, <1>2, <1>3, <3>1
  <2> QED
    BY <1>3, <2>1
<1> QED
  BY <1>1, <1>2, <1>3, <1>4

(* The number of a place in rows of one width gives its row and its column.*)
LEMMA PlaceInRows ==
  ASSUME NEW W \in Nat, NEW x \in 0 .. W - 1, NEW u \in 0 .. W - 1, NEW y \in Nat, NEW v \in Nat,
         y * W + x = v * W + u
  PROVE  x = u /\ y = v
<1>1. ASSUME NEW i \in 0 .. W - 1, NEW j \in 0 .. W - 1, NEW m \in Nat, NEW n \in Nat, m < n
      PROVE  m * W + i # n * W + j
  <2>1. W * (m + 1) <= W * n
    BY <1>1, ProductGrows
  <2>2. W * (m + 1) = m * W + W /\ W * n = n * W
    OBVIOUS
  <2> QED
    BY <2>1, <2>2
<1>2. y = v
  BY <1>1
<1> QED
  BY <1>2

LEMMA RowAndColumn ==
  ASSUME NEW W \in Nat \ {0}, NEW x \in 0 .. W - 1, NEW y \in Nat
  PROVE  (y * W + x) \div W = y /\ (y * W + x) % W = x
<1> DEFINE a == y * W + x
<1>1. a \in Nat
  BY ProductIsNumber
<1> HIDE DEF a
<1>2. a \div W \in Nat /\ a % W \in 0 .. W - 1 /\ a = W * (a \div W) + (a % W)
  BY <1>1, Quotient
<1> DEFINE q == a \div W
           r == a % W
<1> HIDE DEF q, r
<1>3. q \in Nat /\ r \in 0 .. W - 1 /\ a = q * W + r
  BY <1>2 DEF q, r
<1>4. r = x /\ q = y
  BY <1>3, PlaceInRows DEF a
<1> QED
  BY <1>4 DEF a, q, r

-----------------------------------------------------------------------------
(* The server's images and their sizes (ImagesSpec).                       *)

Grabs == [pc : {"busy"}, camera : Semantics, for : {"grab"}, format : DOMAIN Depths]
Undistortions == [pc : {"busy"}, camera : {Wide}, for : {"undistort"}]
Copies == [pc : {"busy"}, camera : Semantics, length : Nat]
Resizes == [pc : {"depth", "buffer"}, camera : Semantics]

ImageTypes ==
  /\ m_Size \in [Semantics -> Nat] /\ m_depth \in [Semantics -> Nat]
  /\ m_BinaryImages \in [Semantics -> Nat] /\ cameraSize \in [Semantics -> Nat]
  /\ formatOf \in [Semantics -> DOMAIN Depths \union {NoFormat}]
  /\ resize \in {Idle} \union Resizes
  /\ grab \in {Idle, Overlapped} \union Grabs \union Undistortions
  /\ copy \in {Idle, Overlapped} \union Copies

(* Only the image that is being resized has another size than its buffer.  *)
BuffersOfTheirSize ==
  \A s \in Semantics :
    /\ (resize # Idle => resize.camera # s) => m_BinaryImages[s] = Bytes(s)
    /\ s \notin away => cameraSize[s] = m_Size[s]

(* A camera whose depth is another than its format was away or has been    *)
(* given a new format since its last resize, or this is under way; the     *)
(* wide camera's format never is another.                                  *)
DepthsOfTheirFormat ==
  /\ \A s \in Semantics :
       /\ s \notin reformatted \union away /\ formatOf[s] # NoFormat
       /\ ~(resize.pc = "depth" /\ resize.camera = s)
       => m_depth[s] = Depths[formatOf[s]]
  /\ formatOf[Wide] \in {"RGB", NoFormat} /\ m_depth[Wide] \in {0, 3}

(* An access of an image that is being resized is an overlapped one.       *)
NotResized(access) == access.pc = "busy" /\ resize # Idle => resize.camera # access.camera

(* What an access that none overlapped noted when it began still holds.    *)
GrabStands ==
  grab \in Grabs /\ grab.camera \notin reformatted \union away => grab.format = formatOf[grab.camera]
CopyStands == copy \in Copies => copy.length = Bytes(copy.camera)

ImagesInv ==
  /\ ImageTypes /\ BuffersOfTheirSize /\ DepthsOfTheirFormat
  /\ NotResized(grab) /\ NotResized(copy) /\ GrabStands /\ CopyStands

LEMMA TwoDepths == DOMAIN Depths = {"gray", "RGB"} /\ Depths["gray"] = 1 /\ Depths["RGB"] = 3
  BY DEF Depths

LEMMA ImagesStart == ImagesInit => ImagesInv
<1> SUFFICES ASSUME ImagesInit PROVE ImagesInv
  OBVIOUS
<1> USE ImageAssumption, TwoDepths DEF ImagesInit
<1>1. /\ m_Size \in [Semantics -> Nat] /\ m_depth \in [Semantics -> Nat]
      /\ cameraSize \in [Semantics -> Nat] /\ \A s \in Semantics : Bytes(s) \in Nat
  BY DEF Bytes
<1>2. ImageTypes
  BY <1>1 DEF ImageTypes
<1>3. BuffersOfTheirSize /\ DepthsOfTheirFormat
  BY <1>1 DEF BuffersOfTheirSize, DepthsOfTheirFormat, NoFormat
<1>4. NotResized(grab) /\ NotResized(copy) /\ GrabStands /\ CopyStands
  BY DEF NotResized, GrabStands, CopyStands, Idle, Grabs, Copies
<1> QED
  BY <1>2, <1>3, <1>4 DEF ImagesInv

(* Each operation keeps the types and the sizes, ...                       *)
LEMMA SizesStep ==
  ASSUME ImagesInv, [ImagesNext]_imageVars
  PROVE  (ImageTypes /\ BuffersOfTheirSize /\ DepthsOfTheirFormat)'
<1> USE ImageAssumption, TwoDepths
<1> DEFINE Kept == (ImageTypes /\ BuffersOfTheirSize /\ DepthsOfTheirFormat)'
<1>0. ImageTypes /\ BuffersOfTheirSize /\ DepthsOfTheirFormat
  BY DEF ImagesInv
<1>1. ASSUME NEW s \in Semantics, NEW size \in ImageSizes, SetImagesGrabbedSize(s, size)
      PROVE  Kept
  <2> USE <1>0, <1>1 DEF SetImagesGrabbedSize
  <2>1. ImageTypes'
    BY DEF ImageTypes, Resizes, Unless
  <2>0. resize' # Idle /\ resize'.camera = s /\ resize = Idle
    BY DEF ImageTypes, Idle, Resizes
  <2>2. BuffersOfTheirSize'
    <3> SUFFICES ASSUME NEW t \in Semantics
                 PROVE  /\ t # s => m_BinaryImages'[t] = Bytes(t)'
                        /\ t \notin away' => cameraSize'[t] = m_Size'[t]
      BY <2>0 DEF BuffersOfTheirSize
    <3>1. t # s => m_Size'[t] = m_Size[t] /\ cameraSize'[t] = cameraSize[t]
                   /\ (t \in away' <=> t \in away)
      BY DEF ImageTypes
    <3>2. t # s => m_BinaryImages[t] = Bytes(t) /\ (t \notin away => cameraSize[t] = m_Size[t])
      BY <2>0 DEF BuffersOfTheirSize
    <3>3. s \notin away' => cameraSize'[s] = size /\ m_Size'[s] = size
      BY DEF ImageTypes
    <3> QED
      BY <3>1, <3>2, <3>3 DEF Bytes
  <2>3. DepthsOfTheirFormat'
    <3>1. /\ resize.pc = "idle" /\ resize' = [pc |-> "depth", camera |-> s]
          /\ UNCHANGED <<formatOf, m_depth, reformatted>>
      OBVIOUS
    <3>2. \A t \in Semantics : t # s /\ t \notin away' => t \notin away
      OBVIOUS
    <3> QED
      BY <3>1, <3>2 DEF DepthsOfTheirFormat
  <2> QED
    BY <2>1, <2>2, <2>3
<1>2. CASE SetDepth
  <2> USE <1>0, <1>2 DEF SetDepth
  <2>0. /\ resize \in Resizes /\ resize # Idle /\ resize' # Idle
        /\ resize' = [pc |-> "buffer", camera |-> resize.camera]
    BY SMTT(30) DEF ImageTypes, Resizes, Idle
  <2>1. ImageTypes'
    <3>1. HasFormat(resize.camera) => formatOf[resize.camera] \in DOMAIN Depths
      BY <2>0 DEF ImageTypes, Resizes, HasFormat
    <3>2. m_depth' \in [Semantics -> Nat]
      <4>1. m_depth \in [Semantics -> Nat]
        BY DEF ImageTypes
      <4>2. \A format \in DOMAIN Depths : Depths[format] \in Nat
        BY TwoDepths
      <4>3. CASE HasFormat(resize.camera)
        <5>1. m_depth' = [m_depth EXCEPT ![resize.camera] = Depths[formatOf[resize.camera]]]
          BY <4>3
        <5> HIDE <1>2 DEF SetDepth
        <5> QED
          BY <3>1, <4>1, <4>2, <4>3, <5>1
      <4>4. CASE ~HasFormat(resize.camera)
        BY <4>1, <4>4
      <4> QED
        BY <4>3, <4>4
    <3>3. resize' \in Resizes
      BY <2>0 DEF Resizes
    <3>4. UNCHANGED <<cameras, m_Size, m_BinaryImages, cameraSize, formatOf, grab, copy>>
      BY DEF grabberImages
    <3> HIDE <1>2 DEF SetDepth
    <3> QED
      BY <3>2, <3>3, <3>4 DEF ImageTypes
  <2> DEFINE c == resize.camera
  <2>a. /\ resize'.pc = "buffer" /\ resize'.camera = c /\ c \in Semantics
        /\ UNCHANGED <<m_Size, m_BinaryImages, cameraSize, formatOf>>
    BY <2>0 DEF Resizes, grabberImages
  <2>b. /\ \A s \in Semantics : s # c => m_depth'[s] = m_depth[s]
        /\ \A s \in Semantics : s # c /\ s \notin away' => s \notin away
        /\ \A s \in Semantics : s # c /\ s \notin reformatted' => s \notin reformatted
    BY <2>a DEF ImageTypes
  <2>c. HasFormat(c) => m_depth'[c] = Depths[formatOf[c]] /\ away' = away
    BY <2>a DEF ImageTypes
  <2>d. ~HasFormat(c) => m_depth'[c] = m_depth[c] /\ c \in away'
    BY <2>a DEF ImageTypes
  <2>3. BuffersOfTheirSize'
    <3>1. \A s \in Semantics : s \notin away' => s \notin away
      BY <2>b, <2>c, <2>d
    <3> QED
      BY <2>0, <2>a, <2>b, <3>1 DEF BuffersOfTheirSize, Bytes
  <2>4. DepthsOfTheirFormat'
    <3>1. ASSUME NEW s \in Semantics, s \notin reformatted' \union away', formatOf'[s] # NoFormat
          PROVE  m_depth'[s] = Depths[formatOf'[s]]
      <4>1. CASE s = c
        BY <2>a, <2>c, <2>d, <3>1, <4>1
      <4>2. CASE s # c
        BY <2>a, <2>b, <3>1, <4>2 DEF DepthsOfTheirFormat
      <4> QED
        BY <4>1, <4>2
    <3>2. m_depth'[Wide] \in {0, 3} /\ formatOf'[Wide] \in {"RGB", NoFormat}
      <4>1. CASE Wide = c
        BY <2>a, <2>c, <2>d, <4>1 DEF DepthsOfTheirFormat, HasFormat
      <4>2. CASE Wide # c
        BY <2>a, <2>b, <4>2 DEF DepthsOfTheirFormat
      <4> QED
        BY <4>1, <4>2
    <3> QED
      BY <3>1, <3>2 DEF DepthsOfTheirFormat
  <2> QED
    BY <2>1, <2>3, <2>4
<1>3. CASE Reallocate
  <2> USE <1>0, <1>3 DEF Reallocate
  <2>0. resize \in Resizes /\ resize' = Idle /\ Bytes(resize.camera) \in Nat
    BY DEF ImageTypes, Resizes, Idle, Bytes
  <2>1. ImageTypes'
    BY <2>0 DEF ImageTypes, Resizes, grabberImages
  <2>2. BuffersOfTheirSize' /\ DepthsOfTheirFormat'
    BY <2>0 DEF ImageTypes, BuffersOfTheirSize, DepthsOfTheirFormat, Bytes, Resizes, grabberImages
  <2> QED
    BY <2>1, <2>2
<1>4. ASSUME NEW format \in DOMAIN Depths, SetFormat(format) PROVE Kept
  BY <1>0, <1>4 DEF SetFormat, serverImages, ImageTypes, BuffersOfTheirSize, DepthsOfTheirFormat,
                    Bytes
<1>5. CASE StopGrabber
  BY <1>0, <1>5 DEF StopGrabber, serverImages, ImageTypes, BuffersOfTheirSize,
                    DepthsOfTheirFormat, Bytes
<1>6. ASSUME NEW refused \in BOOLEAN, StartGrabber(refused) PROVE Kept
  <2> USE <1>0, <1>6 DEF StartGrabber, serverImages
  <2>1. ImageTypes' /\ BuffersOfTheirSize'
    <3>1. formatOf' \in [Semantics -> DOMAIN Depths \union {NoFormat}]
      BY DEF ImageTypes
    <3> QED
      BY <3>1 DEF ImageTypes, BuffersOfTheirSize, Bytes
  <2>2. CASE refused
    BY <2>1, <2>2 DEF DepthsOfTheirFormat
  <2>3. CASE ~refused
    <3>1. /\ formatOf' \in [Semantics -> {"RGB", NoFormat}]
          /\ UNCHANGED <<m_depth, away>>
          /\ reformatted' = reformatted \union {s \in Semantics : formatOf[s] # "RGB"}
      BY <2>3
    <3>2. ASSUME NEW s \in Semantics, s \notin reformatted' \union away', formatOf'[s] # NoFormat,
                 ~(resize.pc = "depth" /\ resize.camera = s)
          PROVE  m_depth'[s] = Depths[formatOf'[s]]
      <4>1. formatOf[s] = "RGB" /\ formatOf'[s] = "RGB" /\ s \notin reformatted \union away
        BY <3>1, <3>2
      <4> QED
        BY <3>1, <3>2, <4>1 DEF DepthsOfTheirFormat, NoFormat
    <3> QED
      BY <2>1, <3>1, <3>2 DEF DepthsOfTheirFormat
  <2> QED
    BY <2>1, <2>2, <2>3
<1>7. ASSUME \/ UndistortBegins \/ LoopAccessEnds \/ CopyEnds \/ UNCHANGED imageVars
             \/ \E s \in Semantics : GrabBegins(s) \/ CopyBegins(s)
      PROVE  Kept
  <2>0. UNCHANGED <<serverImages, grabberImages, resize, reformatted, away>>
    BY <1>7 DEF UndistortBegins, LoopAccessEnds, CopyEnds, GrabBegins, CopyBegins, imageVars
  <2>1. /\ grab' \in {Idle, Overlapped} \union Grabs \union Undistortions
        /\ copy' \in {Idle, Overlapped} \union Copies
    <3> DEFINE Access == /\ grab' \in {Idle, Overlapped} \union Grabs \union Undistortions
                         /\ copy' \in {Idle, Overlapped} \union Copies
    <3>0. /\ \A s \in Semantics : Bytes(s) \in Nat
          /\ \A s \in Semantics : HasFormat(s) => formatOf[s] \in DOMAIN Depths
          /\ grab \in {Idle, Overlapped} \union Grabs \union Undistortions
          /\ copy \in {Idle, Overlapped} \union Copies
      BY <1>0 DEF Bytes, ImageTypes, HasFormat
    <3>1. CASE UndistortBegins
      BY <3>0, <3>1 DEF UndistortBegins, Undistortions, Begun
    <3>2. CASE LoopAccessEnds \/ CopyEnds \/ UNCHANGED imageVars
      BY <3>0, <3>2 DEF LoopAccessEnds, CopyEnds, imageVars
    <3>3. ASSUME NEW s \in Semantics, GrabBegins(s) PROVE Access
      BY <3>0, <3>3 DEF GrabBegins, Grabs, Begun
    <3>4. ASSUME NEW s \in Semantics, CopyBegins(s) PROVE Access
      BY <3>0, <3>4 DEF CopyBegins, Copies, Begun
    <3> QED
      BY <1>7, <3>1, <3>2, <3>3, <3>4
  <2> QED
    BY <1>0, <2>0, <2>1 DEF serverImages, grabberImages, ImageTypes, BuffersOfTheirSize,
                            DepthsOfTheirFormat, Bytes
<1> QED
  BY <1>1, <1>2, <1>3, <1>4, <1>5, <1>6, <1>7 DEF ImagesNext

(* ... and an access that no resize overlaps what it noted.                *)
LEMMA AccessesStep ==
  ASSUME ImagesInv, [ImagesNext]_imageVars, ImageTypes'
  PROVE  (NotResized(grab) /\ NotResized(copy) /\ GrabStands /\ CopyStands)'
<1> USE ImageAssumption, TwoDepths
<1> DEFINE Kept == (NotResized(grab) /\ NotResized(copy) /\ GrabStands /\ CopyStands)'
<1>0. /\ ImageTypes /\ NotResized(grab) /\ NotResized(copy) /\ GrabStands /\ CopyStands
      /\ grab \in Grabs => grab.pc = "busy" /\ grab.camera \in Semantics
      /\ copy \in Copies => copy.pc = "busy" /\ copy.camera \in Semantics
      /\ Idle.pc = "idle" /\ Idle \notin Resizes /\ Overlapped.pc = "overlapped"
      /\ Overlapped \notin Grabs /\ Overlapped \notin Copies
      /\ Idle \notin Grabs /\ Idle \notin Copies
  BY DEF ImagesInv, Grabs, Copies, Idle, Resizes, Overlapped
<1>1. ASSUME NEW s \in Semantics, NEW size \in ImageSizes, SetImagesGrabbedSize(s, size)
      PROVE  Kept
  <2> USE <1>0, <1>1 DEF SetImagesGrabbedSize
  <2>1. /\ resize'.camera = s
        /\ grab'.pc = "busy" \/ grab' \in Grabs => grab' = grab /\ grab.camera # s
        /\ copy'.pc = "busy" \/ copy' \in Copies => copy' = copy /\ copy.camera # s
    BY DEF Unless
  <2>2. NotResized(grab)' /\ NotResized(copy)' /\ GrabStands'
    BY <2>1 DEF NotResized, GrabStands
  <2>3. CopyStands'
    BY <2>1 DEF CopyStands, Bytes, ImageTypes
  <2> QED
    BY <2>2, <2>3
<1>2. CASE SetDepth
  <2> USE <1>0, <1>2 DEF SetDepth
  <2>a. resize \in Resizes
    BY DEF ImageTypes
  <2>b. resize' = [pc |-> "buffer", camera |-> resize.camera] /\ resize # Idle
    BY <2>a DEF Resizes
  <2>0. resize'.camera = resize.camera /\ resize.camera \in Semantics
    BY <2>a, <2>b DEF Resizes
  <2>1. NotResized(grab)' /\ NotResized(copy)'
    BY <2>0, <2>b DEF NotResized
  <2>2. GrabStands'
    BY <2>0, <2>b DEF GrabStands, NotResized, grabberImages
  <2>3. CopyStands'
    BY <2>0, <2>b DEF CopyStands, Bytes, NotResized, ImageTypes
  <2> QED
    BY <2>1, <2>2, <2>3
<1>3. CASE Reallocate
  BY <1>0, <1>3 DEF Reallocate, NotResized, GrabStands, CopyStands, Bytes, grabberImages
<1>4. ASSUME NEW format \in DOMAIN Depths, SetFormat(format) PROVE Kept
  BY <1>0, <1>4 DEF SetFormat, serverImages, NotResized, GrabStands, CopyStands, Bytes, ImageTypes
<1>5. CASE StopGrabber
  BY <1>0, <1>5 DEF StopGrabber, serverImages, NotResized, GrabStands, CopyStands, Bytes
<1>6. ASSUME NEW refused \in BOOLEAN, StartGrabber(refused) PROVE Kept
  <2> USE <1>0, <1>6 DEF StartGrabber, serverImages
  <2>1. NotResized(grab)' /\ NotResized(copy)' /\ CopyStands'
    BY DEF NotResized, CopyStands, Bytes
  <2>2. CASE refused
    BY <2>1, <2>2 DEF GrabStands
  <2>3. CASE ~refused
    <3> SUFFICES ASSUME grab \in Grabs, grab.camera \notin reformatted' \union away
                 PROVE  grab.format = formatOf'[grab.camera]
      BY <2>1 DEF GrabStands
    <3>1. grab.camera \notin reformatted \union away /\ formatOf[grab.camera] = "RGB"
      BY <2>3
    <3>2. formatOf'[grab.camera] \in {"RGB", NoFormat}
      BY <2>3
    <3> QED
      BY <3>1 DEF GrabStands
  <2> QED
    BY <2>2, <2>3
<1>7. CASE UNCHANGED imageVars \/ LoopAccessEnds \/ CopyEnds
  BY <1>0, <1>7 DEF LoopAccessEnds, CopyEnds, imageVars, serverImages, grabberImages, NotResized,
                    GrabStands, CopyStands, Bytes
<1>8. CASE UndistortBegins
  BY <1>0, <1>8 DEF UndistortBegins, serverImages, grabberImages, Resizing, Begun, ImageTypes,
                    Resizes, NotResized, GrabStands, CopyStands, Bytes, Grabs
<1>9. ASSUME NEW s \in Semantics, GrabBegins(s) PROVE Kept
  BY <1>0, <1>9 DEF GrabBegins, serverImages, grabberImages, Resizing, Begun, ImageTypes,
                    Resizes, NotResized, GrabStands, CopyStands, Bytes
<1>10. ASSUME NEW s \in Semantics, CopyBegins(s) PROVE Kept
  BY <1>0, <1>10 DEF CopyBegins, serverImages, grabberImages, Resizing, Begun, ImageTypes,
                     Resizes, NotResized, GrabStands, CopyStands, Bytes
<1> QED
  BY <1>1, <1>2, <1>3, <1>4, <1>5, <1>6, <1>7, <1>8, <1>9, <1>10 DEF ImagesNext

LEMMA ImagesHold == ImagesSpec => []ImagesInv
<1>1. ImagesInv /\ [ImagesNext]_imageVars => ImagesInv'
  BY SizesStep, AccessesStep DEF ImagesInv
<1> QED
  BY <1>1, ImagesStart, PTL DEF ImagesSpec

(* Between two resizes each buffer has the bytes the server's size and     *)
(* depth call for, and the frame grabber keeps the same size of an image   *)
(* whose camera was there at its last resize, for any cameras and sizes,   *)
(* whenever clients stop and start the grabber.                            *)
THEOREM SizesRight == ImagesSpec => []SizesAgree
<1>1. ImagesInv => SizesAgree
  BY DEF ImagesInv, BuffersOfTheirSize, SizesAgree
<1> QED
  BY <1>1, ImagesHold, PTL

(* What a grab or an undistortion that no resize overlapped does when it   *)
(* ends: the frame is in the buffer it was given.                          *)
LEMMA LoopInImage ==
  ASSUME ImagesInv, grab \in Grabs \union Undistortions
  PROVE  IF grab.for = "grab" THEN GrabInImage ELSE UndistortInImage
<1> USE ImageAssumption, TwoDepths
<1>0. grab.camera \in Semantics /\ m_BinaryImages[grab.camera] = Bytes(grab.camera)
  BY DEF ImagesInv, NotResized, BuffersOfTheirSize, Grabs, Undistortions
<1>1. CASE grab \in Grabs
  <2>1. grab.for = "grab" /\ m_Size[grab.camera] \in Nat
    BY <1>0, <1>1 DEF ImagesInv, Grabs, ImageTypes
  <2>2. ASSUME grab.camera \notin reformatted \union away
        PROVE  /\ cameraSize[grab.camera] = m_Size[grab.camera]
               /\ m_depth[grab.camera] = Depths[grab.format] /\ Depths[grab.format] \in Nat
    <3>1. grab.format \in DOMAIN Depths /\ grab.format = formatOf[grab.camera]
      BY <1>1, <2>2 DEF ImagesInv, GrabStands, Grabs
    <3>2. ~(resize.pc = "depth" /\ resize.camera = grab.camera)
      BY <1>1 DEF ImagesInv, NotResized, Grabs, Idle
    <3> QED
      BY <1>0, <2>2, <3>1, <3>2 DEF ImagesInv, BuffersOfTheirSize, DepthsOfTheirFormat, NoFormat
  <2> QED
    BY <1>0, <2>1, <2>2 DEF GrabInImage, Fits, Bytes
<1>2. CASE grab \in Undistortions
  <2>1. grab.for = "undistort" /\ grab.camera = Wide
    BY <1>2 DEF Undistortions
  <2>2. m_Size[Wide] \in Nat /\ FirstSize \in Nat /\ m_depth[Wide] \in {0, 3}
    BY DEF ImagesInv, ImageTypes, DepthsOfTheirFormat
  <2>3. ASSUME m_depth[Wide] # 0, m_Size[Wide] >= FirstSize
        PROVE  FirstSize * Depths["RGB"] <= m_BinaryImages[Wide]
    BY <1>0, <2>1, <2>2, <2>3 DEF Bytes
  <2> QED
    BY <2>1, <2>2, <2>3 DEF UndistortInImage, Fits
<1> QED
  BY <1>1, <1>2

(* A frame is written inside of its image, the undistortion reads and a    *)
(* reply of getImage holds one whole image, unless a resize overlapped the *)
(* access or the last one did not find the camera, for any cameras, sizes  *)
(* and formats, whenever clients stop and start the grabber.               *)
THEOREM AccessesRight == ImagesSpec => AccessesStayInImages
<1> DEFINE Ends == /\ grab.pc = "busy" /\ grab' = Idle =>
                        IF grab.for = "grab" THEN GrabInImage ELSE UndistortInImage
                   /\ copy.pc = "busy" /\ copy' = Idle => ReplyIsWhole
<1>1. ImagesInv => Ends
  <2> SUFFICES ASSUME ImagesInv PROVE Ends
    OBVIOUS
  <2>1. /\ grab.pc = "busy" => grab \in Grabs \union Undistortions
        /\ copy.pc = "busy" => copy \in Copies
    BY DEF ImagesInv, ImageTypes, Idle, Overlapped
  <2>2. ASSUME copy.pc = "busy" PROVE ReplyIsWhole
    <3>1. copy.camera \in Semantics /\ copy.length = Bytes(copy.camera)
      BY <2>1, <2>2 DEF ImagesInv, CopyStands, Copies
    <3>2. m_BinaryImages[copy.camera] = Bytes(copy.camera) /\ Bytes(copy.camera) \in Nat
      BY <2>2, <3>1 DEF ImagesInv, NotResized, BuffersOfTheirSize, ImageTypes, Bytes
    <3> QED
      BY <3>1, <3>2 DEF ReplyIsWhole, Fits
  <2> QED
    BY <2>1, <2>2, LoopInImage
<1>2. [][Ends]_imageVars => AccessesStayInImages
  BY PTL DEF AccessesStayInImages
<1> QED
  BY <1>1, <1>2, ImagesHold, PTL

-----------------------------------------------------------------------------
(* The memory Battle SLAM shares (BattleSpec).                             *)

BattleTypes ==
  /\ m_slamConfig = [size |-> m_slamConfig.size, server |-> m_slamConfig.server,
                     camera |-> m_slamConfig.camera]
  /\ {m_isAlreadyStarted, renamed} \subseteq BOOLEAN

(* The memory the process holds is there, and, as long as no configuration *)
(* has renamed memory in use, it is the only one, under the configured     *)
(* name.                                                                   *)
SegmentInv ==
  /\ m_isAlreadyStarted => m_pSharedSegment # NoSegment /\ m_pSharedSegment[1] \in objects
  /\ Alive => /\ m_pSharedSegment # NoSegment => m_pSharedSegment[1] \in objects
              /\ ~renamed =>
                   IF m_pSharedSegment = NoSegment THEN objects = {}
                   ELSE objects = {m_pSharedSegment[1]} /\ m_pSharedSegment[1] = m_slamConfig.server

BattleInv == BattleTypes /\ SegmentInv

(* The hooks' record of the memory, and whether it is one that SegmentInv  *)
(* allows.                                                                 *)
MemoryOf(s) ==
  \E held, made, told, frame, ok :
    s = [segment |-> held, objects |-> made, engine |-> told, pushing |-> frame, ok |-> ok]
Sound(s) ==
  /\ s.segment # NoSegment => s.segment[1] \in s.objects
  /\ ~renamed => IF s.segment = NoSegment THEN s.objects = {}
                 ELSE s.objects = {s.segment[1]} /\ s.segment[1] = m_slamConfig.server

(* Initialising keeps the memory sound, and has made it if it succeeds;    *)
(* memory there was is not given up.                                       *)
LEMMA InitialisedMemory ==
  ASSUME NEW s, MemoryOf(s), Sound(s), NEW fails \in BOOLEAN,
         NEW t, t = InitializeTheSlam(s, fails)
  PROVE  /\ MemoryOf(t) /\ Sound(t)
         /\ t.ok => t.segment # NoSegment
         /\ s.segment # NoSegment => t.segment # NoSegment
<1>0. PICK held, made, told, frame, ok :
        s = [segment |-> held, objects |-> made, engine |-> told, pushing |-> frame, ok |-> ok]
  BY DEF MemoryOf
<1>1. CASE m_slamConfig.size = 0
  <2>1. t = [s EXCEPT !.ok = FALSE]
    BY <1>1 DEF InitializeTheSlam
  <2>2. t = [segment |-> held, objects |-> made, engine |-> told, pushing |-> frame, ok |-> FALSE]
    BY <1>0, <2>1
  <2>3. MemoryOf(t)
    BY <2>2 DEF MemoryOf
  <2>4. t.segment = s.segment /\ t.objects = s.objects /\ ~t.ok
    BY <1>0, <2>2
  <2> QED
    BY <2>3, <2>4 DEF Sound
<1>2. CASE m_slamConfig.size # 0
  <2> DEFINE name == <<m_slamConfig.server, m_slamConfig.camera>>
             copying == IF held = NoSegment THEN frame ELSE LosesItsMemory(frame)
             cleaned == [segment |-> held, objects |-> made \ {m_slamConfig.server},
                         engine |-> told, pushing |-> copying, ok |-> ok]
             built == [segment |-> name, objects |-> cleaned.objects \cup {m_slamConfig.server},
                         engine |-> IF fails THEN "off" ELSE "ready", pushing |-> copying,
                         ok |-> ~fails]
  <2>1. CleanUpSharedMemory(s) = cleaned
    <3>1. /\ s.segment = held
          /\ CleanUpSharedMemory(s) =
               [s EXCEPT !.objects = @ \ {m_slamConfig.server}, !.pushing = copying]
      BY <1>0 DEF CleanUpSharedMemory
    <3> QED
      BY <1>0, <3>1
  <2>2. t = built
    <3>1. t = [cleaned EXCEPT !.segment = name, !.objects = @ \cup {m_slamConfig.server},
                              !.engine = IF fails THEN "off" ELSE "ready", !.ok = ~fails]
      BY <1>2, <2>1 DEF InitializeTheSlam
    <3> QED
      BY <3>1
  <2>3. name # NoSegment /\ name[1] = m_slamConfig.server
    BY DEF NoSegment
  <2> HIDE DEF copying, name
  <2>4. MemoryOf(t)
    BY <2>2 DEF MemoryOf
  <2>5. /\ t.segment = name
        /\ t.objects = (s.objects \ {m_slamConfig.server}) \cup {m_slamConfig.server}
    BY <1>0, <2>2
  <2>6. Sound(t)
    BY <2>3, <2>5 DEF Sound
  <2> QED
    BY <2>3, <2>4, <2>5, <2>6
<1> QED
  BY <1>1, <1>2

(* The calls, on the memory.                                               *)
LEMMA BattleStep ==
  ASSUME BattleInv, [BattleNext]_battleVars
  PROVE  BattleInv'
<1> DEFINE s == SlamMemory
           Kept == UNCHANGED <<m_slamConfig, m_pSharedSegment, objects, m_isAlreadyStarted, renamed>>
<1>0. /\ BattleTypes /\ SegmentInv
      /\ MemoryOf(s) /\ s.segment = m_pSharedSegment /\ s.objects = objects /\ (Alive => Sound(s))
  BY DEF BattleInv, SegmentInv, SlamMemory, MemoryOf, Sound
<1>1. ASSUME NEW firstFails \in BOOLEAN, NEW secondFails \in BOOLEAN,
             StartSlam(firstFails, secondFails)
      PROVE  BattleInv'
  <2> DEFINE first == IF slamState = "limbo" THEN InitializeTheSlam(SlamMemory, firstFails)
                      ELSE SlamMemory
             second == InitializeTheSlam(first, secondFails)
             started == ~m_isAlreadyStarted /\ second.ok
             last == IF started THEN [second EXCEPT !.engine = "running"]
                     ELSE IF m_isAlreadyStarted THEN first ELSE second
  <2>1. /\ SetMemory(last) /\ m_isAlreadyStarted' = (m_isAlreadyStarted \/ started)
        /\ slamState' = "running" /\ UNCHANGED <<m_slamConfig, renamed>> /\ Alive
    BY <1>1 DEF StartSlam, Alive
  <2>2. /\ MemoryOf(first) /\ Sound(first)
        /\ s.segment # NoSegment => first.segment # NoSegment
    BY <1>0, <2>1, InitialisedMemory
  <2> HIDE DEF first
  <2>3. /\ MemoryOf(second) /\ Sound(second)
        /\ second.ok => second.segment # NoSegment
    BY <2>2, InitialisedMemory
  <2> HIDE DEF second
  <2>4. Sound(last) /\ (m_isAlreadyStarted' => last.segment # NoSegment)
    <3>1. CASE started
      <4>1. last.segment = second.segment /\ last.objects = second.objects
        BY <2>3, <3>1 DEF MemoryOf
      <4> QED
        BY <2>1, <2>3, <3>1, <4>1 DEF Sound
    <3>2. CASE ~started /\ m_isAlreadyStarted
      BY <1>0, <2>1, <2>2, <3>2 DEF SegmentInv
    <3>3. CASE ~started /\ ~m_isAlreadyStarted
      BY <2>1, <2>3, <3>3
    <3> QED
      BY <3>1, <3>2, <3>3
  <2>5. m_isAlreadyStarted' \in BOOLEAN
    BY <2>1
  <2> HIDE DEF last
  <2>6. SegmentInv'
    BY <2>1, <2>4 DEF SegmentInv, Sound, SetMemory
  <2> QED
    BY <1>0, <2>1, <2>5, <2>6 DEF BattleInv, BattleTypes
<1>2. ASSUME Kept, Alive' => Alive PROVE BattleInv'
  BY <1>0, <1>2 DEF BattleInv, BattleTypes, SegmentInv
<1>3. CASE NoSharedMemory
  BY <1>0, <1>3 DEF NoSharedMemory, BattleInv, BattleTypes, SegmentInv, Alive
<1>4. CASE BeginPush \/ LockBuffer \/ PushImage
  <2>1. Kept /\ Alive
    BY <1>4 DEF BeginPush, LockBuffer, PushImage, Alive
  <2> QED
    BY <1>2, <2>1
<1>5. CASE StopSlam
  BY <1>0, <1>5 DEF StopSlam, BattleInv, BattleTypes, SegmentInv, Alive
<1>6. ASSUME NEW words \in SlamConfigs, SetSlamConfig(words) PROVE BattleInv'
  <2>1. PICK size, name :
          /\ m_slamConfig' = [size |-> size, server |-> name[1], camera |-> name[2]]
          /\ renamed' = (renamed \/ (m_pSharedSegment # NoSegment /\ name[1] # m_pSharedSegment[1]))
          /\ UNCHANGED <<m_pSharedSegment, objects, m_isAlreadyStarted, slamState>>
    BY <1>6 DEF SetSlamConfig
  <2>2. renamed' \in BOOLEAN
    BY <2>1
  <2>3. SegmentInv'
    BY <1>0, <2>1 DEF SegmentInv, Alive
  <2> QED
    BY <1>0, <2>1, <2>2, <2>3 DEF BattleInv, BattleTypes
<1>7. ASSUME NEW state, SetEngineState(state) PROVE BattleInv'
  <2>1. Kept /\ Alive
    BY <1>7 DEF SetEngineState, Alive
  <2> QED
    BY <1>2, <2>1
<1>8. CASE UNCHANGED battleVars
  BY <1>2, <1>8 DEF battleVars, Alive
<1> QED
  BY <1>1, <1>3, <1>4, <1>5, <1>6, <1>7, <1>8 DEF BattleNext

(* While the process is started its shared memory is there, and the living *)
(* server has no other unless memory in use was renamed, for any           *)
(* configurations, whichever starts fail.                                  *)
THEOREM MemoryRight == BattleSpec => []SharedMemoryKept
<1>1. BattleInit => BattleInv
  BY DEF BattleInit, BattleInv, BattleTypes, SegmentInv
<1>2. BattleInv /\ [BattleNext]_battleVars => BattleInv'
  BY BattleStep
<1>3. BattleInv => SharedMemoryKept
  BY DEF BattleInv, SegmentInv, SharedMemoryKept, BattleTypes
<1> QED
  BY <1>1, <1>2, <1>3, PTL DEF BattleSpec

-----------------------------------------------------------------------------
(* The map requests of Battle SLAM (MapsSpec).                             *)

Files == Maps \cup {DefaultMap}
MapsTypes ==
  /\ asking \in [Askers -> Requests]
  /\ {m_saveMapBeforeStop, planned, crowded} \subseteq BOOLEAN
  /\ {m_saveMapLocation, lastAsked} \subseteq Files
  /\ unsure \subseteq {"wish", "file"} /\ stopping \in {"no", "save", "clear", "exit"}

(* An operation that met no other is alone; one that did is unsure of      *)
(* everything.                                                             *)
MeetInv ==
  /\ ~crowded => \A t, u \in Askers : Asks(t) /\ Asks(u) => t = u
  /\ ~crowded /\ Stops => \A t \in Askers : ~Asks(t)
  /\ crowded /\ Busy => unsure = {"wish", "file"}

(* A wish and a file that are those asked for, as far as one is sure.      *)
Known(wish, file) ==
  /\ "wish" \notin unsure => (wish <=> planned)
  /\ "file" \notin unsure => file = lastAsked

(* What a request that is alone has done of itself.                        *)
Noted(t) ==
  LET r == asking[t]
      wish == r.oldSaveMapBeforeStop \/ r.option = "saveBeforeStop"
  IN  /\ Known(r.oldSaveMapBeforeStop, r.oldMapLocation)
      /\ r.step = "note wish" => r.option = "saveBeforeStop"
      /\ m_saveMapBeforeStop <=> IF r.step = "note wish" THEN r.oldSaveMapBeforeStop ELSE wish
      /\ m_saveMapLocation =
           IF r.step \in {"save", "end"} /\ r.file # NoMap THEN r.file ELSE r.oldMapLocation
      /\ r.step = "end" /\ r.option = "save" /\ r.file # NoMap => r.into = r.file
RequestInv == \A t \in Askers : ~crowded /\ Asks(t) => Noted(t)

(* What a stop that is alone has done, and is to do.                       *)
StopInv ==
  ~crowded =>
    /\ stopping \in {"save", "clear"} => m_saveMapBeforeStop /\ Known(TRUE, m_saveMapLocation)
    /\ stopping = "clear" => saved = m_saveMapLocation
    /\ stopping = "exit" => /\ ~m_saveMapBeforeStop
                            /\ "file" \notin unsure => m_saveMapLocation = lastAsked
                            /\ unsure = {} => saved = IF planned THEN lastAsked ELSE NoMap
RestInv == ~Busy => Known(m_saveMapBeforeStop, m_saveMapLocation)

MapsInv == MapsTypes /\ MeetInv /\ RequestInv /\ StopInv /\ RestInv

(* A request goes from one step to another, ...                            *)
LEMMA RequestGoesOn ==
  ASSUME MapsTypes, NEW t \in Askers, NEW next \in Steps, Then(t, next)
  PROVE  /\ asking' \in [Askers -> Requests]
         /\ asking'[t] = [asking[t] EXCEPT !.step = next] /\ asking'[t].step = next
         /\ \A u \in Askers : u # t => asking'[u] = asking[u]
<1>1. [asking[t] EXCEPT !.step = next] \in Requests
  BY DEF MapsTypes, Requests
<1> QED
  BY <1>1 DEF MapsTypes, Then

(* ... or ends.                                                            *)
LEMMA RequestEnds ==
  ASSUME MapsTypes, NEW t \in Askers, EndsCall(t)
  PROVE  /\ asking' \in [Askers -> Requests] /\ ~Asks(t)'
         /\ \A u \in Askers : u # t => asking'[u] = asking[u]
<1>1. NoRequest \in Requests /\ NoRequest.step = "none"
  BY DEF NoRequest, Requests, Steps, Options
<1> QED
  BY <1>1 DEF MapsTypes, EndsCall, Asks

(* A step of a request that is neither its first nor its last: what holds  *)
(* of the others.                                                          *)
LEMMA MiddleOfRequest ==
  ASSUME MapsInv, NEW t \in Askers, Asks(t), Asks(t)',
         \A u \in Askers : u # t => asking'[u] = asking[u],
         UNCHANGED <<slamRuns, stopping, saved, accepted, meetings>>,
         ~crowded => Noted(t)'
  PROVE  MeetInv' /\ RequestInv' /\ StopInv' /\ RestInv'
<1>0. /\ MapsTypes /\ MeetInv /\ RequestInv /\ StopInv
      /\ stopping' = stopping /\ saved' = saved /\ lastAsked' = lastAsked /\ planned' = planned
      /\ crowded' = crowded /\ unsure' = unsure
  BY DEF MapsInv, accepted, meetings
<1>1. \A u \in Askers : Asks(u)' <=> Asks(u)
  BY DEF Asks
<1>2. Busy /\ Busy'
  BY DEF Busy
<1>3. MeetInv'
  BY <1>0, <1>1, <1>2 DEF MeetInv, Stops
<1>4. ~crowded => ~Stops
  BY <1>0 DEF MeetInv
<1>5. RequestInv'
  <2> SUFFICES ASSUME NEW u \in Askers, ~crowded', Asks(u)' PROVE Noted(u)'
    BY DEF RequestInv
  <2> QED
    BY <1>0, <1>1 DEF MeetInv
<1>6. StopInv'
  BY <1>0, <1>4 DEF StopInv, Stops
<1> QED
  BY <1>2, <1>3, <1>5, <1>6 DEF RestInv

(* The last step of a request.                                             *)
LEMMA LastOfRequest ==
  ASSUME MapsInv, NEW t \in Askers, Asks(t), ~Asks(t)',
         \A u \in Askers : u # t => asking'[u] = asking[u],
         UNCHANGED <<crowded, stopping, saved>>, crowded => unsure' = unsure,
         ~crowded => Known(m_saveMapBeforeStop, m_saveMapLocation)'
  PROVE  MeetInv' /\ RequestInv' /\ StopInv' /\ RestInv'
<1>0. MeetInv
  BY DEF MapsInv
<1>1. \A u \in Askers : u # t => (Asks(u)' <=> Asks(u))
  BY DEF Asks
<1>2. Busy
  BY DEF Busy
<1>3. ~crowded => ~Stops /\ \A u \in Askers : ~Asks(u)'
  BY <1>0, <1>1 DEF MeetInv
<1>4. MeetInv'
  BY <1>0, <1>2, <1>3 DEF MeetInv, Stops
<1>5. RequestInv' /\ StopInv'
  BY <1>3 DEF RequestInv, StopInv, Stops
<1>6. RestInv'
  <2>1. crowded => unsure' = {"wish", "file"}
    BY <1>0, <1>2 DEF MeetInv
  <2> QED
    BY <2>1 DEF RestInv, Known
<1> QED
  BY <1>4, <1>5, <1>6

LEMMA RequestKeepsMaps ==
  ASSUME MapsInv, NEW t \in Askers, RequestStep(t)
  PROVE  MapsInv'
<1> DEFINE r == asking[t]
<1>0. /\ MapsTypes /\ MeetInv /\ RequestInv /\ StopInv /\ RestInv /\ r \in Requests
  BY DEF MapsInv, MapsTypes
<1>1. CASE NoteWish(t)
  <2>1. Then(t, "note file") /\ "note file" \in Steps /\ Asks(t)
    BY <1>1 DEF NoteWish, Steps, At, Asks
  <2>2. /\ asking' \in [Askers -> Requests] /\ asking'[t] = [r EXCEPT !.step = "note file"]
        /\ \A u \in Askers : u # t => asking'[u] = asking[u]
    BY <1>0, <2>1, RequestGoesOn
  <2>3. ~crowded => Noted(t)'
    BY <1>0, <1>1, <2>1, <2>2 DEF NoteWish, At, RequestInv, Noted, Known, Requests, accepted, meetings
  <2>4. MapsTypes' /\ Asks(t)'
    BY <1>0, <1>1, <2>2 DEF NoteWish, MapsTypes, Asks, Requests, Files, accepted, meetings
  <2> QED
    BY <1>1, <2>1, <2>2, <2>3, <2>4, MiddleOfRequest DEF NoteWish, MapsInv
<1>2. CASE NoteFile(t)
  <2> DEFINE next == IF r.option = "save" THEN "save" ELSE "end"
  <2>1. Then(t, next) /\ next \in Steps /\ next \in {"save", "end"} /\ Asks(t)
    BY <1>2 DEF NoteFile, Steps, At, Asks
  <2>0. r.option # "save" => next = "end"
    OBVIOUS
  <2>5. next = "end" => r.option # "save"
    OBVIOUS
  <2> HIDE DEF next
  <2>2. /\ asking' \in [Askers -> Requests] /\ asking'[t] = [r EXCEPT !.step = next]
        /\ \A u \in Askers : u # t => asking'[u] = asking[u]
    BY <1>0, <2>1, RequestGoesOn
  <2>3. ~crowded => Noted(t)'
    BY <1>0, <1>2, <2>1, <2>2, <2>5
       DEF NoteFile, At, RequestInv, Noted, Known, Requests, accepted, meetings
  <2>4. MapsTypes' /\ Asks(t)'
    BY <1>0, <1>2, <2>1, <2>2 DEF NoteFile, MapsTypes, Asks, Requests, Files, accepted, meetings
  <2> QED
    BY <1>2, <2>1, <2>2, <2>3, <2>4, MiddleOfRequest DEF NoteFile, MapsInv
<1>3. CASE SaveNow(t)
  <2>1. Asks(t) /\ m_saveMapLocation \in Maps \cup {DefaultMap}
    BY <1>0, <1>3 DEF SaveNow, At, Asks, MapsTypes, Files
  <2>2. /\ asking' \in [Askers -> Requests]
        /\ asking'[t] = [r EXCEPT !.step = "end", !.into = m_saveMapLocation]
        /\ \A u \in Askers : u # t => asking'[u] = asking[u]
    <3>1. [r EXCEPT !.step = "end", !.into = m_saveMapLocation] \in Requests
      BY <1>0, <2>1 DEF Requests, Steps
    <3> QED
      BY <1>0, <1>3, <3>1 DEF SaveNow, MapsTypes
  <2>3. ~crowded => Noted(t)'
    BY <1>0, <1>3, <2>1, <2>2
       DEF SaveNow, At, RequestInv, Noted, Known, Requests, accepted, meetings, members
  <2>4. MapsTypes' /\ Asks(t)'
    BY <1>0, <1>3, <2>2 DEF SaveNow, MapsTypes, Asks, Requests, members, accepted, meetings
  <2> QED
    BY <1>3, <2>1, <2>2, <2>3, <2>4, MiddleOfRequest DEF SaveNow, MapsInv
<1>4. CASE TakeBackFile(t)
  <2>1. Then(t, "take back wish") /\ "take back wish" \in Steps /\ Asks(t)
    BY <1>4 DEF TakeBackFile, Steps, At, Asks
  <2>2. /\ asking' \in [Askers -> Requests] /\ asking'[t] = [r EXCEPT !.step = "take back wish"]
        /\ \A u \in Askers : u # t => asking'[u] = asking[u]
    BY <1>0, <2>1, RequestGoesOn
  <2>3. ~crowded => Noted(t)'
    BY <1>0, <1>4, <2>1, <2>2 DEF TakeBackFile, At, RequestInv, Noted, Known, Requests, accepted, meetings
  <2>4. MapsTypes' /\ Asks(t)'
    BY <1>0, <1>4, <2>2 DEF TakeBackFile, MapsTypes, Asks, Requests, Files, accepted, meetings
  <2> QED
    BY <1>4, <2>1, <2>2, <2>3, <2>4, MiddleOfRequest DEF TakeBackFile, MapsInv
<1>5. CASE TakeBackWish(t)
  <2>1. EndsCall(t) /\ Asks(t)
    BY <1>5 DEF TakeBackWish, At, Asks
  <2>2. /\ asking' \in [Askers -> Requests] /\ ~Asks(t)'
        /\ \A u \in Askers : u # t => asking'[u] = asking[u]
    BY <1>0, <2>1, RequestEnds
  <2>3. MapsTypes'
    BY <1>0, <1>5, <2>2 DEF TakeBackWish, MapsTypes, Requests, accepted, meetings
  <2>4. UNCHANGED <<crowded, unsure, planned, lastAsked, stopping, saved, m_saveMapLocation>>
    BY <1>5 DEF TakeBackWish, accepted, meetings
  <2>5. ~crowded => Known(m_saveMapBeforeStop, m_saveMapLocation)'
    BY <1>0, <1>5, <2>1, <2>4 DEF TakeBackWish, At, RequestInv, Noted, Known
  <2> QED
    BY <1>0, <2>1, <2>2, <2>3, <2>4, <2>5, LastOfRequest DEF MapsInv
<1>6. CASE AcceptRequest(t)
  <2>1. EndsCall(t) /\ Asks(t) /\ r.step = "end"
    BY <1>6 DEF AcceptRequest, At, Asks
  <2>2. /\ asking' \in [Askers -> Requests] /\ ~Asks(t)'
        /\ \A u \in Askers : u # t => asking'[u] = asking[u]
    BY <1>0, <2>1, RequestEnds
  <2>3. /\ UNCHANGED <<m_saveMapBeforeStop, m_saveMapLocation, crowded, stopping, saved>>
        /\ lastAsked' = IF r.file # NoMap THEN r.file ELSE lastAsked
        /\ planned' = (planned \/ r.option = "saveBeforeStop")
        /\ crowded => unsure' = unsure
        /\ ~crowded => unsure' = unsure \ ((IF r.file # NoMap THEN {"file"} ELSE {})
                                 \cup (IF r.option = "saveBeforeStop" THEN {"wish"} ELSE {}))
    BY <1>6 DEF AcceptRequest, Settle, members
  <2>4. MapsTypes'
    <3>1. unsure' \subseteq {"wish", "file"} /\ planned' \in BOOLEAN
      BY <1>0, <2>3 DEF MapsTypes
    <3> QED
      BY <1>0, <2>2, <2>3, <3>1 DEF MapsTypes, Requests, Files
  <2>5. ~crowded => Known(m_saveMapBeforeStop, m_saveMapLocation)'
    <3> SUFFICES ASSUME ~crowded PROVE Known(m_saveMapBeforeStop, m_saveMapLocation)'
      OBVIOUS
    <3>1. /\ Known(r.oldSaveMapBeforeStop, r.oldMapLocation)
          /\ m_saveMapBeforeStop <=> (r.oldSaveMapBeforeStop \/ r.option = "saveBeforeStop")
          /\ m_saveMapLocation = IF r.file # NoMap THEN r.file ELSE r.oldMapLocation
      BY <1>0, <2>1 DEF RequestInv, Noted
    <3> QED
      BY <2>3, <3>1 DEF Known
  <2> QED
    BY <1>0, <2>1, <2>2, <2>3, <2>4, <2>5, LastOfRequest DEF MapsInv
<1> QED
  BY <1>1, <1>2, <1>3, <1>4, <1>5, <1>6 DEF RequestStep

(* An operation begins: if another is under way, nothing is sure.          *)
LEMMA MeetingOfOperations ==
  ASSUME MapsTypes, Meet
  PROVE  crowded' \in BOOLEAN /\ unsure' \subseteq {"wish", "file"}
<1> QED
  BY DEF MapsTypes, Meet, Busy

LEMMA MapsStep ==
  ASSUME MapsInv, [MapsNext]_mapVars
  PROVE  MapsInv'
<1>0. MapsTypes /\ MeetInv /\ RequestInv /\ StopInv /\ RestInv
  BY DEF MapsInv
<1>1. ASSUME NEW t \in Askers, NEW option \in Options, NEW file \in Maps \cup {NoMap},
             NEW more \in BOOLEAN, ReceiveRequest(t, option, file, more)
      PROVE  MapsInv'
  <2> DEFINE first == IF option = "saveBeforeStop" THEN "note wish" ELSE "note file"
             r == [step |-> first, option |-> option, file |-> file, more |-> more,
                   oldMapLocation |-> m_saveMapLocation,
                   oldSaveMapBeforeStop |-> m_saveMapBeforeStop, into |-> NoMap]
  <2>0. /\ ~Asks(t) /\ asking' = [asking EXCEPT ![t] = r]
        /\ crowded' = Busy /\ unsure' = IF Busy THEN {"wish", "file"} ELSE unsure
        /\ UNCHANGED <<m_saveMapBeforeStop, m_saveMapLocation, slamRuns, stopping, saved,
                       lastAsked, planned>>
    BY <1>1 DEF ReceiveRequest, Meet, members, accepted
  <2>1. /\ first \in Steps /\ first \in {"note wish", "note file"}
        /\ first = "note wish" => option = "saveBeforeStop"
        /\ first # "note wish" => option # "saveBeforeStop"
    BY DEF Steps
  <2> HIDE DEF first
  <2>2. r \in Requests /\ r.step = first
    BY <1>0, <2>1 DEF MapsTypes, Requests, Files
  <2>3. /\ asking' \in [Askers -> Requests] /\ asking'[t] = r /\ Asks(t)'
        /\ \A u \in Askers : u # t => asking'[u] = asking[u] /\ (Asks(u)' <=> Asks(u))
    BY <1>0, <2>0, <2>1, <2>2 DEF MapsTypes, Asks
  <2>4. Busy'
    BY <2>3 DEF Busy
  <2>5. MapsTypes'
    BY <1>0, <1>1, <2>0, <2>3, MeetingOfOperations DEF MapsTypes, ReceiveRequest
  <2>6. ~Busy => ~Stops /\ \A u \in Askers : ~Asks(u)
    BY DEF Busy
  <2>7. MeetInv'
    BY <2>0, <2>3, <2>6 DEF MeetInv, Stops
  <2>8. RequestInv'
    <3> SUFFICES ASSUME NEW u \in Askers, ~Busy, Asks(u)' PROVE Noted(u)'
      BY <2>0 DEF RequestInv
    <3>1. u = t /\ Known(m_saveMapBeforeStop, m_saveMapLocation) /\ unsure' = unsure
      BY <1>0, <2>0, <2>3, <2>6 DEF RestInv
    <3>2. /\ r.oldSaveMapBeforeStop = m_saveMapBeforeStop /\ r.oldMapLocation = m_saveMapLocation
          /\ r.option = option /\ r.step = first
      OBVIOUS
    <3> HIDE DEF r
    <3> QED
      BY <2>0, <2>1, <2>3, <3>1, <3>2 DEF Noted, Known
  <2>9. StopInv' /\ RestInv'
    BY <2>0, <2>4, <2>6 DEF StopInv, RestInv, Stops
  <2> QED
    BY <2>5, <2>7, <2>8, <2>9 DEF MapsInv
<1>2. CASE StartWithMaps
  <2>1. UNCHANGED <<m_saveMapBeforeStop, m_saveMapLocation, asking, stopping, saved, lastAsked,
                    planned, crowded, unsure>>
    BY <1>2 DEF StartWithMaps, members, accepted, meetings
  <2> QED
    BY <1>0, <2>1 DEF MapsInv, MapsTypes, MeetInv, RequestInv, StopInv, RestInv, Noted, Known,
                      Busy, Asks, Stops
<1>3. CASE BeginStopOfSlam
  <2>0. /\ ~Stops /\ stopping' = IF m_saveMapBeforeStop THEN "save" ELSE "exit"
        /\ saved' = NoMap
        /\ crowded' = Busy /\ unsure' = IF Busy THEN {"wish", "file"} ELSE unsure
        /\ UNCHANGED <<m_saveMapBeforeStop, m_saveMapLocation, asking, lastAsked, planned>>
    BY <1>3 DEF BeginStopOfSlam, Meet, members, accepted
  <2>1. MapsTypes' /\ Busy'
    BY <1>0, <1>3, <2>0, MeetingOfOperations DEF MapsTypes, BeginStopOfSlam, Busy, Stops
  <2>2. ~Busy => \A u \in Askers : ~Asks(u)'
    BY <2>0 DEF Busy, Asks
  <2>3. MeetInv' /\ RequestInv'
    BY <2>0, <2>2 DEF MeetInv, RequestInv
  <2>4. StopInv'
    <3> SUFFICES ASSUME ~Busy PROVE StopInv'
      BY <2>0 DEF StopInv
    <3>1. Known(m_saveMapBeforeStop, m_saveMapLocation) /\ unsure' = unsure
      BY <1>0, <2>0 DEF RestInv
    <3> QED
      BY <2>0, <3>1 DEF StopInv, Known
  <2> QED
    BY <2>1, <2>3, <2>4 DEF MapsInv, RestInv
<1>4. CASE SaveBeforeStop \/ ClearWish
  <2>0. /\ Stops /\ Stops' /\ Busy /\ Busy'
        /\ UNCHANGED <<asking, m_saveMapLocation, lastAsked, planned, crowded, unsure>>
    BY <1>4 DEF SaveBeforeStop, ClearWish, Stops, Busy, members, accepted, meetings
  <2>1. MapsTypes'
    BY <1>0, <1>4, <2>0 DEF MapsTypes, SaveBeforeStop, ClearWish, members
  <2>2. MeetInv' /\ RequestInv'
    BY <1>0, <2>0 DEF MeetInv, RequestInv, Asks
  <2>3. StopInv'
    <3>1. CASE SaveBeforeStop
      BY <1>0, <2>0, <3>1 DEF SaveBeforeStop, StopInv, Known, members
    <3>2. CASE ClearWish
      BY <1>0, <2>0, <3>2 DEF ClearWish, StopInv, Known
    <3> QED
      BY <1>4, <3>1, <3>2
  <2> QED
    BY <2>0, <2>1, <2>2, <2>3 DEF MapsInv, RestInv
<1>5. CASE EndStopOfSlam
  <2>0. /\ stopping = "exit" /\ stopping' = "no" /\ planned' = FALSE /\ Busy
        /\ unsure' = IF crowded THEN unsure ELSE unsure \ {"wish"}
        /\ UNCHANGED <<m_saveMapBeforeStop, m_saveMapLocation, asking, saved, lastAsked, crowded>>
    BY <1>5 DEF EndStopOfSlam, Settle, members, Busy, Stops
  <2>1. MapsTypes'
    BY <1>0, <2>0 DEF MapsTypes
  <2>2. ~crowded => \A u \in Askers : ~Asks(u)
    BY <1>0, <2>0 DEF MeetInv, Stops
  <2>3. \A u \in Askers : Asks(u)' <=> Asks(u)
    BY <2>0 DEF Asks
  <2>4. MeetInv' /\ RequestInv' /\ StopInv'
    BY <1>0, <2>0, <2>2, <2>3 DEF MeetInv, RequestInv, StopInv, Stops
  <2>5. RestInv'
    <3>1. CASE crowded
      BY <1>0, <2>0, <3>1 DEF MeetInv, RestInv, Known
    <3>2. CASE ~crowded
      BY <1>0, <2>0, <3>2 DEF StopInv, RestInv, Known
    <3> QED
      BY <3>1, <3>2
  <2> QED
    BY <2>1, <2>4, <2>5 DEF MapsInv
<1>6. CASE UNCHANGED mapVars
  BY <1>0, <1>6 DEF mapVars, MapsInv, MapsTypes, MeetInv, RequestInv, StopInv, RestInv, Noted, Known,
                    Busy, Asks, Stops
<1> QED
  <2>1. ASSUME NEW t \in Askers, RequestStep(t) PROVE MapsInv'
    BY <2>1, RequestKeepsMaps
  <2> QED
    BY <1>1, <1>2, <1>3, <1>4, <1>5, <1>6, <2>1 DEF MapsNext

(* A stop saves the map exactly if a save before it was asked for and      *)
(* accepted, to the file of the last accepted request, and a save at once  *)
(* goes to its own, unless requests and stops met, for any number of       *)
(* threads and any files.                                                  *)
THEOREM MapsRight == MapsSpec => []MapSavedAsAsked
<1>1. MapsInit => MapsInv
  <2> SUFFICES ASSUME MapsInit PROVE MapsInv
    OBVIOUS
  <2>1. NoRequest \in Requests /\ NoRequest.step = "none"
    BY DEF NoRequest, Requests, Steps, Options
  <2>2. \A t \in Askers : ~Asks(t)
    BY <2>1 DEF MapsInit, Asks
  <2>3. MapsTypes
    BY <2>1 DEF MapsInit, MapsTypes, Files
  <2> QED
    BY <2>2, <2>3 DEF MapsInit, MapsInv, MeetInv, RequestInv, StopInv, RestInv, Known, Busy, Stops
<1>2. MapsInv /\ [MapsNext]_mapVars => MapsInv'
  BY MapsStep
<1>3. MapsInv => MapSavedAsAsked
  <2> SUFFICES ASSUME MapsInv PROVE MapSavedAsAsked
    OBVIOUS
  <2>1. m_saveMapBeforeStop \in BOOLEAN /\ planned \in BOOLEAN
    BY DEF MapsInv, MapsTypes
  <2>2. ASSUME NEW t \in Askers, At(t, "end"), ~crowded PROVE Noted(t)
    BY <2>2 DEF MapsInv, RequestInv, Asks, At
  <2> QED
    BY <2>1, <2>2 DEF MapsInv, RestInv, Known, StopInv, Noted, At, MapSavedAsAsked
<1> QED
  BY <1>1, <1>2, <1>3, PTL DEF MapsSpec

(* Both together: what clients ask of the process and of its map they get, *)
(* for any configurations, threads and files, whichever starts fail.       *)
THEOREM BattleSlamRight == BattleSpec /\ MapsSpec => []BattleSlamOK
<1>1. SharedMemoryKept /\ MapSavedAsAsked => BattleSlamOK
  BY DEF BattleSlamOK
<1> QED
  BY <1>1, MemoryRight, MapsRight, PTL

-----------------------------------------------------------------------------
(* The images and stamps of the difference's process (DifferenceSpec).     *)

DiffTypes ==
  /\ m_ImagesOnWhichToProcess \subseteq 0 .. 2
  /\ m_PrevInputImage \in [0 .. 2 -> Nat] /\ m_DifferenceOfImages \in [0 .. 2 -> Nat \X Nat]
RingTypes ==
  /\ m_BufferOfImages \in [RingIndices -> [camera : Int, frame : Nat]]
  /\ m_BufferOfTimeStamp \in [RingIndices -> Nat] /\ m_IndexOfImage \in RingIndices
LoopTypes ==
  /\ differenceAt \in [camera : 0 .. 3, at : {"idle", "frame", "stamp"}]
  /\ differenceAt.at = "idle" => differenceAt = LoopAtRest
  /\ differenceAt.at = "stamp" => differenceAt.camera \in m_ImagesOnWhichToProcess
  /\ grabbedFrame \in Nat /\ lastDifferenced \in Nat
SaveTypes ==
  /\ saving \in [at : {"idle", "image"}, slot : RingIndices, src : RingIndices]
  /\ saving.src <= saving.slot /\ savedOver \in BOOLEAN
DifferenceTypes == DiffTypes /\ RingTypes /\ LoopTypes /\ SaveTypes

(* A slot has its image's stamp, but for the one whose image is new; its   *)
(* stamp is written next.                                                  *)
RingInv ==
  /\ differenceAt.at = "stamp" => m_BufferOfImages[m_IndexOfImage].frame = grabbedFrame
  /\ \A i \in RingIndices :
       (differenceAt.at = "stamp" => i # m_IndexOfImage) =>
         m_BufferOfImages[i].frame = m_BufferOfTimeStamp[i]

(* What has been written of the files is right, and the rest will be: the  *)
(* stamps in the ring are those of their file.                             *)
FileOfImage == [slot : RingIndices, image : [camera : Int, frame : Nat], stamp : Nat]
FilesInv ==
  /\ files.images \in Seq(FileOfImage)
  /\ files = [stamps |-> files.stamps, images |-> files.images]
  /\ Writing => Len(files.images) = saving.src
  /\ ~savedOver /\ Writing => /\ files.stamps # <<>> => files.stamps = m_BufferOfTimeStamp
                            /\ differenceAt.at # "stamp"
  /\ SavedWithItsStamp

(* The cameras the loop has passed have this frame as their previous one,  *)
(* the others the frame processed last.                                    *)
Passed(c) ==
  \/ differenceAt.at = "frame" /\ c < differenceAt.camera
  \/ differenceAt.at = "stamp" /\ c <= differenceAt.camera
PreviousInv ==
  \A c \in m_ImagesOnWhichToProcess :
    /\ m_PrevInputImage[c] = IF Passed(c) THEN grabbedFrame ELSE lastDifferenced
    /\ m_DifferenceOfImages[c][1] <= grabbedFrame
    /\ (~Passed(c) /\ differenceAt # LoopAtRest) => m_DifferenceOfImages[c][1] < grabbedFrame

DifferenceInv ==
  DifferenceTypes /\ RingInv /\ FilesInv /\ PreviousInv /\ DifferenceOfSuccessiveImages

LEMMA NextOfTheFrame ==
  ASSUME DiffTypes, LoopTypes, differenceAt.at = "frame", Ahead # {}
  PROVE  LET c == Smallest(Ahead) IN
         /\ c \in m_ImagesOnWhichToProcess /\ c \in 0 .. 2 /\ c >= differenceAt.camera
         /\ \A d \in m_ImagesOnWhichToProcess : d >= differenceAt.camera => c <= d
<1>0. 0 .. 2 = {0, 1, 2}
  OBVIOUS
<1>1. /\ Ahead \subseteq {0, 1, 2} /\ m_ImagesOnWhichToProcess \subseteq {0, 1, 2}
      /\ differenceAt.camera \in 0 .. 3
  BY <1>0 DEF DiffTypes, LoopTypes, Ahead
<1>2. \E c \in Ahead : \A d \in Ahead : c <= d
  <2>1. CASE 0 \in Ahead
    BY <1>1, <2>1
  <2>2. CASE 0 \notin Ahead /\ 1 \in Ahead
    BY <1>1, <2>2
  <2>3. CASE 0 \notin Ahead /\ 1 \notin Ahead
    <3>1. Ahead = {2}
      BY <1>1, <2>3
    <3> QED
      BY <3>1
  <2> QED
    BY <2>1, <2>2, <2>3
<1>3. Smallest(Ahead) \in Ahead /\ \A d \in Ahead : Smallest(Ahead) <= d
  BY <1>2 DEF Smallest
<1> QED
  BY <1>0, <1>1, <1>3 DEF Ahead

LEMMA DifferenceStart == DifferenceInit => DifferenceInv
<1> SUFFICES ASSUME DifferenceInit PROVE DifferenceInv
  OBVIOUS
<1> USE DifferenceAssumption DEF DifferenceInit, LoopAtRest
<1>1. DiffTypes /\ LoopTypes
  BY DEF DiffTypes, LoopTypes
<1>2. RingTypes /\ SaveTypes
  <2>1. 0 \in RingIndices /\ NothingYet \in [camera : Int, frame : Nat]
    BY DEF RingIndices, NothingYet
  <2>2. saving = NotSaving /\ NotSaving \in [at : {"idle", "image"}, slot : RingIndices, src : RingIndices]
    BY <2>1 DEF NotSaving
  <2>3. SaveTypes
    <3>1. NotSaving.src <= NotSaving.slot
      BY DEF NotSaving
    <3>2. savedOver \in BOOLEAN
      OBVIOUS
    <3>3. saving.src <= saving.slot
      BY <2>2, <3>1
    <3> QED
      BY <2>2, <3>2, <3>3, Zenon DEF SaveTypes
  <2> QED
    BY <2>1, <2>3 DEF RingTypes
<1>3. RingInv /\ PreviousInv /\ DifferenceOfSuccessiveImages
  BY DEF RingInv, PreviousInv, Passed, DifferenceOfSuccessiveImages, NothingYet
<1>4. FilesInv
  BY DEF FilesInv, SavedWithItsStamp, Writing, NotSaving
<1> QED
  BY <1>1, <1>2, <1>3, <1>4 DEF DifferenceInv, DifferenceTypes, SaveTypes

(* The steps of a frame ...                                                *)
LEMMA FrameOfDifferences ==
  ASSUME DifferenceInv, BeginDifference \/ Difference \/ BufferTheImage \/ StampTheImage \/ EndDifference
  PROVE  DifferenceInv'
<1> USE DifferenceAssumption
<1> DEFINE M == m_ImagesOnWhichToProcess
<1>0. /\ DiffTypes /\ RingTypes /\ LoopTypes /\ SaveTypes
      /\ RingInv /\ FilesInv /\ PreviousInv /\ DifferenceOfSuccessiveImages
  BY DEF DifferenceInv, DifferenceTypes
<1>1. CASE BeginDifference
  <2> USE <1>0, <1>1 DEF BeginDifference
  <2>1. DifferenceTypes'
    <3>1. DiffTypes'
      BY DEF DiffTypes, LoopTypes, differences, diffSettings
    <3>2. RingTypes'
      BY DEF RingTypes, LoopTypes, ring, RingIndices
    <3>3. LoopTypes'
      BY DEF LoopTypes, LoopAtRest, diffSettings
    <3>4. SaveTypes'
      BY DEF SaveTypes, savedFiles, RingIndices
    <3> QED
      BY <3>1, <3>2, <3>3, <3>4 DEF DifferenceTypes
  <2>2. RingInv' /\ FilesInv'
    BY DEF RingInv, FilesInv, SavedWithItsStamp, Writing, ring, savedFiles, LoopAtRest, RingIndices
  <2>3. PreviousInv' /\ DifferenceOfSuccessiveImages'
    BY DEF PreviousInv, Passed, DifferenceOfSuccessiveImages, DiffTypes, LoopTypes, differences,
           diffSettings, LoopAtRest
  <2> QED
    BY <2>1, <2>2, <2>3 DEF DifferenceInv
<1>2. CASE Difference
  <2> DEFINE c == Smallest(Ahead)
  <2> USE <1>0, <1>2 DEF Difference
  <2>0. /\ c \in M /\ c \in 0 .. 2 /\ c >= differenceAt.camera
        /\ \A d \in M : d >= differenceAt.camera => c <= d
    BY NextOfTheFrame
  <2> HIDE DEF c
  <2>1. /\ m_DifferenceOfImages' = [m_DifferenceOfImages EXCEPT ![c] = <<grabbedFrame, m_PrevInputImage[c]>>]
        /\ m_PrevInputImage' = [m_PrevInputImage EXCEPT ![c] = grabbedFrame]
        /\ differenceAt' = [camera |-> c + 1, at |-> "frame"] /\ differenceAt.at = "frame"
        /\ UNCHANGED <<ring, diffSettings, grabbedFrame, savedFiles, lastDifferenced, savedOver>>
    BY DEF c
  <2>2. DifferenceTypes'
    <3>1. DiffTypes'
      <4> DEFINE pair == <<grabbedFrame, m_PrevInputImage[c]>>
                 pairs == Nat \X Nat
      <4>1. pair \in pairs /\ m_DifferenceOfImages \in [0 .. 2 -> pairs]
        BY <2>0 DEF DiffTypes, LoopTypes
      <4>2. m_DifferenceOfImages' = [m_DifferenceOfImages EXCEPT ![c] = pair]
        BY <2>1
      <4> HIDE DEF pair, pairs
      <4>3. m_DifferenceOfImages' \in [0 .. 2 -> pairs]
        BY <4>1, <4>2
      <4>4. /\ m_PrevInputImage' \in [0 .. 2 -> Nat]
            /\ m_ImagesOnWhichToProcess' = m_ImagesOnWhichToProcess
        <5>1. /\ grabbedFrame \in Nat /\ m_PrevInputImage \in [0 .. 2 -> Nat]
              /\ m_PrevInputImage' = [m_PrevInputImage EXCEPT ![c] = grabbedFrame]
          BY <2>1 DEF DiffTypes, LoopTypes
        <5> QED
          BY <2>0, <2>1, <5>1 DEF diffSettings
      <4> QED
        BY <4>3, <4>4 DEF DiffTypes, pairs
    <3>2. RingTypes'
      BY <2>0, <2>1 DEF RingTypes, LoopTypes, ring, RingIndices
    <3>3. LoopTypes'
      BY <2>0, <2>1 DEF LoopTypes, LoopAtRest, diffSettings
    <3>4. SaveTypes'
      BY <2>0, <2>1 DEF SaveTypes, savedFiles, RingIndices
    <3> QED
      BY <3>1, <3>2, <3>3, <3>4 DEF DifferenceTypes
  <2>3. RingInv' /\ FilesInv'
    BY <2>1 DEF RingInv, FilesInv, SavedWithItsStamp, Writing, ring, savedFiles, RingIndices
  <2>4. ASSUME NEW d \in M
        PROVE  /\ Passed(d)' <=> (Passed(d) \/ d = c)
               /\ ~Passed(c) /\ d \in 0 .. 2
    BY <2>0, <2>1 DEF Passed, DiffTypes, LoopTypes, LoopAtRest
  <2>5. m_PrevInputImage[c] = lastDifferenced
    BY <2>0, <2>4 DEF PreviousInv
  <2>6. PreviousInv'
    BY <2>0, <2>1, <2>4 DEF PreviousInv, DiffTypes, LoopTypes, diffSettings, LoopAtRest
  <2>7. DifferenceOfSuccessiveImages'
    BY <2>0, <2>1, <2>4, <2>5
       DEF DifferenceOfSuccessiveImages, DiffTypes, LoopTypes, diffSettings, LoopAtRest
  <2> QED
    BY <2>2, <2>3, <2>6, <2>7 DEF DifferenceInv
<1>3. CASE BufferTheImage
  <2> DEFINE c == Smallest(Ahead)
  <2> USE <1>0, <1>3 DEF BufferTheImage
  <2>0. /\ c \in M /\ c \in 0 .. 2 /\ c >= differenceAt.camera
        /\ \A d \in M : d >= differenceAt.camera => c <= d
    BY NextOfTheFrame
  <2> HIDE DEF c
  <2>1. /\ m_BufferOfImages' = [m_BufferOfImages EXCEPT
                                  ![m_IndexOfImage] = [camera |-> c, frame |-> grabbedFrame]]
        /\ m_PrevInputImage' = [m_PrevInputImage EXCEPT ![c] = grabbedFrame]
        /\ differenceAt' = [camera |-> c, at |-> "stamp"] /\ differenceAt.at = "frame"
        /\ UNCHANGED <<m_BufferOfTimeStamp, m_IndexOfImage, m_DifferenceOfImages, diffSettings,
                       grabbedFrame, savedFiles, lastDifferenced>>
    BY DEF c
  <2>2. savedOver' \in BOOLEAN /\ (savedOver' <=> savedOver \/ Writing)
    BY DEF SaveTypes
  <2>3. DifferenceTypes'
    <3>1. DiffTypes'
      BY <2>0, <2>1, <2>2 DEF DiffTypes, LoopTypes, differences, diffSettings
    <3>2. RingTypes'
      BY <2>0, <2>1, <2>2 DEF RingTypes, LoopTypes, ring, RingIndices
    <3>3. LoopTypes'
      BY <2>0, <2>1, <2>2 DEF LoopTypes, LoopAtRest, diffSettings
    <3>4. SaveTypes'
      BY <2>0, <2>1, <2>2 DEF SaveTypes, savedFiles, RingIndices
    <3> QED
      BY <3>1, <3>2, <3>3, <3>4 DEF DifferenceTypes
  <2>4. RingInv'
    BY <2>1 DEF RingInv, RingIndices, RingTypes, LoopTypes
  <2>5. FilesInv'
    BY <2>1, <2>2 DEF FilesInv, SavedWithItsStamp, Writing, savedFiles
  <2>6. ASSUME NEW d \in M
        PROVE  /\ Passed(d)' <=> (Passed(d) \/ d = c)
               /\ ~Passed(c) /\ d \in 0 .. 2
    BY <2>0, <2>1 DEF Passed, DiffTypes, LoopTypes, LoopAtRest
  <2>7. PreviousInv'
    BY <2>0, <2>1, <2>6 DEF PreviousInv, DiffTypes, LoopTypes, diffSettings, LoopAtRest
  <2>8. DifferenceOfSuccessiveImages'
    BY <2>0, <2>1, <2>6
       DEF DifferenceOfSuccessiveImages, DiffTypes, LoopTypes, diffSettings, LoopAtRest
  <2> QED
    BY <2>3, <2>4, <2>5, <2>7, <2>8 DEF DifferenceInv
<1>4. CASE StampTheImage
  <2> USE <1>0, <1>4 DEF StampTheImage
  <2>0. /\ differenceAt.camera \in M /\ M \subseteq 0 .. 2
        /\ m_IndexOfImage' \in RingIndices
    <3>1. (m_IndexOfImage + 1) % Slots \in 0 .. Slots - 1
      BY DEF RingTypes, RingIndices
    <3> QED
      BY <3>1 DEF DiffTypes, LoopTypes, RingIndices
  <2>1. savedOver' \in BOOLEAN /\ (savedOver' <=> savedOver \/ Writing)
    BY DEF SaveTypes
  <2>2. DifferenceTypes'
    <3>1. DiffTypes'
      BY <2>0, <2>1 DEF DiffTypes, LoopTypes, differences, diffSettings
    <3>2. RingTypes'
      BY <2>0, <2>1 DEF RingTypes, LoopTypes, ring, RingIndices
    <3>3. LoopTypes'
      BY <2>0, <2>1 DEF LoopTypes, LoopAtRest, diffSettings, NextInFrame
    <3>4. SaveTypes'
      BY <2>0, <2>1 DEF SaveTypes, savedFiles, RingIndices
    <3> QED
      BY <3>1, <3>2, <3>3, <3>4 DEF DifferenceTypes
  <2>3. RingInv'
    BY DEF RingInv, RingIndices, RingTypes, LoopTypes, NextInFrame
  <2>4. FilesInv'
    BY <2>1 DEF FilesInv, SavedWithItsStamp, Writing, savedFiles
  <2>5. ASSUME NEW d \in M PROVE Passed(d)' <=> Passed(d)
    <3>1. /\ d \in 0 .. 2 /\ differenceAt.camera \in 0 .. 2 /\ differenceAt.at = "stamp"
          /\ differenceAt' = [camera |-> differenceAt.camera + 1, at |-> "frame"]
      BY <2>0 DEF NextInFrame
    <3> QED
      BY <3>1 DEF Passed
  <2>6. PreviousInv' /\ DifferenceOfSuccessiveImages'
    BY <2>0, <2>5 DEF PreviousInv, DifferenceOfSuccessiveImages, diffSettings, differences,
                      LoopAtRest, NextInFrame
  <2> QED
    BY <2>2, <2>3, <2>4, <2>6 DEF DifferenceInv
<1>5. CASE EndDifference
  <2> USE <1>0, <1>5 DEF EndDifference
  <2>1. DifferenceTypes'
    <3>1. DiffTypes'
      BY DEF DiffTypes, LoopTypes, differences, diffSettings
    <3>2. RingTypes'
      BY DEF RingTypes, LoopTypes, ring, RingIndices
    <3>3. LoopTypes'
      BY DEF LoopTypes, LoopAtRest, diffSettings
    <3>4. SaveTypes'
      BY DEF SaveTypes, savedFiles, RingIndices
    <3> QED
      BY <3>1, <3>2, <3>3, <3>4 DEF DifferenceTypes
  <2>2. RingInv' /\ FilesInv'
    BY DEF RingInv, FilesInv, SavedWithItsStamp, Writing, ring, savedFiles, LoopAtRest, RingIndices
  <2>3. ASSUME NEW d \in M PROVE Passed(d)
    BY DEF Passed, Ahead, DiffTypes, LoopTypes, LoopAtRest
  <2>4. PreviousInv' /\ DifferenceOfSuccessiveImages'
    BY <2>3 DEF PreviousInv, Passed, DifferenceOfSuccessiveImages, DiffTypes, LoopTypes,
       differences,
                diffSettings, LoopAtRest
  <2> QED
    BY <2>1, <2>2, <2>4 DEF DifferenceInv
<1> QED
  BY <1>1, <1>2, <1>3, <1>4, <1>5

(* ... those of the client that saves an image, ...                        *)
LEMMA ImageIsSaved ==
  ASSUME DifferenceInv, NEW opens \in BOOLEAN, SaveImage(opens)
  PROVE  SaveTypes' /\ FilesInv'
<1> DEFINE i == saving.slot
           n == saving.src
           next == [slot |-> i, image |-> m_BufferOfImages[n], stamp |-> m_BufferOfTimeStamp[i]]
           src == IF opens THEN n + 1 ELSE n
<1>0. /\ RingTypes /\ SaveTypes /\ RingInv /\ FilesInv /\ Slots \in Nat
      /\ i \in RingIndices /\ n \in RingIndices /\ i \in Nat /\ n \in Nat /\ n <= i /\ i < Slots
  BY DifferenceAssumption DEF DifferenceInv, DifferenceTypes, SaveTypes, RingIndices
<1>1. /\ Writing
      /\ files' = IF opens THEN [files EXCEPT !.images = Append(files.images, next)] ELSE files
      /\ saving' = IF i + 1 = Slots THEN NotSaving ELSE [saving EXCEPT !.slot = i + 1, !.src = src]
      /\ savedOver' = savedOver /\ differenceAt' = differenceAt
      /\ m_BufferOfTimeStamp' = m_BufferOfTimeStamp
  BY DEF SaveImage, ring
<1>2. /\ next \in FileOfImage /\ next.slot = i /\ next.stamp = m_BufferOfTimeStamp[i]
      /\ next.image.frame = m_BufferOfImages[n].frame
  BY <1>0 DEF FileOfImage, RingTypes
<1>3. src = IF opens THEN n + 1 ELSE n
  OBVIOUS
<1>4. Len(files.images) = n
  BY <1>0, <1>1 DEF FilesInv
<1> HIDE DEF next, src
<1>5. src \in Nat /\ src <= i + 1 /\ (i + 1 # Slots => src \in RingIndices /\ i + 1 \in RingIndices)
  <2> HIDE DEF i, n
  <2> QED
    BY <1>0, <1>3 DEF RingIndices
<1>6. SaveTypes' /\ (Writing' => saving'.src = src)
  <2> DEFINE Saves == [at : {"idle", "image"}, slot : RingIndices, src : RingIndices]
  <2>0. saving \in Saves /\ savedOver' \in BOOLEAN
    BY <1>0, <1>1 DEF SaveTypes
  <2>1. CASE i + 1 = Slots
    <3>1. saving' = NotSaving /\ NotSaving \in Saves /\ ~Writing'
      BY <1>0, <1>1, <2>1 DEF RingIndices, Writing, NotSaving
    <3>2. NotSaving.src <= NotSaving.slot
      BY DEF NotSaving
    <3> HIDE DEF Saves
    <3>3. saving' \in Saves /\ saving'.src <= saving'.slot
      BY <3>1, <3>2
    <3> QED
      BY <2>0, <3>1, <3>3, Zenon DEF SaveTypes, Saves
  <2>2. CASE i + 1 # Slots
    <3>1. saving' = [saving EXCEPT !.slot = i + 1, !.src = src]
      BY <1>1, <2>2
    <3>2. saving' \in Saves /\ saving'.slot = i + 1 /\ saving'.src = src
      BY <1>5, <2>0, <2>2, <3>1
    <3> HIDE DEF Saves
    <3>3. saving' \in Saves /\ saving'.src <= saving'.slot
      BY <1>5, <3>2
    <3> QED
      BY <2>0, <3>2, <3>3, Zenon DEF SaveTypes, Saves
  <2> QED
    BY <2>1, <2>2
<1>7. CASE ~opens
  <2>1. files' = files /\ src = n
    BY <1>1, <1>3, <1>7
  <2> QED
    BY <1>0, <1>1, <1>4, <1>6, <2>1 DEF FilesInv, SavedWithItsStamp, Writing
<1>8. CASE opens
  <2>0. /\ files.images \in Seq(FileOfImage) /\ src = n + 1
        /\ files = [stamps |-> files.stamps, images |-> files.images]
    BY <1>0, <1>3, <1>8 DEF FilesInv
  <2>1. files' = [stamps |-> files.stamps, images |-> Append(files.images, next)]
    BY <1>1, <1>8, <2>0
  <2>2. files'.images = Append(files.images, next) /\ files'.stamps = files.stamps
    BY <2>1
  <2> HIDE DEF i, n
  <2>3. /\ files'.images \in Seq(FileOfImage)
        /\ Len(files'.images) = n + 1 /\ files'.images[n + 1] = next
        /\ \A j \in 1 .. n : files'.images[j] = files.images[j]
        /\ DOMAIN files'.images = 1 .. n + 1 /\ DOMAIN files.images = 1 .. n
    BY <1>0, <1>2, <1>4, <2>0, <2>2, AppendProperties, LenProperties
  <2>4. SavedWithItsStamp'
    <3> SUFFICES ASSUME ~savedOver, NEW j \in 1 .. n + 1, files'.images[j].slot = j - 1
                 PROVE  LET file == files'.images[j] IN
                        /\ file.stamp = file.image.frame
                        /\ files.stamps # <<>> => file.stamp = files.stamps[file.slot]
      BY <1>1, <2>2, <2>3 DEF SavedWithItsStamp
    <3>1. CASE j = n + 1
      <4>1. i = n /\ files'.images[j] = next
        BY <1>0, <1>2, <2>3, <3>1
      <4>2. /\ m_BufferOfImages[i].frame = m_BufferOfTimeStamp[i]
            /\ files.stamps # <<>> => files.stamps = m_BufferOfTimeStamp
        BY <1>0, <1>1 DEF FilesInv, RingInv
      <4> QED
        BY <1>2, <4>1, <4>2
    <3>2. CASE j \in 1 .. n
      BY <1>0, <2>3, <3>2 DEF FilesInv, SavedWithItsStamp
    <3> QED
      BY <1>0, <3>1, <3>2
  <2>5. FilesInv'
    BY <1>0, <1>1, <1>6, <2>0, <2>1, <2>2, <2>3, <2>4 DEF FilesInv, Writing
  <2> QED
    BY <1>6, <2>5
<1> QED
  BY <1>6, <1>7, <1>8

(* ... and all those of the clients.                                       *)
LEMMA CallsOfDifferences ==
  ASSUME DifferenceInv, \/ SetBufferImage \/ StartOrStopDifference \/ UNCHANGED differenceVars
                        \/ \E opens \in BOOLEAN : SaveStamps(opens) \/ SaveImage(opens)
  PROVE  DifferenceInv'
<1> USE DifferenceAssumption
<1>0. /\ DiffTypes /\ RingTypes /\ LoopTypes /\ SaveTypes
      /\ RingInv /\ FilesInv /\ PreviousInv /\ DifferenceOfSuccessiveImages
  BY DEF DifferenceInv, DifferenceTypes
<1>1. ASSUME UNCHANGED <<ring, differences, m_ImagesOnWhichToProcess, differenceAt, grabbedFrame,
                         lastDifferenced>>
      PROVE  RingInv' /\ PreviousInv' /\ DifferenceOfSuccessiveImages'
  BY <1>0, <1>1 DEF ring, differences, RingInv, PreviousInv, Passed, DifferenceOfSuccessiveImages
<1>2. CASE SetBufferImage \/ StartOrStopDifference \/ UNCHANGED differenceVars
  <2>1. /\ UNCHANGED <<ring, differences, m_ImagesOnWhichToProcess, differenceAt, grabbedFrame,
                       lastDifferenced, savedFiles, savedOver>>
    BY <1>2 DEF SetBufferImage, StartOrStopDifference, differenceVars, diffSettings
  <2>2. DifferenceTypes'
    BY <1>0, <2>1 DEF DifferenceTypes, DiffTypes, RingTypes, LoopTypes, SaveTypes, ring,
                      differences, savedFiles
  <2>3. FilesInv'
    BY <1>0, <2>1 DEF FilesInv, SavedWithItsStamp, Writing, ring, savedFiles
  <2> QED
    BY <1>1, <2>1, <2>2, <2>3 DEF DifferenceInv
<1>3. ASSUME NEW opens \in BOOLEAN, SaveStamps(opens) PROVE DifferenceInv'
  <2> USE <1>0, <1>3 DEF SaveStamps
  <2>1. savedOver' \in BOOLEAN /\ (savedOver' <=> differenceAt.at = "stamp")
    OBVIOUS
  <2>2. DifferenceTypes'
    <3>1. DiffTypes'
      BY <2>1 DEF DiffTypes, LoopTypes, differences, diffSettings
    <3>2. RingTypes'
      BY <2>1 DEF RingTypes, LoopTypes, ring, RingIndices
    <3>3. LoopTypes'
      BY <2>1 DEF LoopTypes, LoopAtRest, diffSettings
    <3>4. SaveTypes'
      BY <2>1 DEF SaveTypes, savedFiles, RingIndices, NotSaving
    <3> QED
      BY <3>1, <3>2, <3>3, <3>4 DEF DifferenceTypes
  <2>3. FilesInv'
    <3>1. /\ files'.images = <<>> /\ files' = [stamps |-> files'.stamps, images |-> files'.images]
          /\ files'.stamps # <<>> => files'.stamps = m_BufferOfTimeStamp
          /\ saving' = [at |-> "image", slot |-> 0, src |-> 0]
          /\ m_BufferOfTimeStamp' = m_BufferOfTimeStamp /\ differenceAt' = differenceAt
      BY DEF ring, NotSaving
    <3> QED
      BY <2>1, <3>1 DEF FilesInv, SavedWithItsStamp, Writing
  <2> QED
    BY <1>1, <2>2, <2>3 DEF DifferenceInv, diffSettings
<1>4. ASSUME NEW opens \in BOOLEAN, SaveImage(opens) PROVE DifferenceInv'
  <2>1. /\ UNCHANGED <<ring, differences, m_ImagesOnWhichToProcess, differenceAt, grabbedFrame,
                       lastDifferenced>>
    BY <1>4 DEF SaveImage, diffSettings
  <2>2. DiffTypes' /\ RingTypes' /\ LoopTypes'
    BY <1>0, <2>1 DEF DiffTypes, RingTypes, LoopTypes, ring, differences
  <2>3. SaveTypes' /\ FilesInv'
    BY <1>4, ImageIsSaved
  <2> QED
    BY <1>1, <2>1, <2>2, <2>3 DEF DifferenceInv, DifferenceTypes
<1> QED
  BY <1>2, <1>3, <1>4

(* An image that was saved has its own stamp in both files unless the loop *)
(* wrote to the ring meanwhile or a file before it did not open, and a     *)
(* difference is of the camera's images of successive frames, for any      *)
(* number of slots and whichever files open.                               *)
THEOREM DifferencesRight ==
  DifferenceSpec => [](SavedWithItsStamp /\ DifferenceOfSuccessiveImages)
<1>1. DifferenceInv /\ [DifferenceNext]_differenceVars => DifferenceInv'
  BY FrameOfDifferences, CallsOfDifferences DEF DifferenceNext
<1>2. DifferenceInv => SavedWithItsStamp /\ DifferenceOfSuccessiveImages
  BY DEF DifferenceInv, FilesInv
<1> QED
  BY <1>1, <1>2, DifferenceStart, PTL DEF DifferenceSpec

-----------------------------------------------------------------------------
(* The server's memory stack (StackSpec).                                  *)

StackSlots == 0 .. m_MaxSI - 1
AllData == DataOf(0 .. 3)

StackTypes ==
  /\ m_NumberOfImagesToStack \in CameraCounts
  /\ m_IndexSI \in StackSlots
  /\ stack \in [StackSlots -> AllData \union {Unset}]
  /\ li \in Cameras
  /\ stored \in Seq(AllData)

(* With one or two cameras that never missed a pass the next slot is the   *)
(* next camera's, and so is every slot the side of its image.              *)
SlotsAlternate ==
  ~missed /\ m_NumberOfImagesToStack \in {1, 2} =>
    /\ m_IndexSI % m_NumberOfImagesToStack = li
    /\ \A i \in StackSlots : stack[i] # Unset => stack[i].side = i % m_NumberOfImagesToStack

StackInv == StackTypes /\ SlotsAlternate

LEMMA StackStart == StackInit => StackInv
<1> SUFFICES ASSUME StackInit PROVE StackInv
  OBVIOUS
<1>1. m_NumberOfImagesToStack \in 1 .. 4 /\ m_MaxSI \in Nat /\ m_MaxSI > 0
  BY StackAssumption DEF StackInit
<1>2. 0 \in StackSlots /\ 0 \in Cameras
  BY <1>1 DEF StackSlots, Cameras
<1>3. StackTypes
  <2>1. stack \in [StackSlots -> AllData \union {Unset}]
    BY DEF StackInit, StackSlots
  <2>2. stored \in Seq(AllData)
    BY DEF StackInit
  <2> QED
    BY <1>2, <2>1, <2>2 DEF StackInit, StackTypes
<1>4. \A i \in StackSlots : stack[i] = Unset
  BY DEF StackInit, StackSlots
<1>5. m_NumberOfImagesToStack \in {1, 2} => m_IndexSI % m_NumberOfImagesToStack = li
  <2>1. 0 % 1 = 0 /\ 0 % 2 = 0
    OBVIOUS
  <2> QED
    BY <2>1 DEF StackInit
<1> QED
  BY <1>3, <1>4, <1>5 DEF StackInv, SlotsAlternate

(* The slot after the next, and the camera after the next.                 *)
LEMMA NextPlaces ==
  ASSUME StackTypes
  PROVE  /\ m_NumberOfImagesToStack \in 1 .. 4 /\ li \in 0 .. 3
         /\ NextSlot \in StackSlots /\ NextCamera \in Cameras
         /\ m_NumberOfImagesToStack \in {1, 2} /\ m_IndexSI % m_NumberOfImagesToStack = li =>
              NextSlot % m_NumberOfImagesToStack = NextCamera
<1>1. /\ m_NumberOfImagesToStack \in CameraCounts /\ m_NumberOfImagesToStack \in 1 .. 4
      /\ m_MaxSI \in Nat /\ m_MaxSI > 0 /\ m_MaxSI % m_NumberOfImagesToStack = 0
  BY StackAssumption DEF StackTypes
<1>2. m_IndexSI \in 0 .. m_MaxSI - 1 /\ li \in 0 .. m_NumberOfImagesToStack - 1
  BY DEF StackTypes, StackSlots, Cameras
<1>3. NextSlot \in StackSlots
  BY <1>1, <1>2 DEF NextSlot, StackSlots
<1>4. NextCamera \in Cameras
  <2>1. li + 1 \in Nat
    BY <1>1, <1>2
  <2> QED
    BY <1>1, <2>1 DEF NextCamera, Cameras
<1>5. ASSUME m_NumberOfImagesToStack = 1 PROVE NextSlot % m_NumberOfImagesToStack = NextCamera
  <2>1. NextSlot % 1 = 0 /\ (li + 1) % 1 = 0
    BY <1>1, <1>2, <1>3 DEF StackSlots
  <2> QED
    BY <1>5, <2>1 DEF NextCamera
<1>6. ASSUME m_NumberOfImagesToStack = 2, m_IndexSI % m_NumberOfImagesToStack = li
      PROVE  NextSlot % m_NumberOfImagesToStack = NextCamera
  <2>1. m_IndexSI % 2 = li /\ m_MaxSI % 2 = 0
    BY <1>1, <1>6
  <2>2. (m_IndexSI + 1) % 2 = (li + 1) % 2
    BY <1>1, <1>2, <2>1
  <2> QED
    BY <1>6, <2>1, <2>2 DEF NextSlot, NextCamera
<1> QED
  BY <1>1, <1>2, <1>3, <1>4, <1>5, <1>6

LEMMA StackStep ==
  ASSUME StackInv, [StackNext]_stackVars PROVE StackInv'
<1> USE DEF StackInv
<1>1. CASE Grabbed /\ li # 2
  <2> DEFINE datum == [frame |-> Len(stored) + 1, side |-> li]
  <2>1. StackTypes
    OBVIOUS
  <2>2. /\ stack' = [stack EXCEPT ![m_IndexSI] = datum]
        /\ stored' = Append(stored, datum)
        /\ m_IndexSI' = NextSlot /\ li' = NextCamera
        /\ m_NumberOfImagesToStack' = m_NumberOfImagesToStack /\ missed' = missed
    BY <1>1 DEF Grabbed, StoreImageOnStack
  <2>3. datum \in AllData
    <3>1. Len(stored) + 1 \in 1 .. MaxStored
      BY <1>1, StackAssumption, LenProperties DEF StackTypes, Grabbed
    <3>2. li \in 0 .. 3
      BY <2>1, NextPlaces
    <3> QED
      BY <3>1, <3>2 DEF AllData, DataOf
  <2>4. datum.side = li
    OBVIOUS
  <2> HIDE DEF datum
  <2>5. stored' \in Seq(AllData)
    BY <2>2, <2>3, AppendProperties DEF StackTypes
  <2>6. /\ stack' \in [StackSlots -> AllData \union {Unset}]
        /\ \A i \in StackSlots : stack'[i] = IF i = m_IndexSI THEN datum ELSE stack[i]
    BY <2>2, <2>3 DEF StackTypes
  <2>7. StackTypes'
    BY <2>1, <2>2, <2>5, <2>6, NextPlaces DEF StackTypes, Cameras, StackSlots
  <2>8. SlotsAlternate'
    <3> SUFFICES ASSUME ~missed', m_NumberOfImagesToStack' \in {1, 2}
                 PROVE  /\ m_IndexSI' % m_NumberOfImagesToStack' = li'
                        /\ \A i \in StackSlots : stack'[i] # Unset =>
                             stack'[i].side = i % m_NumberOfImagesToStack'
      BY DEF SlotsAlternate, StackSlots
    <3>1. m_IndexSI % m_NumberOfImagesToStack = li
      BY <2>2 DEF SlotsAlternate
    <3>2. m_IndexSI' % m_NumberOfImagesToStack' = li'
      BY <2>1, <2>2, <3>1, NextPlaces
    <3>3. ASSUME NEW i \in StackSlots, stack'[i] # Unset
          PROVE  stack'[i].side = i % m_NumberOfImagesToStack
      <4>1. CASE i = m_IndexSI
        BY <2>4, <2>6, <3>1, <4>1
      <4>2. CASE i # m_IndexSI
        BY <2>2, <2>6, <3>3, <4>2 DEF SlotsAlternate
      <4> QED
        BY <4>1, <4>2
    <3> QED
      BY <2>2, <3>2, <3>3
  <2> QED
    BY <2>7, <2>8
<1>2. CASE Grabbed /\ li = 2
  <2>1. /\ UNCHANGED <<stack, stored, m_IndexSI, m_NumberOfImagesToStack, missed>>
        /\ li' = NextCamera
    BY <1>2 DEF Grabbed
  <2>2. m_NumberOfImagesToStack \notin {1, 2}
    BY <1>2 DEF StackTypes, Cameras
  <2> QED
    BY <2>1, <2>2, NextPlaces DEF StackTypes, SlotsAlternate, Cameras, StackSlots
<1>3. CASE NotGrabbed
  BY <1>3, NextPlaces DEF NotGrabbed, StackTypes, SlotsAlternate, Cameras, StackSlots
<1>4. CASE UNCHANGED stackVars
  BY <1>4 DEF stackVars, StackTypes, SlotsAlternate, Cameras, StackSlots
<1> QED
  BY <1>1, <1>2, <1>3, <1>4 DEF StackNext

(* The slots a file of stamps is of, and those of a camera's side.         *)
LEMMA SlotsOfCamera ==
  ASSUME NEW n \in {1, 2}, NEW M \in Nat, M % n = 0, NEW camera \in 0 .. n - 1
  PROVE  /\ \A j \in 1 .. M \div n : /\ (j - 1) * n + camera \in 0 .. M - 1
                                     /\ ((j - 1) * n + camera) % n = camera
         /\ \A i \in 0 .. M - 1 : i % n = camera =>
              \E j \in 1 .. M \div n : (j - 1) * n + camera = i
<1>1. CASE n = 1
  <2>1. camera = 0 /\ M \div 1 = M
    BY <1>1
  <2>2. \A j \in 1 .. M : (j - 1) * 1 + 0 = j - 1 /\ (j - 1) % 1 = 0
    OBVIOUS
  <2>3. \A i \in 0 .. M - 1 : i + 1 \in 1 .. M /\ (i + 1 - 1) * 1 + 0 = i
    OBVIOUS
  <2> QED
    BY <1>1, <2>1, <2>2, <2>3
<1>2. CASE n = 2
  <2>1. M % 2 = 0 /\ camera \in 0 .. 1
    BY <1>2
  <2>2. PICK half \in Nat : M = 2 * half /\ M \div 2 = half
    <3>1. M = 2 * (M \div 2) /\ M \div 2 \in Nat
      BY <2>1
    <3> QED
      BY <3>1
  <2>3. \A j \in 1 .. half : /\ (j - 1) * 2 + camera \in 0 .. M - 1
                          /\ ((j - 1) * 2 + camera) % 2 = camera
    BY <2>1, <2>2
  <2>4. ASSUME NEW i \in 0 .. M - 1, i % 2 = camera
        PROVE  \E j \in 1 .. half : (j - 1) * 2 + camera = i
    <3>1. i \in Nat /\ i < 2 * half
      BY <2>2
    <3>2. PICK q \in Nat : i = 2 * q + camera
      <4>1. i = 2 * (i \div 2) + camera /\ i \div 2 \in Nat
        BY <2>1, <2>4, <3>1
      <4> QED
        BY <4>1
    <3>3. q + 1 \in 1 .. half
      BY <2>1, <3>1, <3>2
    <3>4. ((q + 1) - 1) * 2 + camera = i
      BY <2>1, <3>2
    <3> QED
      BY <3>3, <3>4
  <2> QED
    BY <1>2, <2>2, <2>3, <2>4
<1> QED
  BY <1>1, <1>2

LEMMA DataOfSides ==
  ASSUME NEW sides, NEW d \in DataOf(0 .. 3), d.side \in sides
  PROVE  d \in DataOf(sides)
<1>1. PICK frame \in 1 .. MaxStored, side \in 0 .. 3 : d = [frame |-> frame, side |-> side]
  BY DEF DataOf
<1> QED
  BY <1>1 DEF DataOf

(* A camera's images in the ring are those the rule of its stamps names,   *)
(* in the same order.                                                      *)
LEMMA SlotsOfTheFiles ==
  ASSUME StackInv PROVE StampsOfTheImages
<1> SUFFICES ASSUME ~missed, m_NumberOfImagesToStack \in {1, 2}, NEW camera \in Cameras
             PROVE  Selected(TimeStampFile(camera), DataOf(Cameras)) = DumpFiles(camera)
  <2>1. m_NumberOfImagesToStack \in 1 .. 4
    BY NextPlaces DEF StackInv
  <2>2. m_NumberOfImagesToStack # 3 /\ m_NumberOfImagesToStack # 4 =>
          m_NumberOfImagesToStack \in {1, 2}
    BY <2>1
  <2> QED
    BY <2>2 DEF StampsOfTheImages
<1> DEFINE n == m_NumberOfImagesToStack
           m == m_MaxSI \div n
           s == TimeStampFile(camera)
           t == [i \in 1 .. m_MaxSI |-> stack[i - 1]]
           A == PlacesOf(s, DataOf(Cameras))
           B == PlacesOf(t, DataOf({camera}))
           f == [j \in A |-> (j - 1) * n + camera + 1]
<1>1. /\ n \in {1, 2} /\ m_MaxSI \in Nat /\ m_MaxSI % n = 0 /\ camera \in 0 .. n - 1
      /\ camera \in Nat /\ Cameras = 0 .. n - 1
  BY StackAssumption DEF StackInv, StackTypes, Cameras
<1>2. m \in Nat
  <2>1. n = 1 => m_MaxSI \div 1 \in Nat
    BY <1>1
  <2>2. n = 2 => m_MaxSI \div 2 \in Nat
    BY <1>1
  <2> QED
    BY <1>1, <2>1, <2>2
<1>3. /\ \A j \in 1 .. m : /\ (j - 1) * n + camera \in StackSlots
                            /\ ((j - 1) * n + camera) % n = camera
      /\ \A i \in StackSlots : i % n = camera => \E j \in 1 .. m : (j - 1) * n + camera = i
  BY <1>1, SlotsOfCamera DEF StackSlots
<1>4. \A i \in StackSlots :
        /\ stack[i] \in DataOf(0 .. 3) \union {Unset}
        /\ stack[i] # Unset => stack[i].side = i % n
  BY DEF StackInv, StackTypes, SlotsAlternate, AllData
<1>5. \A sides : \A i \in StackSlots :
        /\ stack[i] \in DataOf(sides) => stack[i] # Unset /\ stack[i].side \in sides
        /\ stack[i] # Unset /\ stack[i].side \in sides => stack[i] \in DataOf(sides)
  <2> SUFFICES ASSUME NEW sides, NEW i \in StackSlots
               PROVE  /\ stack[i] \in DataOf(sides) =>
                           stack[i] # Unset /\ stack[i].side \in sides
                      /\ stack[i] # Unset /\ stack[i].side \in sides =>
                           stack[i] \in DataOf(sides)
    OBVIOUS
  <2> DEFINE d == stack[i]
  <2> HIDE DEF n, m, s, t, A, B, f
  <2>1. d \in DataOf(0 .. 3) \union {Unset}
    BY <1>4
  <2> HIDE DEF d
  <2>2. d \in DataOf(sides) => d # Unset /\ d.side \in sides
    BY DEF DataOf, Unset
  <2>3. ASSUME d # Unset, d.side \in sides PROVE d \in DataOf(sides)
    <3>1. d \in DataOf(0 .. 3)
      BY <2>1, <2>3
    <3> QED
      BY <2>3, <3>1, DataOfSides
  <2> QED
    BY <2>2, <2>3 DEF d
<1>6. \A i \in StackSlots :
        /\ i % n = camera => (stack[i] \in DataOf(Cameras) <=> stack[i] # Unset)
        /\ stack[i] \in DataOf({camera}) <=> stack[i] # Unset /\ i % n = camera
  <2> TAKE i \in StackSlots
  <2> DEFINE side == i % n
  <2> HIDE DEF n, m, s, t, A, B, f
  <2>1. stack[i] # Unset => stack[i].side = side
    BY <1>4
  <2> HIDE DEF side
  <2>2. side = camera => (stack[i] \in DataOf(Cameras) <=> stack[i] # Unset)
    BY <1>5, <2>1
  <2>3. stack[i] \in DataOf({camera}) <=> stack[i] # Unset /\ side = camera
    BY <1>5, <2>1
  <2> QED
    BY <2>2, <2>3 DEF side
<1>7. DOMAIN s = 1 .. m /\ \A j \in 1 .. m : s[j] = stack[(j - 1) * n + camera]
  BY DEF TimeStampFile
<1>8. DOMAIN t = 1 .. m_MaxSI /\ \A i \in 1 .. m_MaxSI : t[i] = stack[i - 1]
  OBVIOUS
<1>9. A \subseteq 1 .. m /\ \A j \in 1 .. m : j \in A <=> stack[(j - 1) * n + camera] # Unset
  BY <1>3, <1>6, <1>7 DEF PlacesOf
<1>10. /\ B \subseteq 1 .. m_MaxSI
       /\ \A i \in 1 .. m_MaxSI : i \in B => (i - 1) % n = camera /\ stack[i - 1] # Unset
       /\ \A i \in 1 .. m_MaxSI : (i - 1) % n = camera /\ stack[i - 1] # Unset => i \in B
  <2>1. \A i \in 1 .. m_MaxSI : i \in B <=> stack[i - 1] \in DataOf({camera})
    BY <1>8 DEF PlacesOf
  <2>2. \A i \in 1 .. m_MaxSI : i - 1 \in StackSlots
    BY <1>1 DEF StackSlots
  <2>4. B \subseteq 1 .. m_MaxSI
    BY <1>8 DEF PlacesOf
  <2> HIDE DEF B, n
  <2> QED
    BY <1>6, <2>1, <2>2, <2>4
<1>11. \A j \in A : f[j] = (j - 1) * n + camera + 1
  OBVIOUS
<1>12. DOMAIN f = A /\ f = [j \in A |-> f[j]]
  OBVIOUS
<1>13. A \in SUBSET Nat /\ B \in SUBSET Nat /\ IsFiniteSet(A)
  <2> HIDE DEF A, B, m
  <2>1. IsFiniteSet(1 .. m)
    BY <1>2, UpTo
  <2>2. A \in SUBSET (1 .. m) /\ B \in SUBSET (1 .. m_MaxSI)
    BY <1>9, <1>10
  <2>3. IsFiniteSet(A)
    BY <2>1, <2>2, FS_Subset
  <2>4. A \in SUBSET Nat /\ B \in SUBSET Nat
    BY <1>1, <1>2, <2>2
  <2> QED
    BY <2>3, <2>4
<1>14. s = TimeStampFile(camera) /\ DumpFiles(camera) = Selected(t, DataOf({camera}))
  BY DEF DumpFiles
<1>15. A = PlacesOf(s, DataOf(Cameras)) /\ B = PlacesOf(t, DataOf({camera}))
  OBVIOUS
<1> HIDE DEF A, B, f, s, t, n, m
<1>16. \A j \in A : f[j] \in B /\ t[f[j]] = s[j]
  <2> TAKE j \in A
  <2> DEFINE i == (j - 1) * n + camera
  <2>1. j \in 1 .. m /\ stack[i] # Unset /\ s[j] = stack[i] /\ f[j] = i + 1
    BY <1>7, <1>9, <1>11
  <2>2. i \in StackSlots /\ i % n = camera
    BY <1>3, <2>1
  <2> HIDE DEF i
  <2>3. i + 1 \in 1 .. m_MaxSI /\ (i + 1) - 1 = i
    BY <1>1, <2>2 DEF StackSlots
  <2> QED
    BY <1>8, <1>10, <2>1, <2>2, <2>3
<1>17. \A j, k \in A : j < k => f[j] < f[k]
  <2> TAKE j, k \in A
  <2>1. j \in Nat /\ k \in Nat
    BY <1>13
  <2>2. n = 1 => f[j] = (j - 1) * 1 + camera + 1 /\ f[k] = (k - 1) * 1 + camera + 1
    BY <1>11
  <2>3. n = 2 => f[j] = (j - 1) * 2 + camera + 1 /\ f[k] = (k - 1) * 2 + camera + 1
    BY <1>11
  <2> QED
    BY <1>1, <2>1, <2>2, <2>3
<1>18. \A i \in B : \E j \in A : f[j] = i
  <2> TAKE i \in B
  <2>1. i \in 1 .. m_MaxSI /\ (i - 1) % n = camera /\ stack[i - 1] # Unset /\ i - 1 \in StackSlots
    BY <1>1, <1>10 DEF StackSlots
  <2>2. PICK j \in 1 .. m : (j - 1) * n + camera = i - 1
    BY <1>3, <2>1
  <2>3. j \in A
    BY <1>9, <2>1, <2>2
  <2>4. f[j] = (i - 1) + 1
    BY <1>11, <2>2, <2>3
  <2> QED
    BY <2>1, <2>3, <2>4
<1>19. f \in [A -> B]
  BY <1>16, <1>12
<1>20. Selected(s, DataOf(Cameras)) = Selected(t, DataOf({camera}))
  <2>1. /\ PlacesOf(s, DataOf(Cameras)) \in SUBSET Nat
        /\ PlacesOf(t, DataOf({camera})) \in SUBSET Nat
        /\ IsFiniteSet(PlacesOf(s, DataOf(Cameras)))
        /\ f \in [PlacesOf(s, DataOf(Cameras)) -> PlacesOf(t, DataOf({camera}))]
    BY <1>13, <1>19, <1>15
  <2>2. \A i, j \in PlacesOf(s, DataOf(Cameras)) : i < j => f[i] < f[j]
    BY <1>17, <1>15
  <2>3. \A j \in PlacesOf(t, DataOf({camera})) : \E i \in PlacesOf(s, DataOf(Cameras)) : f[i] = j
    BY <1>18, <1>15
  <2>4. \A i \in PlacesOf(s, DataOf(Cameras)) : t[f[i]] = s[i]
    BY <1>16, <1>15
  <2> QED
    BY <2>1, <2>2, <2>3, <2>4, SameParts
<1> QED
  BY <1>20, <1>14

(* The stamps and the images of a camera's files are of the same grabs, in *)
(* the same order, for any number of slots and whatever is stored: unless  *)
(* a pass was missed or there are more than two cameras.  And so are those *)
(* of the difference's process.                                            *)
THEOREM StampsRight == StackSpec /\ DifferenceSpec => []StampsOfTheFiles
<1>1. StackSpec => []StampsOfTheImages
  BY StackStart, StackStep, SlotsOfTheFiles, PTL DEF StackSpec
<1>2. StampsOfTheFiles <=>
        StampsOfTheImages /\ SavedWithItsStamp /\ DifferenceOfSuccessiveImages
  BY DEF StampsOfTheFiles
<1> QED
  BY <1>1, <1>2, DifferencesRight, PTL

-----------------------------------------------------------------------------
(* The feature points (HarrisSpec), with tiles of any size.                *)

(* Points more than a number of tiles apart are more than their length     *)
(* apart.                                                                  *)
LEMMA FarTiles ==
  ASSUME NEW T \in Nat \ {0}, NEW S \in Nat, S % T = 0, NEW a \in Nat, NEW b \in Nat,
         a \div T > b \div T + S \div T
  PROVE  a - b > S
<1> DEFINE u == a \div T
           v == b \div T
           span == S \div T
<1>1. /\ u \in Nat /\ v \in Nat /\ span \in Nat
      /\ a = T * u + (a % T) /\ b = T * v + (b % T) /\ S = T * span
      /\ a % T >= 0 /\ b % T <= T - 1 /\ a % T \in Int /\ b % T \in Int
  <2>1. u \in Nat /\ a = T * u + (a % T) /\ a % T \in 0 .. T - 1
    BY Quotient
  <2>2. v \in Nat /\ b = T * v + (b % T) /\ b % T \in 0 .. T - 1
    BY Quotient
  <2>3. span \in Nat /\ S = T * span + (S % T)
    BY Quotient
  <2> HIDE DEF u, v, span
  <2>4. S = T * span
    BY <2>3
  <2> QED
    BY <2>1, <2>2, <2>3, <2>4
<1>2. u >= v + span + 1
  BY <1>1
<1> HIDE DEF u, v, span
<1>3. T * u >= T * (v + span + 1)
  BY <1>1, <1>2, ProductGrows
<1>4. T * (v + span + 1) = T * v + T * span + T
  BY <1>1
<1> QED
  BY <1>1, <1>3, <1>4

LEMMA SquareGrows ==
  ASSUME NEW d \in Int, NEW S \in Nat, d > S \/ d < 0 - S
  PROVE  d * d > S * S
<1>1. CASE d > S
  BY <1>1
<1>2. CASE d < 0 - S
  BY <1>2
<1> QED
  BY <1>1, <1>2

(* The tile of a point in a whole tile is one of the array, at the point's *)
(* column and row.                                                         *)
LEMMA Tiling ==
  ASSUME TilingDownSize \in Nat \ {0}, NEW p, InWholeTile(p)
  PROVE  /\ TilesWide \in Nat /\ TilesHigh \in Nat
         /\ p[1] \in Nat /\ p[2] \in Nat
         /\ p[1] \div TilingDownSize \in 0 .. TilesWide - 1
         /\ p[2] \div TilingDownSize \in 0 .. TilesHigh - 1
<1>1. HarrisWidth \in Nat /\ HarrisHeight \in Nat /\ p[1] \in Nat /\ p[2] \in Nat
  BY HarrisAssumption DEF InWholeTile, Points
<1>2. /\ HarrisWidth \div TilingDownSize \in Nat /\ HarrisHeight \div TilingDownSize \in Nat
      /\ p[1] \div TilingDownSize \in Nat /\ p[2] \div TilingDownSize \in Nat
  BY <1>1, Quotient
<1>3. TilesWide \in Nat /\ TilesHigh \in Nat
  BY <1>2 DEF TilesWide, TilesHigh
<1>4. p[1] \div TilingDownSize < TilesWide /\ p[2] \div TilingDownSize < TilesHigh
  BY DEF InWholeTile
<1> HIDE DEF InWholeTile
<1> QED
  BY <1>1, <1>2, <1>3, <1>4

LEMMA PointsTooNear ==
  ASSUME NEW p \in Points, NEW q \in Points, TooNear(p, q)
  PROVE  /\ p[1] - q[1] <= SeparationSpace /\ q[1] - p[1] <= SeparationSpace
         /\ p[2] - q[2] <= SeparationSpace /\ q[2] - p[2] <= SeparationSpace
<1> DEFINE dx == p[1] - q[1]
           dy == p[2] - q[2]
           S == SeparationSpace
<1>1. /\ p[1] \in Int /\ q[1] \in Int /\ p[2] \in Int /\ q[2] \in Int
      /\ dx \in Int /\ dy \in Int /\ S \in Nat
  BY HarrisAssumption DEF Points
<1>2. dx * dx + dy * dy <= S * S
  BY DEF TooNear, Distance2
<1> HIDE DEF dx, dy, S
<1>3. dx * dx >= 0 /\ dy * dy >= 0 /\ dx * dx \in Int /\ dy * dy \in Int /\ S * S \in Int
  BY <1>1
<1>4. ~(dx > S \/ dx < 0 - S)
  BY <1>1, <1>2, <1>3, SquareGrows
<1>5. ~(dy > S \/ dy < 0 - S)
  BY <1>1, <1>2, <1>3, SquareGrows
<1> QED
  BY <1>1, <1>4, <1>5 DEF dx, dy, S

(* The points of a tile are in it, and they are apart from all others.     *)
HarrisInv ==
  /\ m_SizeOfTheImage \in Int /\ TilingDownSize \in Nat \ {0}
  /\ DOMAIN m_ImageOfTiles = 0 .. TilesWide * TilesHigh - 1
  /\ \A t \in DOMAIN m_ImageOfTiles : \A q \in m_ImageOfTiles[t] :
       q \in Points /\ TileOf(q[1], q[2]) = t
  /\ PointsSeparated

(* A point that is accepted is far enough from those of all the tiles: one *)
(* that is too near is in a tile that was looked at.                       *)
LEMMA AcceptedIsSeparated ==
  ASSUME HarrisInv, NEW p \in Points, HarrisAdmitPointBasedOnNeighbor(p),
         SeparationSpace % TilingDownSize = 0,
         NEW q \in PointsIn(m_ImageOfTiles), InWholeTile(q)
  PROVE  ~TooNear(p, q)
<1> DEFINE T == TilingDownSize
           span == SeparationSpace \div T
<1> SUFFICES ASSUME TooNear(p, q) PROVE FALSE
  OBVIOUS
<1>1. PICK t \in DOMAIN m_ImageOfTiles : q \in m_ImageOfTiles[t]
  BY DEF PointsIn
<1>2. q \in Points /\ TileOf(q[1], q[2]) = t
  BY <1>1 DEF HarrisInv
<1>3. /\ T \in Nat \ {0} /\ p[1] \in Nat /\ p[2] \in Nat /\ q[1] \in Nat /\ q[2] \in Nat
      /\ q[1] \div T \in 0 .. TilesWide - 1 /\ q[2] \div T \in 0 .. TilesHigh - 1
      /\ p[1] \div T \in Nat /\ p[2] \div T \in Nat /\ span \in Nat /\ SeparationSpace \in Nat
  <2>1. /\ SeparationSpace \in Nat /\ T \in Nat \ {0} /\ p[1] \in Nat /\ p[2] \in Nat
    BY HarrisAssumption DEF HarrisInv, Points
  <2> QED
    BY <1>2, <2>1, Tiling, Quotient DEF HarrisInv
<1>4. /\ ~(p[1] \div T > q[1] \div T + span) /\ ~(q[1] \div T > p[1] \div T + span)
      /\ ~(p[2] \div T > q[2] \div T + span) /\ ~(q[2] \div T > p[2] \div T + span)
  <2>1. /\ ~(p[1] - q[1] > SeparationSpace) /\ ~(q[1] - p[1] > SeparationSpace)
        /\ ~(p[2] - q[2] > SeparationSpace) /\ ~(q[2] - p[2] > SeparationSpace)
    BY <1>2, <1>3, PointsTooNear
  <2> QED
    BY <1>3, <2>1, FarTiles
<1> DEFINE m == q[1] \div T
           n == q[2] \div T
           tx == p[1] \div T
           ty == p[2] \div T
<1>5. /\ m >= tx - span /\ m <= tx + span /\ m \in 0 .. TilesWide - 1
      /\ n >= ty - span /\ n <= ty + span /\ n \in 0 .. TilesHigh - 1
  <2> HIDE DEF m, n, tx, ty, span
  <2> QED
    BY <1>3, <1>4 DEF m, n, tx, ty
<1>6. t = n * TilesWide + m
  BY <1>2 DEF TileOf
<1> QED
  BY <1>1, <1>5, <1>6 DEF HarrisAdmitPointBasedOnNeighbor

LEMMA EmptyTilesHold ==
  ASSUME NEW size \in Nat \ {0}, TilingDownSize = size, m_ImageOfTiles = EmptyTiles(size),
         m_SizeOfTheImage \in Int
  PROVE  HarrisInv
<1>1. DOMAIN m_ImageOfTiles = 0 .. TilesWide * TilesHigh - 1 /\ \A t \in DOMAIN m_ImageOfTiles : m_ImageOfTiles[t] = {}
  BY DEF EmptyTiles, TilesWide, TilesHigh
<1>2. PointsIn(m_ImageOfTiles) = {}
  BY <1>1 DEF PointsIn
<1> QED
  BY <1>1, <1>2 DEF HarrisInv, PointsSeparated

LEMMA HarrisStep ==
  ASSUME HarrisInv, [HarrisNext]_harrisVars
  PROVE  HarrisInv'
<1>1. CASE \/ UNCHANGED harrisVars \/ \E size \in Ratios : SetRatioHarrisImage(size)
           \/ \E p \in Points : AcceptPastTheTiles(p)
  <2>1. /\ m_SizeOfTheImage' \in Int
        /\ TilingDownSize' = TilingDownSize /\ m_ImageOfTiles' = m_ImageOfTiles
    BY <1>1, HarrisAssumption
    DEF harrisVars, SetRatioHarrisImage, AcceptPastTheTiles, HarrisInv
  <2> QED
    BY <2>1 DEF HarrisInv, PointsSeparated, TilesWide, TilesHigh, TileOf, InWholeTile
<1>2. CASE FilteringHarrisPoint \/ AllocateOpticalFlowStructures
  <2>1. /\ m_SizeOfTheImage' \in Int /\ TilingDownSize' \in Nat \ {0}
        /\ m_ImageOfTiles' = EmptyTiles(TilingDownSize')
    BY <1>2 DEF FilteringHarrisPoint, AllocateOpticalFlowStructures, HarrisInv
  <2>2. /\ DOMAIN m_ImageOfTiles' = 0 .. TilesWide' * TilesHigh' - 1
        /\ \A t \in DOMAIN m_ImageOfTiles' : m_ImageOfTiles'[t] = {}
    BY <2>1 DEF EmptyTiles, TilesWide, TilesHigh
  <2>3. PointsIn(m_ImageOfTiles') = {}
    BY <2>2 DEF PointsIn
  <2> QED
    BY <2>1, <2>2, <2>3 DEF HarrisInv, PointsSeparated
<1>3. ASSUME NEW p \in Points, HarrisFilterFeaturePoints(p) PROVE HarrisInv'
  <2> DEFINE own == TileOf(p[1], p[2])
  <2>1. /\ m_ImageOfTiles' = [m_ImageOfTiles EXCEPT ![own] = @ \union {p}]
        /\ HarrisAdmitPointBasedOnNeighbor(p)
        /\ m_SizeOfTheImage' = m_SizeOfTheImage /\ TilingDownSize' = TilingDownSize
    BY <1>3 DEF HarrisFilterFeaturePoints
  <2> HIDE DEF own
  <2>2. /\ DOMAIN m_ImageOfTiles' = DOMAIN m_ImageOfTiles
        /\ \A t \in DOMAIN m_ImageOfTiles' : \A q \in m_ImageOfTiles'[t] :
             q \in m_ImageOfTiles[t] \/ (q = p /\ t = own)
    BY <2>1
  <2>3. \A q \in PointsIn(m_ImageOfTiles') : q \in PointsIn(m_ImageOfTiles) \/ q = p
    BY <2>2 DEF PointsIn
  <2>4. \A q \in PointsIn(m_ImageOfTiles) : q \in Points
    BY DEF PointsIn, HarrisInv
  <2>5. PointsSeparated'
    <3> SUFFICES ASSUME SeparationSpace % TilingDownSize = 0,
                        NEW q \in PointsIn(m_ImageOfTiles'), NEW r \in PointsIn(m_ImageOfTiles'),
                        InWholeTile(q), InWholeTile(r), q # r
                 PROVE  ~TooNear(q, r)
      BY <2>1 DEF PointsSeparated, InWholeTile, TilesWide, TilesHigh
    <3>1. CASE q \in PointsIn(m_ImageOfTiles) /\ r \in PointsIn(m_ImageOfTiles)
      BY <3>1 DEF HarrisInv, PointsSeparated
    <3>2. CASE q = p /\ r \in PointsIn(m_ImageOfTiles)
      BY <2>1, <3>2, AcceptedIsSeparated
    <3>3. CASE r = p /\ q \in PointsIn(m_ImageOfTiles)
      <4>1. ~TooNear(r, q)
        BY <2>1, <3>3, AcceptedIsSeparated
      <4>2. Distance2(r, q) = Distance2(q, r)
        <5>1. q[1] \in Int /\ q[2] \in Int /\ r[1] \in Int /\ r[2] \in Int
          BY <2>4, <3>3 DEF Points
        <5> QED
          BY <5>1 DEF Distance2
      <4> QED
        BY <4>1, <4>2 DEF TooNear
    <3> QED
      BY <2>3, <3>1, <3>2, <3>3
  <2>6. \A t \in DOMAIN m_ImageOfTiles' : \A q \in m_ImageOfTiles'[t] :
          q \in Points /\ TileOf(q[1], q[2]) = t
    BY <2>2 DEF HarrisInv, own
  <2> QED
    BY <2>1, <2>2, <2>5, <2>6 DEF HarrisInv, TilesWide, TilesHigh, TileOf
<1> QED
  BY <1>1, <1>2, <1>3 DEF HarrisNext

(* A match's points are of one tile.                                       *)
LEMMA MatchesHold ==
  ASSUME HarrisInv, NEW flow \in Flows, NEW m \in Matches(flow),
         InWholeTile(m[1]), InWholeTile(m[2])
  PROVE  /\ m[1][1] - m[2][1] < TilingDownSize /\ m[2][1] - m[1][1] < TilingDownSize
         /\ m[1][2] - m[2][2] < TilingDownSize /\ m[2][2] - m[1][2] < TilingDownSize
<1>0. PICK p \in PointsIn(m_PreviousImageOfTiles) :
        \E q \in Candidates(p[1] + flow[1], p[2] + flow[2]) :
          m = << <<p[1] + flow[1], p[2] + flow[2]>>, q>>
  BY DEF Matches
<1>1. PICK q \in Candidates(p[1] + flow[1], p[2] + flow[2]) :
        m = << <<p[1] + flow[1], p[2] + flow[2]>>, q>>
  BY <1>0
<1> DEFINE x == m[1][1]
           y == m[1][2]
           T == TilingDownSize
<1>2. q = m[2] /\ x = p[1] + flow[1] /\ y = p[2] + flow[2]
  BY <1>1
<1>3. TileOf(x, y) \in DOMAIN m_ImageOfTiles /\ q \in m_ImageOfTiles[TileOf(x, y)]
  BY <1>1, <1>2 DEF Candidates
<1>4. q \in Points /\ TileOf(q[1], q[2]) = TileOf(x, y)
  BY <1>3 DEF HarrisInv
<1>5. /\ T \in Nat \ {0} /\ TilesWide \in Nat
      /\ x \in Nat /\ y \in Nat /\ q[1] \in Nat /\ q[2] \in Nat
      /\ x \div T \in 0 .. TilesWide - 1 /\ q[1] \div T \in 0 .. TilesWide - 1
      /\ y \div T \in Nat /\ q[2] \div T \in Nat
  <2>1. T \in Nat \ {0}
    BY DEF HarrisInv
  <2>2. /\ TilesWide \in Nat /\ x \in Nat /\ y \in Nat /\ q[1] \in Nat /\ q[2] \in Nat
        /\ x \div T \in 0 .. TilesWide - 1 /\ q[1] \div T \in 0 .. TilesWide - 1
    BY <1>2, <2>1, Tiling
  <2>3. y \div T \in Nat /\ q[2] \div T \in Nat
    BY <2>1, <2>2, Quotient
  <2> QED
    BY <2>1, <2>2, <2>3
<1>6. x \div T = q[1] \div T /\ y \div T = q[2] \div T
  <2> DEFINE column == x \div T
             row == y \div T
             itsColumn == q[1] \div T
             itsRow == q[2] \div T
  <2>1. itsRow * TilesWide + itsColumn = row * TilesWide + column
    BY <1>4 DEF TileOf
  <2>2. /\ column \in 0 .. TilesWide - 1 /\ itsColumn \in 0 .. TilesWide - 1
        /\ row \in Nat /\ itsRow \in Nat
    BY <1>5
  <2> HIDE DEF column, row, itsColumn, itsRow
  <2>3. column = itsColumn /\ row = itsRow
    BY <1>5, <2>1, <2>2, PlaceInRows
  <2> QED
    BY <2>3 DEF column, row, itsColumn, itsRow
<1>7. ASSUME NEW a \in Nat, NEW b \in Nat, a \div T = b \div T PROVE a - b < T
  <2> DEFINE u == a \div T
  <2>1. /\ u \in Nat /\ a % T \in 0 .. T - 1 /\ a = T * u + (a % T)
        /\ b % T \in 0 .. T - 1 /\ b = T * u + (b % T)
    BY <1>5, <1>7, Quotient
  <2> HIDE DEF u
  <2> QED
    BY <1>5, <2>1
<1>8. x - q[1] < T /\ q[1] - x < T /\ y - q[2] < T /\ q[2] - y < T
  <2> HIDE DEF x, y, T
  <2> QED
    BY <1>5, <1>6, <1>7
<1> QED
  BY <1>2, <1>8

(* The points of a frame in whole tiles are more than the separation from  *)
(* each other, across the borders of tiles too, if it is a whole number of *)
(* tiles, and a match is less than a tile from where the flow led, if both *)
(* are in whole tiles: for any size of the image, of its border and of the *)
(* tiles, whether they divide the image or not, and any flow.              *)
THEOREM HarrisRight == HarrisSpec => []HarrisPointsOK
<1>1. HarrisInit => HarrisInv
  <2> SUFFICES ASSUME HarrisInit PROVE HarrisInv
    OBVIOUS
  <2>1. /\ m_SizeOfTheImage \in Nat \ {0} /\ TilingDownSize = m_SizeOfTheImage
        /\ m_ImageOfTiles = EmptyTiles(m_SizeOfTheImage)
    BY HarrisAssumption DEF HarrisInit
  <2> QED
    BY <2>1, EmptyTilesHold
<1>2. HarrisInv /\ [HarrisNext]_harrisVars => HarrisInv'
  BY HarrisStep
<1>3. HarrisInv => HarrisPointsOK
  <2> SUFFICES ASSUME HarrisInv PROVE HarrisPointsOK
    OBVIOUS
  <2>1. MatchesWhereFlowLeads
    BY MatchesHold DEF MatchesWhereFlowLeads
  <2> QED
    BY <2>1 DEF HarrisInv, HarrisPointsOK
<1> QED
  BY <1>1, <1>2, <1>3, PTL DEF HarrisSpec

-----------------------------------------------------------------------------
(* The sensors of the single camera SLAM (SlamSpec).                       *)

(* The sample that is chosen is as near as any.                            *)
LEMMA NearestIsNearest ==
  ASSUME NEW stamps \in [1 .. Samples -> Int], NEW timeref \in Int, NEW c,
         c = Nearest(stamps, timeref), c # 0
  PROVE  /\ c \in 1 .. Samples
         /\ \A k \in 1 .. Samples : Distance(stamps[c], timeref) <= Distance(stamps[k], timeref)
<1> DEFINE timediff(j) == Distance(stamps[j], timeref)
           near == {j \in 1 .. Samples : timediff(j) < Second}
           nearest == {j \in near : \A k \in near : timediff(j) <= timediff(k)}
           diffs == {timediff(j) : j \in near}
<1>0. Samples \in Nat /\ Second \in Nat
  BY SensorAssumption
<1>1. \A j \in 1 .. Samples : timediff(j) \in Nat
  BY DEF Distance
<1>2. near # {} /\ c = CHOOSE j \in nearest : \A k \in nearest : j <= k
  BY DEF Nearest
<1>3. diffs \subseteq Nat /\ diffs # {}
  BY <1>1, <1>2
<1> HIDE DEF timediff, diffs
<1>4. PICK d \in diffs : \A e \in diffs : d <= e
  BY <1>3, LeastNumber
<1>5. nearest # {} /\ nearest \subseteq Nat
  BY <1>4, <1>0 DEF diffs
<1> HIDE DEF nearest
<1>6. PICK j \in nearest : \A k \in nearest : j <= k
  BY <1>5, LeastNumber
<1>7. c \in nearest
  BY <1>2, <1>6
<1>8. \A k \in 1 .. Samples : timediff(c) <= timediff(k)
  BY <1>0, <1>1, <1>7 DEF nearest
<1> QED
  BY <1>7, <1>8 DEF nearest, timediff

(* Without the plugin the two flags are down, but for the exceptions; and  *)
(* a sample that was read is as near to its instant as the call allows.    *)
SensorsInv ==
  /\ flag \in [Flags -> BOOLEAN]
  /\ \A f \in {"Gyro", "WaistVelocity"} : ~connected => (flag[f] => (f \in raised \/ ~m_cxt))
  /\ NearestSampleUsed

(* The sample nearest to an instant shifted by the moment of the call is   *)
(* nearly so to the instant.                                               *)
LEMMA WithinTheDelay ==
  ASSUME NEW a \in Int, NEW b \in Int, NEW at \in Int, NEW offset \in Int, NEW half \in Nat,
         NEW moment \in 0 .. 2 * half,
         Distance(a + offset, at + moment + offset - half)
           <= Distance(b + offset, at + moment + offset - half)
  PROVE  Distance(a, at) <= Distance(b, at) + 2 * half
<1> DEFINE delay == moment - half
<1>1. delay \in Int /\ delay <= half /\ 0 - delay <= half
  OBVIOUS
<1>2. \A k \in Int : Distance(k + offset, at + moment + offset - half)
                       = IF k - at < delay THEN delay - (k - at) ELSE k - at - delay
  BY DEF Distance
<1>3. /\ Distance(a, at) = IF a - at < 0 THEN at - a ELSE a - at
      /\ Distance(b, at) = IF b - at < 0 THEN at - b ELSE b - at
  BY DEF Distance
<1> HIDE DEF delay
<1> QED
  BY <1>1, <1>2, <1>3

LEMMA SampleIsNear ==
  ASSUME ReadSample PROVE NearestSampleUsed'
<1>1. PICK stamps \in [1 .. Samples -> Instants], time1 \in Instants, half \in Halves,
           moment \in Int :
        /\ moment \in 0 .. 2 * half
        /\ LET delay == ClockDelay(time1, time1 + 2 * half, time1 + moment + Offset)
               onPlugin == [j \in 1 .. Samples |-> stamps[j] + Offset]
           IN  reading' = [chosen |-> Nearest(onPlugin, InstantOf(time1) + delay),
                           stamps |-> stamps, time1 |-> time1, half |-> half]
  <2>1. \A half \in Halves : 2 * half \in Nat /\ 0 .. 2 * half \subseteq Int
    BY SensorAssumption
  <2> QED
    BY <2>1 DEF ReadSample
<1> DEFINE delay == ClockDelay(time1, time1 + 2 * half, time1 + moment + Offset)
           onPlugin == [j \in 1 .. Samples |-> stamps[j] + Offset]
           at == InstantOf(time1)
           c == Nearest(onPlugin, at + delay)
<1>2. /\ time1 \in Int /\ at \in Int /\ half \in Nat /\ Offset \in Int
      /\ moment >= 0 /\ moment <= 2 * half
      /\ \A j \in 1 .. Samples : stamps[j] \in Int
  <2>1. /\ time1 \in Int /\ half \in Nat /\ Offset \in Int /\ FrameLag \in Int
        /\ SensorDelay \in Int /\ Instants \subseteq Int
    BY SensorAssumption
  <2>2. ASSUME NEW j \in 1 .. Samples PROVE stamps[j] \in Int
    <3>1. stamps[j] \in Instants
      OBVIOUS
    <3> QED
      BY <2>1, <3>1
  <2>3. moment >= 0 /\ moment <= 2 * half
    BY <1>1, <2>1
  <2>4. at \in Int
    BY <2>1 DEF InstantOf
  <2> QED
    BY <2>1, <2>2, <2>3, <2>4
<1>3. delay = moment + Offset - half /\ onPlugin \in [1 .. Samples -> Int]
  BY <1>2 DEF ClockDelay
<1>4. /\ reading'.chosen = c /\ reading'.stamps = stamps /\ reading'.time1 = time1
      /\ reading'.half = half
  BY <1>1
<1> SUFFICES ASSUME c # 0, NEW j \in 1 .. Samples
             PROVE  Distance(stamps[c], at) <= Distance(stamps[j], at) + 2 * half
  BY <1>4 DEF NearestSampleUsed
<1>5. /\ c \in 1 .. Samples
      /\ Distance(onPlugin[c], at + delay) <= Distance(onPlugin[j], at + delay)
  <2>1. at + delay \in Int
    BY <1>2, <1>3
  <2> HIDE DEF delay, onPlugin, at
  <2> QED
    BY <1>3, <2>1, NearestIsNearest
<1> HIDE DEF c, delay, at
<1>6. onPlugin[c] = stamps[c] + Offset /\ onPlugin[j] = stamps[j] + Offset
  BY <1>5
<1>7. /\ Distance(stamps[c] + Offset, at + moment + Offset - half)
            <= Distance(stamps[j] + Offset, at + moment + Offset - half)
      /\ stamps[c] \in Int /\ stamps[j] \in Int
  <2>1. at + delay = at + moment + Offset - half
    BY <1>2, <1>3
  <2> QED
    BY <1>2, <1>5, <1>6, <2>1
<1>8. moment \in 0 .. 2 * half
  BY <1>1
<1> HIDE DEF onPlugin
<1> QED
  BY <1>2, <1>7, <1>8, WithinTheDelay

LEMMA SensorsStep ==
  ASSUME SensorsInv, [SlamNext]_slamVars PROVE SensorsInv'
<1>1. CASE pRealizeTheProcess
  <2>1. NearestSampleUsed'
    BY <1>1, SampleIsNear DEF pRealizeTheProcess, ReadFails, NoReading, NearestSampleUsed
  <2> QED
    BY <1>1, <2>1 DEF pRealizeTheProcess, SensorsInv
<1>2. ASSUME NEW found \in BOOLEAN, ConnectToGGAA(found) PROVE SensorsInv'
  BY <1>2 DEF ConnectToGGAA, SensorsInv, NearestSampleUsed, Flags
<1>3. ASSUME NEW f \in Flags, NEW value \in BOOLEAN, SetFlag(f, value) PROVE SensorsInv'
  BY <1>3 DEF SetFlag, SensorsInv, NearestSampleUsed, Flags
<1>4. CASE UNCHANGED slamVars
  BY <1>4 DEF slamVars, SensorsInv, NearestSampleUsed
<1> QED
  BY <1>1, <1>2, <1>3, <1>4 DEF SlamNext

(* The filter is given no rotation and no velocity that was never read,    *)
(* but for the exceptions, and the sample it is given is the nearest to    *)
(* the instant the code looks for, 27 ms after the step took its image, as *)
(* far as the call's duration allows, whatever the plugin's clock and the  *)
(* number of samples.                                                      *)
THEOREM SlamMeasuresRight == SlamSpec => SlamMeasurements
<1> DEFINE Used == \A f \in {"Gyro", "WaistVelocity"} :
                     measurement' # measurement /\ measurement'[f] = "unset" /\ flag[f] =>
                       f \in raised \/ ~m_cxt
<1>1. SlamInit => SensorsInv
  BY DEF SlamInit, SensorsInv, NearestSampleUsed, NoReading, Flags
<1>2. SensorsInv /\ [SlamNext]_slamVars => SensorsInv'
  BY SensorsStep
<1>3. SensorsInv /\ [SlamNext]_slamVars => Used
  <2> SUFFICES ASSUME SensorsInv, [SlamNext]_slamVars, NEW f \in {"Gyro", "WaistVelocity"},
                      measurement' # measurement, measurement'[f] = "unset", flag[f]
               PROVE  f \in raised \/ ~m_cxt
    OBVIOUS
  <2>1. pRealizeTheProcess
    BY DEF SlamNext, ConnectToGGAA, SetFlag, slamVars
  <2>2. ~connected
    <3>1. ReadSample \/ ReadFails => measurement' \in {All("zero"), All("sample")}
      BY DEF ReadSample, ReadFails
    <3>2. All("zero")[f] = "zero" /\ All("sample")[f] = "sample"
      BY DEF All, Flags
    <3> QED
      BY <2>1, <3>1, <3>2 DEF pRealizeTheProcess
  <2> QED
    BY <2>2 DEF SensorsInv
<1>4. SensorsInv => NearestSampleUsed
  BY DEF SensorsInv
<1>5. [][Used]_slamVars => UnsetIsNotUsed
  BY PTL DEF UnsetIsNotUsed
<1> QED
  BY <1>1, <1>2, <1>3, <1>4, <1>5, PTL DEF SlamSpec, SlamMeasurements

-----------------------------------------------------------------------------
(* The images read from files (FileSpec).                                  *)

FileData == [size : Nat \X Nat, depth : {1, 3}, allocated : Nat,
             shows : [file : Int, image : Nat]]

OfDepth(depth) ==
  \A file \in ToSet(directory) : \A image \in ToSet(file) : image.depth = depth

(* Each buffer has the bytes of its image; with files of one depth it      *)
(* shows the image of its camera.                                          *)
BuffersHold(data) ==
  /\ data \in Seq(FileData)
  /\ \A k \in DOMAIN data : data[k].allocated = BytesOf(data[k])
  /\ \A depth \in {1, 3} : OfDepth(depth) =>
       \A k \in DOMAIN data : data[k].depth = depth /\ data[k].shows.image = k

(* The first images of a file were read.                                   *)
Shown(data, file, number, last) ==
  OneDepth => \A k \in 1 .. last : k <= Len(file) =>
    /\ k \in DOMAIN data
    /\ data[k].shows = [file |-> number, image |-> k] /\ data[k].size = file[k].size

(* The reader of a file after as many images.                              *)
ReadingHolds(read, file, number, last) ==
  /\ BuffersHold(read.data)
  /\ read.at \in 0 .. Len(file)
  /\ read.at # 0 => last <= Len(read.data)
  /\ OneDepth => read.at = IF last < Len(file) THEN last + 1 ELSE 0
  /\ Shown(read.data, file, number, last)

FileInv ==
  /\ directory \in Directories /\ m_NbOfImages \in 0 .. Len(directory)
  /\ BuffersHold(m_ReadImageData)
  /\ m_NbOfImages > 0 =>
       Shown(m_ReadImageData, directory[m_NbOfImages], m_NbOfImages - 1, 4)
  /\ given.camera >= 0 /\ OneDepth => given.shows.image = given.camera + 1

LEMMA BytesAreNumbers ==
  ASSUME NEW size \in Nat \X Nat, NEW depth \in {1, 3}
  PROVE  Area(size) \in Nat /\ Area(size) * depth \in Nat
<1>1. PICK a \in Nat, b \in Nat : size = <<a, b>>
  OBVIOUS
<1>2. a * b \in Nat
  OBVIOUS
<1>3. Area(size) = a * b
  BY <1>1 DEF Area
<1> QED
  BY <1>2, <1>3

(* A file without an image over another: the one found is the next, if the *)
(* bytes read were those of its image.                                     *)
LEMMA NextImage ==
  ASSUME NEW file \in Seq(ImagesOfFiles), NEW n \in DOMAIN file, NEW bytes \in Nat,
         \A l, m \in DOMAIN file : l < m => file[l].at + 1 + BytesOf(file[l]) <= file[m].at
  PROVE  /\ Next_P(file, n, bytes) \in 0 .. Len(file)
         /\ bytes = BytesOf(file[n]) =>
              Next_P(file, n, bytes) = IF n < Len(file) THEN n + 1 ELSE 0
<1> DEFINE starts == {m \in n + 1 .. Len(file) : file[m].at >= file[n].at + 1 + bytes}
           first == CHOOSE m \in starts : \A l \in starts : m <= l
<1>1. n \in 1 .. Len(file) /\ Len(file) \in Nat /\ DOMAIN file = 1 .. Len(file)
  OBVIOUS
<1>2. Next_P(file, n, bytes) = IF starts = {} THEN 0 ELSE first
  BY DEF Next_P
<1>3. starts \subseteq n + 1 .. Len(file) /\ starts \subseteq Nat
  BY <1>1
<1>4. bytes = BytesOf(file[n]) /\ n < Len(file) => n + 1 \in starts
  BY <1>1
<1> HIDE DEF starts
<1>5. starts # {} => first \in starts /\ \A l \in starts : first <= l
  BY <1>3, LeastNumber
<1> HIDE DEF first
<1>6. starts # {} => first \in n + 1 .. Len(file)
  BY <1>3, <1>5
<1>7. Next_P(file, n, bytes) \in 0 .. Len(file)
  <2>1. n + 1 .. Len(file) \subseteq 0 .. Len(file) /\ 0 \in 0 .. Len(file)
    BY <1>1
  <2> QED
    BY <1>2, <1>6, <2>1
<1>8. bytes = BytesOf(file[n]) /\ n < Len(file) => Next_P(file, n, bytes) = n + 1
  <2> SUFFICES ASSUME bytes = BytesOf(file[n]), n < Len(file) PROVE Next_P(file, n, bytes) = n + 1
    OBVIOUS
  <2>1. n + 1 \in starts /\ starts # {}
    BY <1>4
  <2>2. first \in n + 1 .. Len(file) /\ first <= n + 1
    BY <1>5, <1>6, <2>1
  <2>3. first = n + 1
    BY <1>1, <2>2
  <2> QED
    BY <1>2, <2>1, <2>3
<1>9. ~(n < Len(file)) => starts = {}
  BY <1>1, <1>3
<1> QED
  BY <1>2, <1>7, <1>8, <1>9

(* ReadEPBMHeader: the camera's buffer is as large as its image, and the   *)
(* others are as before.                                                   *)
HeaderHolds(read, data, k, size) ==
  /\ read \in Seq(FileData) /\ k \in DOMAIN read /\ read[k] \in FileData
  /\ DOMAIN read = DOMAIN data \union {k}
  /\ \A j \in DOMAIN read : j # k => j \in DOMAIN data /\ read[j] = data[j]
  /\ read[k].size = size /\ read[k].allocated = BytesOf(read[k])
  /\ \A D \in {1, 3} : OfDepth(D) => read[k].depth = D

LEMMA HeaderRead ==
  ASSUME NEW data, BuffersHold(data), NEW k \in 1 .. Len(data) + 1,
         NEW size \in Nat \X Nat, NEW depth \in {1, 3}, \A D \in {1, 3} : OfDepth(D) => depth = D
  PROVE  HeaderHolds(Header(data, k, size, depth), data, k, size)
<1> DEFINE fresh == [size |-> size, depth |-> depth, allocated |-> Area(size) * depth, shows |-> Nothing]
           read == Header(data, k, size, depth)
<1>1. fresh \in FileData
  BY BytesAreNumbers DEF FileData, Nothing
<1>2. fresh.size = size /\ fresh.allocated = BytesOf(fresh) /\ fresh.depth = depth
  BY DEF BytesOf
<1>3. data \in Seq(FileData) /\ Len(data) \in Nat /\ DOMAIN data = 1 .. Len(data)
  BY DEF BuffersHold
<1>4. read = IF k > Len(data) THEN Append(data, fresh)
             ELSE IF data[k].size = size THEN data ELSE [data EXCEPT ![k] = fresh]
  BY DEF Header, SameSize
<1> HIDE DEF fresh, read
<1>5. CASE k > Len(data)
  <2>1. k = Len(data) + 1 /\ read = Append(data, fresh)
    BY <1>3, <1>4, <1>5
  <2>2. /\ read \in Seq(FileData) /\ Len(read) = Len(data) + 1
        /\ \A j \in 1 .. Len(data) : read[j] = data[j]
        /\ read[Len(data) + 1] = fresh
    <3>1. data \in Seq(FileData)
      BY <1>3
    <3> QED
      BY <1>1, <2>1, <3>1, AppendProperties
  <2>3. read[k] = fresh /\ DOMAIN read = DOMAIN data \union {k}
    BY <1>3, <2>1, <2>2
  <2>4. \A j \in DOMAIN read : j # k => j \in DOMAIN data /\ read[j] = data[j]
    BY <1>3, <2>2, <2>3
  <2> QED
    BY <1>1, <1>2, <2>2, <2>3, <2>4 DEF read, HeaderHolds
<1>6. CASE k \in DOMAIN data /\ data[k].size = size
  <2>1. ~(k > Len(data))
    BY <1>3, <1>6
  <2>2. read = data
    BY <1>4, <1>6, <2>1
  <2> QED
    BY <1>3, <1>6, <2>2 DEF read, BuffersHold, HeaderHolds
<1>7. CASE k \in DOMAIN data /\ data[k].size # size
  <2>1. ~(k > Len(data))
    BY <1>3, <1>7
  <2>2. read = [data EXCEPT ![k] = fresh]
    BY <1>4, <1>7, <2>1
  <2>3. /\ read \in [1 .. Len(data) -> FileData] /\ read[k] = fresh
        /\ \A j \in DOMAIN data : j # k => read[j] = data[j]
    BY <1>1, <1>3, <1>7, <2>2
  <2>4. read \in Seq(FileData) /\ DOMAIN read = DOMAIN data
    BY <1>3, <2>3
  <2> QED
    BY <1>1, <1>2, <1>7, <2>3, <2>4 DEF read, HeaderHolds
<1> QED
  BY <1>3, <1>5, <1>6, <1>7

(* One image of a file is read, the next one of a camera.                  *)
LEMMA ImageRead ==
  ASSUME NEW number \in Nat, NEW file \in Seq(ImagesOfFiles), file # <<>>,
         file = directory[number + 1], file \in ToSet(directory),
         \A l, m \in DOMAIN file : l < m => file[l].at + 1 + BytesOf(file[l]) <= file[m].at,
         NEW k \in 1 .. 4, NEW read, ReadingHolds(read, file, number, k - 1)
  PROVE  ReadingHolds(ReadImage(read, k, number), file, number, k)
<1>1. CASE read.at = 0
  <2>1. ReadImage(read, k, number) = read
    BY <1>1 DEF ReadImage
  <2>2. OneDepth => Len(file) <= k - 1
    BY <1>1 DEF ReadingHolds
  <2>3. Len(file) \in Nat
    OBVIOUS
  <2>4. OneDepth => 0 = IF k < Len(file) THEN k + 1 ELSE 0
    BY <2>2, <2>3
  <2>5. Shown(read.data, file, number, k)
    BY <2>2, <2>3 DEF ReadingHolds, Shown
  <2> QED
    BY <1>1, <2>1, <2>4, <2>5 DEF ReadingHolds
<1>2. CASE read.at # 0
  <2> DEFINE at == read.at
             size == file[at].size
             header == Header(read.data, k, size, file[1].depth)
             bytes == BytesOf(header[k])
             shown == IF bytes = BytesOf(file[at]) THEN [file |-> number, image |-> at] ELSE Nothing
             data == [header EXCEPT ![k].shows = shown]
             result == ReadImage(read, k, number)
  <2>1. /\ result.data = data /\ result.at = Next_P(file, at, bytes)
    <3>1. result = BodyImage(read, k, number, header)
      BY <1>2 DEF ReadImage
    <3> HIDE DEF header
    <3>2. BodyImage(read, k, number, header).data = data
      BY DEF BodyImage
    <3>3. BodyImage(read, k, number, header).at = Next_P(file, at, bytes)
      BY DEF BodyImage
    <3> QED
      BY <3>1, <3>2, <3>3
  <2>2. /\ at \in DOMAIN file /\ 1 \in DOMAIN file /\ BuffersHold(read.data)
        /\ k \in 1 .. Len(read.data) + 1
    BY <1>2 DEF ReadingHolds, BuffersHold
  <2>3. file[at] \in ImagesOfFiles /\ file[1] \in ImagesOfFiles
    BY <2>2
  <2>4. size \in Nat \X Nat /\ file[1].depth \in {1, 3} /\ at \in Nat
    <3>1. \A image \in ImagesOfFiles : image.size \in Nat \X Nat /\ image.depth \in {1, 3}
      BY DEF ImagesOfFiles
    <3>2. at \in 1 .. Len(file)
      BY <2>2
    <3> QED
      BY <2>3, <3>1, <3>2
  <2>5. \A D \in {1, 3} : OfDepth(D) => file[1].depth = D /\ file[at].depth = D
    BY <2>2 DEF OfDepth, ToSet
  <2>6. /\ header \in Seq(FileData) /\ k \in DOMAIN header /\ header[k] \in FileData
        /\ DOMAIN header = DOMAIN read.data \union {k}
        /\ \A j \in DOMAIN header : j # k => j \in DOMAIN read.data /\ header[j] = read.data[j]
        /\ header[k].size = size /\ header[k].allocated = BytesOf(header[k])
        /\ \A D \in {1, 3} : OfDepth(D) => header[k].depth = D
    <3> HIDE DEF at, size
    <3>1. \A D \in {1, 3} : OfDepth(D) => file[1].depth = D
      BY <2>5
    <3> HIDE DEF header
    <3>2. HeaderHolds(Header(read.data, k, size, file[1].depth), read.data, k, size)
      BY <2>2, <2>4, <3>1, HeaderRead
    <3> QED
      BY <3>2 DEF header, HeaderHolds
  <2> HIDE DEF header
  <2>7. OneDepth => at = k /\ k <= Len(file)
    BY <1>2 DEF ReadingHolds
  <2>8. OneDepth => bytes = BytesOf(file[at])
    BY <2>5, <2>6 DEF OneDepth, OfDepth, BytesOf
  <2>9. bytes \in Nat
    <3>1. header[k] \in FileData
      BY <2>6
    <3>2. header[k].size \in Nat \X Nat /\ header[k].depth \in {1, 3}
      BY <3>1 DEF FileData
    <3> QED
      BY <3>2, BytesAreNumbers DEF BytesOf
  <2>10. /\ result.at \in 0 .. Len(file)
         /\ OneDepth => result.at = IF k < Len(file) THEN k + 1 ELSE 0
    <3> HIDE DEF bytes
    <3>1. /\ Next_P(file, at, bytes) \in 0 .. Len(file)
          /\ bytes = BytesOf(file[at]) => Next_P(file, at, bytes) = IF at < Len(file) THEN at + 1 ELSE 0
      BY <2>2, <2>9, NextImage
    <3> QED
      BY <2>1, <2>7, <2>8, <3>1
  <2>11. shown \in [file : Int, image : Nat] /\ (OneDepth => shown = [file |-> number, image |-> k])
    BY <2>4, <2>7, <2>8 DEF Nothing
  <2> HIDE DEF shown, bytes, at, size
  <2>12. PICK s \in Nat \X Nat, d \in {1, 3}, a \in Nat, v \in [file : Int, image : Nat] :
           header[k] = [size |-> s, depth |-> d, allocated |-> a, shows |-> v]
    <3>1. header[k] \in FileData
      BY <2>6
    <3> QED
      BY <3>1 DEF FileData
  <2> DEFINE new == [size |-> s, depth |-> d, allocated |-> a, shows |-> shown]
  <2>13. data = [header EXCEPT ![k] = new]
    <3>1. data = [header EXCEPT ![k] = [header[k] EXCEPT !.shows = shown]]
      BY <2>6
    <3>2. [header[k] EXCEPT !.shows = shown] = new
      BY <2>12
    <3> QED
      BY <3>1, <3>2
  <2>14. new \in FileData
    BY <2>11 DEF FileData
  <2>15. /\ new.size = header[k].size /\ new.depth = header[k].depth
         /\ new.allocated = header[k].allocated /\ new.shows = shown
         /\ BytesOf(new) = BytesOf(header[k])
    BY <2>12 DEF BytesOf
  <2> HIDE DEF new, data
  <2>16. /\ data \in Seq(FileData) /\ DOMAIN data = DOMAIN header /\ Len(data) = Len(header)
         /\ data[k] = new /\ \A j \in DOMAIN data : j # k => data[j] = header[j]
    <3>1. DOMAIN header = 1 .. Len(header) /\ Len(header) \in Nat
      <4>1. header \in Seq(FileData)
        BY <2>6
      <4> QED
        BY <4>1, LenProperties
    <3>2. data \in [1 .. Len(header) -> FileData]
      BY <2>6, <2>13, <2>14, <3>1
    <3>3. data \in Seq(FileData) /\ Len(data) = Len(header)
      BY <3>1, <3>2
    <3> QED
      BY <2>6, <2>13, <3>1, <3>2, <3>3
  <2>17. BuffersHold(data)
    <3>1. \A j \in DOMAIN data : data[j].allocated = BytesOf(data[j])
      <4> TAKE j \in DOMAIN data
      <4>1. CASE j = k
        BY <2>6, <2>15, <2>16, <4>1
      <4>2. CASE j # k
        BY <2>2, <2>6, <2>16, <4>2, SMTT(30) DEF BuffersHold
      <4> QED
        BY <4>1, <4>2
    <3>2. ASSUME NEW D \in {1, 3}, OfDepth(D), NEW j \in DOMAIN data
          PROVE  data[j].depth = D /\ data[j].shows.image = j
      <4>1. CASE j = k
        <5>1. OneDepth
          BY <3>2 DEF OneDepth, OfDepth
        <5> QED
          BY <2>6, <2>11, <2>15, <2>16, <3>2, <4>1, <5>1
      <4>2. CASE j # k
        <5>1. j \in DOMAIN read.data /\ data[j] = read.data[j]
          BY <2>6, <2>16, <4>2
        <5>2. OfDepth(D) => read.data[j].depth = D /\ read.data[j].shows.image = j
          BY <2>2, <5>1 DEF BuffersHold
        <5> QED
          BY <3>2, <5>1, <5>2
      <4> QED
        BY <4>1, <4>2
    <3> QED
      BY <2>16, <3>1, <3>2 DEF BuffersHold
  <2>18. Shown(data, file, number, k)
    <3> SUFFICES ASSUME OneDepth, NEW j \in 1 .. k, j <= Len(file)
                 PROVE  /\ j \in DOMAIN data
                        /\ data[j].shows = [file |-> number, image |-> j]
                        /\ data[j].size = file[j].size
      BY DEF Shown
    <3>1. CASE j = k
      BY <2>6, <2>7, <2>11, <2>15, <2>16, <3>1 DEF size
    <3>2. CASE j # k
      <4>1. j \in 1 .. k - 1
        BY <3>2
      <4>2. /\ j \in DOMAIN read.data
            /\ read.data[j].shows = [file |-> number, image |-> j]
            /\ read.data[j].size = file[j].size
        BY <4>1 DEF ReadingHolds, Shown
      <4> QED
        BY <2>6, <2>16, <3>2, <4>2
    <3> QED
      BY <3>1, <3>2
  <2>19. k <= Len(data)
    BY <2>6, <2>16
  <2> HIDE DEF result
  <2> QED
    BY <2>1, <2>10, <2>17, <2>18, <2>19 DEF ReadingHolds, result
<1> QED
  BY <1>1, <1>2

(* A whole file, of up to four images.                                     *)
LEMMA FileRead ==
  ASSUME FileInv, NEW number \in 0 .. Len(directory) - 1, directory[number + 1] # <<>>,
         ReadEPBMFileImage(number)
  PROVE  BuffersHold(m_ReadImageData') /\ Shown(m_ReadImageData', directory[number + 1], number, 4)
<1> DEFINE file == directory[number + 1]
           before == [data |-> m_ReadImageData, at |-> 1,
                      depths |-> IF m_depthOfFile = <<>> THEN <<0, 0, 0, 0>> ELSE m_depthOfFile]
           left == ReadImage(before, 1, number)
           right == ReadImage(left, 2, number)
           up == ReadImage(right, 3, number)
           wide == ReadImage(up, 4, number)
<1>1. m_ReadImageData' = wide.data
  BY DEF ReadEPBMFileImage
<1>2. directory \in Seq(Seq(ImagesOfFiles)) /\ number + 1 \in DOMAIN directory /\ number \in Nat
  BY FileAssumption DEF FileInv
<1>3. /\ file \in Seq(ImagesOfFiles) /\ file \in ToSet(directory) /\ file = directory[number + 1]
      /\ file # <<>> /\ Len(file) \in Nat /\ Len(file) > 0
  BY <1>2 DEF ToSet
<1>4. \A l, m \in DOMAIN file : l < m => file[l].at + 1 + BytesOf(file[l]) <= file[m].at
  <2>1. directory \in Directories
    BY DEF FileInv
  <2> QED
    BY <1>3, <2>1, FileAssumption
<1> HIDE DEF file
<1>5. ReadingHolds(before, file, number, 0)
  <2>1. before.data = m_ReadImageData /\ before.at = 1
    OBVIOUS
  <2>2. BuffersHold(m_ReadImageData) /\ Len(m_ReadImageData) \in Nat
    BY DEF FileInv, BuffersHold
  <2> HIDE DEF before
  <2> QED
    BY <1>3, <2>1, <2>2 DEF ReadingHolds, Shown
<1> HIDE DEF before
<1>6. \A read : \A k \in 1 .. 4 : ReadingHolds(read, file, number, k - 1) =>
        ReadingHolds(ReadImage(read, k, number), file, number, k)
  BY <1>2, <1>3, <1>4, ImageRead
<1>7. 1 - 1 = 0 /\ 2 - 1 = 1 /\ 3 - 1 = 2 /\ 4 - 1 = 3
  OBVIOUS
<1>8. ReadingHolds(left, file, number, 1)
  BY <1>5, <1>6, <1>7
<1> HIDE DEF left
<1>9. ReadingHolds(right, file, number, 2)
  BY <1>6, <1>7, <1>8
<1> HIDE DEF right
<1>10. ReadingHolds(up, file, number, 3)
  BY <1>6, <1>7, <1>9
<1> HIDE DEF up
<1>11. ReadingHolds(wide, file, number, 4)
  BY <1>6, <1>7, <1>10
<1> HIDE DEF wide
<1> QED
  BY <1>1, <1>11 DEF ReadingHolds, file

LEMMA ImageGiven ==
  ASSUME FileInv, BuffersHold(m_ReadImageData)', directory' = directory,
         NEW camera \in FileCameras, Give(camera)
  PROVE  (given.camera >= 0 /\ OneDepth => given.shows.image = given.camera + 1)'
<1>1. OneDepth' = OneDepth
  BY DEF OneDepth
<1>2. CASE given' = given
  BY <1>1, <1>2 DEF FileInv
<1>3. CASE given' # given
  <2>1. /\ camera < Len(m_ReadImageData') /\ given'.camera = camera
        /\ given'.shows = m_ReadImageData'[camera + 1].shows
    <3>1. ~(camera >= Len(m_ReadImageData'))
      BY <1>3 DEF Give
    <3>2. given' = [camera |-> camera, shows |-> m_ReadImageData'[camera + 1].shows,
                    size |-> m_ReadImageData'[camera + 1].size]
      BY <1>3, <3>1 DEF Give
    <3>3. camera \in Nat /\ Len(m_ReadImageData') \in Nat
      BY DEF FileCameras, BuffersHold
    <3> QED
      BY <3>1, <3>2, <3>3
  <2>2. camera + 1 \in DOMAIN m_ReadImageData'
    BY <2>1 DEF FileCameras, BuffersHold
  <2>3. OneDepth' => m_ReadImageData'[camera + 1].shows.image = camera + 1
    BY <2>2 DEF BuffersHold, OneDepth, OfDepth
  <2> QED
    BY <2>1, <2>3
<1> QED
  BY <1>2, <1>3

LEMMA FilesStep ==
  ASSUME FileInv, [FileNext]_fileVars PROVE FileInv'
<1>1. ASSUME UNCHANGED <<directory, m_NbOfImages, m_ReadImageData>>
      PROVE  /\ directory' \in Directories /\ m_NbOfImages' \in 0 .. Len(directory')
             /\ BuffersHold(m_ReadImageData)'
             /\ (m_NbOfImages > 0 =>
                   Shown(m_ReadImageData, directory[m_NbOfImages], m_NbOfImages - 1, 4))'
             /\ OneDepth' = OneDepth
  BY <1>1 DEF FileInv, BuffersHold, Shown, OneDepth, OfDepth
<1>2. CASE GetFirstImage /\ NextFiles = {}
  <2>1. UNCHANGED <<directory, m_NbOfImages, m_ReadImageData, given>>
    BY <1>2 DEF GetFirstImage
  <2> QED
    BY <1>1, <2>1 DEF FileInv
<1>3. CASE GetFirstImage /\ NextFiles # {}
  <2> DEFINE number == CHOOSE n \in NextFiles : \A m \in NextFiles : n <= m
  <2>1. number \in NextFiles
    <3>1. NextFiles \subseteq Nat
      BY DEF NextFiles, FileInv
    <3> QED
      BY <1>3, <3>1, LeastNumber
  <2>2. /\ ReadEPBMFileImage(number) /\ m_NbOfImages' = number + 1 /\ Give(0)
        /\ directory' = directory
    BY <1>3 DEF GetFirstImage
  <2> HIDE DEF number
  <2>3. /\ number \in 0 .. Len(directory) - 1 /\ directory[number + 1] # <<>>
        /\ number \in Nat /\ Len(directory) \in Nat
    BY <2>1, FileAssumption DEF NextFiles, FileInv
  <2>4. /\ BuffersHold(m_ReadImageData')
        /\ Shown(m_ReadImageData', directory[number + 1], number, 4)
    BY <2>2, <2>3, FileRead
  <2>5. BuffersHold(m_ReadImageData)'
    BY <2>2, <2>4 DEF BuffersHold, OfDepth
  <2>6. (m_NbOfImages > 0 =>
           Shown(m_ReadImageData, directory[m_NbOfImages], m_NbOfImages - 1, 4))'
    <3>1. (number + 1) - 1 = number
      BY <2>3
    <3> QED
      BY <2>2, <2>4, <3>1 DEF Shown, OneDepth
  <2>7. 0 \in FileCameras
    BY DEF FileCameras
  <2>8. (given.camera >= 0 /\ OneDepth => given.shows.image = given.camera + 1)'
    BY <2>2, <2>5, <2>7, ImageGiven
  <2>9. directory' \in Directories /\ m_NbOfImages' \in 0 .. Len(directory')
    BY <2>2, <2>3 DEF FileInv
  <2> QED
    BY <2>5, <2>6, <2>8, <2>9 DEF FileInv
<1>4. ASSUME NEW camera \in FileCameras, GetOtherImage(camera) PROVE FileInv'
  <2>1. UNCHANGED <<directory, m_NbOfImages, m_ReadImageData>> /\ Give(camera)
    BY <1>4 DEF GetOtherImage
  <2>2. (given.camera >= 0 /\ OneDepth => given.shows.image = given.camera + 1)'
    BY <1>1, <2>1, ImageGiven
  <2> QED
    BY <1>1, <2>1, <2>2 DEF FileInv
<1>5. ASSUME NEW camera \in FileCameras, NEW size \in WantedSizes, SetWantedSize(camera, size)
      PROVE  FileInv'
  <2>1. UNCHANGED <<directory, m_NbOfImages, m_ReadImageData, given>>
    BY <1>5 DEF SetWantedSize
  <2> QED
    BY <1>1, <2>1 DEF FileInv
<1>6. CASE UNCHANGED fileVars
  BY <1>1, <1>6 DEF fileVars, FileInv
<1> QED
  BY <1>2, <1>3, <1>4, <1>5, <1>6 DEF FileNext

LEMMA FilesStart == FileInit => FileInv
<1> SUFFICES ASSUME FileInit PROVE FileInv
  OBVIOUS
<1>1. directory \in Directories /\ Len(directory) \in Nat
  BY FileAssumption DEF FileInit
<1>2. BuffersHold(m_ReadImageData)
  BY DEF FileInit, BuffersHold
<1> QED
  BY <1>1, <1>2 DEF FileInit, FileInv

(* No file makes the reader write past a buffer, and with files of one     *)
(* depth every camera has the image of the file read last that is its own, *)
(* in its size: for any directories of files whose images do not overlap.  *)
THEOREM FilesRight == FileSpec => []ImagesOfTheFile
<1>1. FileInv => ImagesOfTheFile
  <2> SUFFICES ASSUME FileInv PROVE ImagesOfTheFile
    OBVIOUS
  <2>1. \A k \in DOMAIN m_ReadImageData : BytesOf(m_ReadImageData[k]) <= m_ReadImageData[k].allocated
    <3> TAKE k \in DOMAIN m_ReadImageData
    <3>1. m_ReadImageData[k] \in FileData /\ m_ReadImageData[k].allocated = BytesOf(m_ReadImageData[k])
      BY DEF FileInv, BuffersHold
    <3>2. m_ReadImageData[k].allocated \in Nat
      BY <3>1 DEF FileData
    <3> QED
      BY <3>1, <3>2
  <2>2. OneDepth /\ m_NbOfImages > 0 =>
          \A k \in 1 .. 4 : k <= Len(directory[m_NbOfImages]) =>
            /\ m_ReadImageData[k].shows = [file |-> m_NbOfImages - 1, image |-> k]
            /\ m_ReadImageData[k].size = directory[m_NbOfImages][k].size
    BY DEF FileInv, Shown
  <2> QED
    BY <2>1, <2>2 DEF FileInv, ImagesOfTheFile
<1> QED
  BY <1>1, FilesStart, FilesStep, PTL DEF FileSpec

-----------------------------------------------------------------------------
(* Images converted between two libraries (ConversionSpec).                *)

(* The sizes of the images that were set fit the conversion.               *)
SizesFit ==
  \/ m_ImgParam = NoImage
  \/ /\ h \in Nat \ {0} /\ w \in Nat \ {0} /\ channels \in {1, 3}
     /\ step \in Nat /\ step >= channels * w

ConversionInv ==
  /\ m_conversion \in Conversions /\ m_flip \in BOOLEAN
  /\ SizesFit

Pixels == (0 .. h - 1) \X (0 .. w - 1)

(* An address in a padded row gives its row and its column.                *)
LEMMA MatrixAddress ==
  ASSUME SizesFit, m_ImgParam # NoImage, NEW i \in 0 .. h - 1, NEW j \in 0 .. w - 1
  PROVE  /\ MatPixel(i * step + j * channels) = <<i, j>>
         /\ VispPixel(i * w + j) = <<i, j>>
<1> DEFINE H == h
           W == w
           C == channels
           S == step
<1>1. /\ H \in Nat \ {0} /\ W \in Nat \ {0} /\ C \in {1, 3}
      /\ i \in Nat /\ j \in 0 .. W - 1 /\ j \in Nat
  BY DEF SizesFit
<1>2. S \in Nat /\ S >= C * W
  BY DEF SizesFit
<1>3. /\ MatPixel(i * step + j * channels) = <<(i * S + j * C) \div S, ((i * S + j * C) % S) \div C>>
      /\ VispPixel(i * w + j) = <<(i * W + j) \div W, (i * W + j) % W>>
  BY DEF MatPixel, VispPixel
<1> HIDE DEF H, W, C, S
<1>4. S \in Nat \ {0} /\ j * C \in 0 .. S - 1
  <2>1. CASE C = 1
    BY <1>1, <1>2, <2>1
  <2>2. CASE C = 3
    BY <1>1, <1>2, <2>2
  <2> QED
    BY <1>1, <2>1, <2>2
<1>5. (i * S + j * C) \div S = i /\ (i * S + j * C) % S = j * C
  <2> DEFINE x == j * C
  <2>1. x \in 0 .. S - 1
    BY <1>4
  <2> HIDE DEF x
  <2>2. (i * S + x) \div S = i /\ (i * S + x) % S = x
    BY <1>1, <1>4, <2>1, RowAndColumn
  <2> QED
    BY <2>2 DEF x
<1>6. (j * C) \div C = j
  <2>1. (j * C + 0) \div C = j
    BY <1>1, RowAndColumn
  <2>2. j * C + 0 = j * C
    BY <1>1
  <2> QED
    BY <2>1, <2>2
<1>7. (i * W + j) \div W = i /\ (i * W + j) % W = j
  BY <1>1, RowAndColumn
<1> QED
  BY <1>3, <1>5, <1>6, <1>7

(* The rows of a conversion make the whole image if each pixel is read     *)
(* from its own address and goes to its place.                             *)
LEMMA RowsOfTheImage ==
  ASSUME SizesFit, m_ImgParam # NoImage
  PROVE  /\ m_conversion = "MAT_VISPU8" /\ ~(m_flip /\ (IF channels = 1 THEN h > 1 ELSE step > 3 * w)) =>
              ConvertMatToViSPU8Image = WholeImage
         /\ m_conversion = "MAT_VISPRGB" => ConvertMatToViSPRGBaImage = WholeImage
         /\ m_conversion \in {"VISPU8_MAT", "VISPRGB_MAT"} => ConvertViSPToMatImage = WholeImage
<1>1. /\ h \in Nat \ {0} /\ w \in Nat \ {0} /\ channels \in {1, 3}
      /\ step \in Nat /\ step >= channels * w
  BY DEF SizesFit
<1>2. \A ij \in Pixels :
        /\ ij = <<ij[1], ij[2]>> /\ ij[1] \in 0 .. h - 1 /\ ij[2] \in 0 .. w - 1
        /\ MatPixel(MatRow(ij[1]) + ij[2] * channels) = ij
        /\ VispPixel(VispRow(ij[1]) + ij[2] * 1) = ij
  <2> TAKE ij \in Pixels
  <2>1. PICK i \in 0 .. h - 1, j \in 0 .. w - 1 : ij = <<i, j>>
    BY DEF Pixels
  <2>2. MatPixel(i * step + j * channels) = <<i, j>> /\ VispPixel(i * w + j) = <<i, j>>
    BY MatrixAddress
  <2>3. j * 1 = j
    BY <1>1
  <2> QED
    BY <2>1, <2>2, <2>3 DEF MatRow, VispRow
<1>3. WholeImage = {<<Place(ij[1], ij[2]), ij>> : ij \in Pixels}
  BY DEF WholeImage, Pixels
<1>4. ASSUME m_conversion = "MAT_VISPU8", ~m_flip PROVE ConvertMatToViSPU8Image = WholeImage
  <2>1. ConvertMatToViSPU8Image =
          {<<VispRow(ij[1]) + ij[2] * 1, MatPixel(MatRow(ij[1]) + ij[2] * channels)>> : ij \in Pixels}
    BY <1>4 DEF ConvertMatToViSPU8Image, Rows, Pixels
  <2>2. \A ij \in Pixels : Place(ij[1], ij[2]) = VispRow(ij[1]) + ij[2] * 1
    BY <1>1, <1>2, <1>4 DEF Place, VispRow
  <2> QED
    BY <1>2, <1>3, <2>1, <2>2
<1>5. ASSUME m_conversion = "MAT_VISPU8", m_flip, ~(IF channels = 1 THEN h > 1 ELSE step > 3 * w)
      PROVE  ConvertMatToViSPU8Image = WholeImage
  <2>1. CASE channels = 1
    <3>1. h = 1
      BY <1>1, <1>5, <2>1
    <3>2. ConvertMatToViSPU8Image =
            {<<4 * w * (h - 1 - ij[1]) + ij[2] * 1, MatPixel(MatRow(ij[1]) + ij[2] * 1)>> : ij \in Pixels}
      BY <1>5, <2>1 DEF ConvertMatToViSPU8Image, Rows, Pixels
    <3>3. \A ij \in Pixels : /\ Place(ij[1], ij[2]) = 4 * w * (h - 1 - ij[1]) + ij[2] * 1
                             /\ MatPixel(MatRow(ij[1]) + ij[2] * 1) = ij
      <4> TAKE ij \in Pixels
      <4>1. ij[1] = 0 /\ ij[2] \in Nat
        BY <1>1, <1>2, <3>1
      <4>2. (h - 1 - ij[1]) * w = 0 /\ 4 * w * (h - 1 - ij[1]) = 0
        BY <1>1, <3>1, <4>1
      <4>3. Place(ij[1], ij[2]) = (h - 1 - ij[1]) * w + ij[2]
        BY <1>5 DEF Place
      <4>4. MatPixel(MatRow(ij[1]) + ij[2] * channels) = ij
        BY <1>2
      <4> QED
        BY <2>1, <4>1, <4>2, <4>3, <4>4
    <3> QED
      BY <1>3, <3>2, <3>3
  <2>2. CASE channels # 1
    <3>1. channels = 3 /\ step = 3 * w
      <4>2. channels = 3
        BY <1>1, <2>2
      <4> QED
        BY <1>1, <1>5, <4>2
    <3>2. ConvertMatToViSPU8Image =
            {<<FlippedRow(ij[1]) + ij[2] * 1, MatPixel(ij[1] * w * channels + ij[2] * channels)>> :
               ij \in Pixels}
      BY <1>5, <2>2 DEF ConvertMatToViSPU8Image, Rows, Pixels
    <3>3. \A ij \in Pixels : /\ Place(ij[1], ij[2]) = FlippedRow(ij[1]) + ij[2] * 1
                             /\ MatPixel(ij[1] * w * channels + ij[2] * channels) = ij
      <4> TAKE ij \in Pixels
      <4>1. ij[1] \in Nat /\ ij[2] \in Nat
        BY <1>1, <1>2
      <4>2. Place(ij[1], ij[2]) = FlippedRow(ij[1]) + ij[2] * 1
        BY <1>5, <4>1 DEF Place, FlippedRow
      <4>3. ij[1] * w * channels = MatRow(ij[1])
        BY <1>1, <3>1, <4>1 DEF MatRow
      <4>4. MatPixel(MatRow(ij[1]) + ij[2] * channels) = ij
        BY <1>2
      <4> QED
        BY <4>2, <4>3, <4>4
    <3> QED
      BY <1>3, <3>2, <3>3
  <2> QED
    BY <2>1, <2>2
<1>6. ASSUME m_conversion = "MAT_VISPRGB" PROVE ConvertMatToViSPRGBaImage = WholeImage
  <2>1. CASE m_flip
    <3>1. ConvertMatToViSPRGBaImage =
            {<<FlippedRow(ij[1]) + ij[2] * 1, MatPixel(MatRow(ij[1]) + ij[2] * channels)>> : ij \in Pixels}
      BY <2>1 DEF ConvertMatToViSPRGBaImage, Rows, Pixels
    <3>2. \A ij \in Pixels : Place(ij[1], ij[2]) = FlippedRow(ij[1]) + ij[2] * 1
      BY <1>1, <1>2, <1>6, <2>1 DEF Place, FlippedRow
    <3> QED
      BY <1>2, <1>3, <3>1, <3>2
  <2>2. CASE ~m_flip
    <3>1. ConvertMatToViSPRGBaImage =
            {<<VispRow(ij[1]) + ij[2] * 1, MatPixel(MatRow(ij[1]) + ij[2] * channels)>> : ij \in Pixels}
      BY <2>2 DEF ConvertMatToViSPRGBaImage, Rows, Pixels
    <3>2. \A ij \in Pixels : Place(ij[1], ij[2]) = VispRow(ij[1]) + ij[2] * 1
      BY <1>1, <1>2, <1>6, <2>2 DEF Place, VispRow
    <3> QED
      BY <1>2, <1>3, <3>1, <3>2
  <2> QED
    BY <2>1, <2>2
<1>7. ASSUME m_conversion \in {"VISPU8_MAT", "VISPRGB_MAT"} PROVE ConvertViSPToMatImage = WholeImage
  <2>1. ConvertViSPToMatImage =
          {<<MatRow(ij[1]) + ij[2] * channels, VispPixel(VispRow(ij[1]) + ij[2] * 1)>> : ij \in Pixels}
    BY DEF ConvertViSPToMatImage, Rows, Pixels
  <2>2. \A ij \in Pixels : Place(ij[1], ij[2]) = MatRow(ij[1]) + ij[2] * channels
    BY <1>7 DEF Place, MatRow
  <2> QED
    BY <1>2, <1>3, <2>1, <2>2
<1> QED
  BY <1>4, <1>5, <1>6, <1>7

LEMMA ConversionStep ==
  ASSUME ConversionInv, [ConversionNext]_conversionVars PROVE ConversionInv'
<1>1. CASE ConvertImage
  BY <1>1 DEF ConvertImage, ConversionInv, SizesFit, h, w, step, channels
<1>2. ASSUME NEW flip \in BOOLEAN, SetParameterFlip(flip) PROVE ConversionInv'
  BY <1>2 DEF SetParameterFlip, ConversionInv, SizesFit, h, w, step, channels
<1>3. ASSUME NEW height \in ImageHeights, NEW width \in ImageWidths, NEW nChannel \in {1, 3},
             NEW padding \in Paddings, SetImages(height, width, nChannel, padding)
      PROVE  ConversionInv'
  <2>1. /\ m_conversion' = m_conversion /\ m_flip' = m_flip
        /\ m_ImgParam' = [height |-> height, width |-> width, nChannel |-> nChannel,
                          widthStep |-> nChannel * width + padding]
    BY <1>3 DEF SetImages, Matrix
  <2>2. h' = height /\ w' = width /\ channels' = nChannel /\ step' = nChannel * width + padding
    BY <2>1 DEF h, w, step, channels
  <2>3. height \in Nat \ {0} /\ width \in Nat \ {0} /\ padding \in Nat
    BY ConversionAssumption
  <2>4. nChannel * width + padding \in Nat /\ nChannel * width + padding >= nChannel * width
    BY <2>3
  <2> QED
    BY <2>1, <2>2, <2>3, <2>4 DEF ConversionInv, SizesFit
<1>4. CASE UNCHANGED conversionVars
  BY <1>4 DEF conversionVars, ConversionInv, SizesFit, h, w, step, channels
<1> QED
  BY <1>1, <1>2, <1>3, <1>4 DEF ConversionNext

(* A conversion writes every pixel to its place, flipped if it was asked   *)
(* for, for images of any size and rows of any padding, but for the two    *)
(* cases of the flip to grey.                                              *)
THEOREM ConversionsRight == ConversionSpec => PixelsInPlace
<1> DEFINE Right == \/ written' = written \/ written' = WholeImage
                    \/ m_conversion = "MAT_VISPU8" /\ m_flip /\ (IF channels = 1 THEN h > 1 ELSE step > 3 * w)
<1>1. ConversionInit => ConversionInv
  BY DEF ConversionInit, ConversionInv, SizesFit
<1>2. ConversionInv /\ [ConversionNext]_conversionVars => ConversionInv'
  BY ConversionStep
<1>3. ConversionInv /\ [ConversionNext]_conversionVars => Right
  <2> SUFFICES ASSUME ConversionInv, [ConversionNext]_conversionVars, written' # written PROVE Right
    OBVIOUS
  <2>1. ConvertImage
    BY DEF ConversionNext, SetParameterFlip, SetImages, conversionVars
  <2>2. m_ImgParam # NoImage
    BY <2>1 DEF ConvertImage
  <2>3. /\ m_conversion = "MAT_VISPU8" => written' = ConvertMatToViSPU8Image
        /\ m_conversion = "MAT_VISPRGB" => written' = ConvertMatToViSPRGBaImage
        /\ m_conversion \in {"VISPU8_MAT", "VISPRGB_MAT"} => written' = ConvertViSPToMatImage
    BY <2>1, <2>2 DEF ConvertImage
  <2>4. m_conversion \in {"MAT_VISPU8", "MAT_VISPRGB"} \union {"VISPU8_MAT", "VISPRGB_MAT"}
    BY DEF ConversionInv, Conversions
  <2> QED
    BY <2>2, <2>3, <2>4, RowsOfTheImage DEF ConversionInv
<1>4. [][Right]_conversionVars => PixelsInPlace
  BY PTL DEF PixelsInPlace
<1> QED
  BY <1>1, <1>2, <1>3, <1>4, PTL DEF ConversionSpec
=============================================================================
