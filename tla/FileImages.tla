----------------------------- MODULE FileImages -----------------------------
(***************************************************************************)
(* The images of HRP2FileImagesInputMethod: each GetSingleImage of camera  *)
(* 0 reads the next file of a directory, an image for each camera one      *)
(* after the other, and the other cameras are given what was read then.    *)
(* An image starts at a 'P', and has a header and the bytes of its pixels; *)
(* no pixel is taken to have the value of a 'P'.                           *)
(***************************************************************************)
EXTENDS Integers, Sequences, SequencesExt

CONSTANTS
  Directories,      \* sequences of files, a file the images in it; <<>> is missing
  WantedSizes       \* the sizes, <<width, height>>, a client may set

Area(size) == size[1] * size[2]
BytesOf(image) == Area(image.size) * image.depth

(* An image is at its 'P', which stands for its header; it ends before the *)
(* next one.                                                               *)
ImagesOfFiles == [at : Nat, size : Nat \X Nat, depth : {1, 3}]

ASSUME FileAssumption ==
  /\ WantedSizes \subseteq (Nat \ {0}) \X (Nat \ {0})
  /\ Directories \subseteq Seq(Seq(ImagesOfFiles))
  /\ \A files \in Directories : \A file \in ToSet(files) : \A m, n \in DOMAIN file :
       m < n => file[m].at + 1 + BytesOf(file[m]) <= file[n].at

FileCameras == 0 .. 3

VARIABLES
  directory,
  m_NbOfImages,         \* the number of the next file
  m_ReadImageData,      \* SimpleImage: size, depth and what its bytes are
  m_depthOfFile,              \* of each camera; empty before the first file
  wantedSize,           \* m_ImagesWidth and m_ImagesHeight, of each camera
  given,                \* what the last GetSingleImage gave
  reader                \* "ready", "searching" for a file without end, "dead"

fileVars == <<directory, m_NbOfImages, m_ReadImageData, m_depthOfFile, wantedSize, given, reader>>

Nothing == [file |-> -1, image |-> 0]

-----------------------------------------------------------------------------
(* One file.                                                               *)

(* ReadEPBMHeader, of the k-th camera: an image of another size than that  *)
(* before gets a buffer of its own.                                        *)
SameArea(old, size) == Area(old.size) = Area(size)
SameSize(old, size) == old.size = size
Header(data, k, size, depth) ==
  LET fresh == [size |-> size, depth |-> depth, allocated |-> Area(size) * depth, shows |-> Nothing]
  IN  IF k > Len(data) THEN Append(data, fresh)
      ELSE IF SameSize(data[k], size) THEN data ELSE [data EXCEPT ![k] = fresh]

(* After an image's bytes the next 'P' is searched; 0 is the end of the    *)
(* file.                                                                   *)
Next_P(file, n, bytes) ==
  LET starts == {m \in n + 1 .. Len(file) : file[m].at >= file[n].at + 1 + bytes}
  IN  IF starts = {} THEN 0 ELSE CHOOSE m \in starts : \A l \in starts : m <= l

(* ReadEPBMBodyImage reads as many bytes as the buffer has.  What the      *)
(* second camera's image has is stored as the third one's depth.           *)
DepthOf(k) == IF k = 2 THEN 3 ELSE k
BodyImage(read, k, number, data) ==
  LET file == directory[number + 1]
      image == IF BytesOf(data[k]) = BytesOf(file[read.at])
               THEN [file |-> number, image |-> read.at] ELSE Nothing
  IN  [data |-> [data EXCEPT ![k].shows = image],
       depths |-> [read.depths EXCEPT ![DepthOf(k)] = IF k = 2 THEN file[1].depth ELSE data[k].depth],
       at |-> Next_P(file, read.at, BytesOf(data[k]))]

(* ReadEPBMFileImage.  The 'P' of a later image is read before its header, *)
(* which then tells no depth: the first image's depth is used for all.     *)
ReadImage(read, k, number) ==
  LET file == directory[number + 1]
  IN  IF read.at = 0 THEN read
      ELSE BodyImage(read, k, number, Header(read.data, k, file[read.at].size, file[1].depth))

ReadEPBMFileImage(number) ==
  LET before == [data |-> m_ReadImageData, at |-> 1,
                 depths |-> IF m_depthOfFile = <<>> THEN <<0, 0, 0, 0>> ELSE m_depthOfFile]
      left == ReadImage(before, 1, number)
      right == ReadImage(left, 2, number)
      up == ReadImage(right, 3, number)
      wide == ReadImage(up, 4, number)
  IN  m_ReadImageData' = wide.data /\ m_depthOfFile' = wide.depths

-----------------------------------------------------------------------------
(* GetSingleImage.                                                         *)

(* The image of a camera from what was last read: a byte per pixel, each   *)
(* the average of a box.                                                   *)
Give(camera) ==
  IF camera >= Len(m_ReadImageData') THEN reader' = "dead" /\ UNCHANGED given
  ELSE LET data == m_ReadImageData'[camera + 1]
           Interval(d) == data.size[d] \div wantedSize[camera][d]
       IN  IF Interval(1) * Interval(2) = 0 THEN reader' = "dead" /\ UNCHANGED given
           ELSE /\ reader' = "ready"
                /\ given' = [camera |-> camera, shows |-> data.shows, size |-> data.size]

(* A missing file is skipped, and after the last one the search goes on    *)
(* without end.                                                            *)
NextFiles == {n \in m_NbOfImages .. Len(directory) - 1 : directory[n + 1] # <<>>}
GetFirstImage ==
  /\ reader = "ready"
  /\ IF NextFiles = {}
     THEN reader' = "searching" /\ UNCHANGED <<m_NbOfImages, m_ReadImageData, m_depthOfFile, given>>
     ELSE LET number == CHOOSE n \in NextFiles : \A m \in NextFiles : n <= m IN
          /\ ReadEPBMFileImage(number)
          /\ m_NbOfImages' = number + 1
          /\ Give(0)
  /\ UNCHANGED <<directory, wantedSize>>

GetOtherImage(camera) ==
  /\ reader = "ready" /\ camera # 0
  /\ UNCHANGED <<directory, wantedSize, m_NbOfImages, m_ReadImageData, m_depthOfFile>>
  /\ Give(camera)

(* SetImageSize, of one camera.                                            *)
SetWantedSize(camera, size) ==
  /\ reader = "ready"
  /\ wantedSize' = [wantedSize EXCEPT ![camera] = size]
  /\ UNCHANGED <<directory, m_NbOfImages, m_ReadImageData, m_depthOfFile, given, reader>>

FileInit ==
  /\ directory \in Directories /\ wantedSize \in {[c \in FileCameras |-> size] : size \in WantedSizes}
  /\ m_NbOfImages = 0 /\ m_ReadImageData = <<>> /\ m_depthOfFile = <<>>
  /\ given = [camera |-> -1, shows |-> Nothing, size |-> <<0, 0>>]
  /\ reader = "ready"

FileNext ==
  \/ GetFirstImage
  \/ \E camera \in FileCameras : GetOtherImage(camera)
  \/ \E camera \in FileCameras, size \in WantedSizes : SetWantedSize(camera, size)

FileSpec == FileInit /\ [][FileNext]_fileVars

-----------------------------------------------------------------------------
(* Properties.                                                             *)

(* The bytes read never overflow the buffer they go to, whatever sizes and *)
(* depths the files have.  When all their images have one depth, a camera  *)
(* is given the image the last file read has for it, of its own size.      *)
OneDepth == \E depth \in {1, 3} : \A file \in ToSet(directory) : \A image \in ToSet(file) :
              image.depth = depth
ImagesOfTheFile ==
  /\ \A k \in DOMAIN m_ReadImageData : BytesOf(m_ReadImageData[k]) <= m_ReadImageData[k].allocated
  /\ OneDepth /\ m_NbOfImages > 0 =>
       \A k \in 1 .. 4 :
         LET file == directory[m_NbOfImages] IN
         k <= Len(file) => /\ m_ReadImageData[k].shows = [file |-> m_NbOfImages - 1, image |-> k]
                           /\ m_ReadImageData[k].size = file[k].size
  /\ given.camera >= 0 /\ OneDepth => given.shows.image = given.camera + 1
=============================================================================
