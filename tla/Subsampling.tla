---------------------------- MODULE Subsampling ----------------------------
(***************************************************************************)
(* The images of HRP2IEEE1394ImagesInputMethod: the board fills a buffer   *)
(* of its own size, and each byte of a client's image becomes the average  *)
(* of a box of it.  A color image has three bytes per pixel, a grey one    *)
(* takes the first of them, and a raw one has one byte per pixel, whose    *)
(* color is given by its place in a cell of two by two.  The class for     *)
(* dc1394 has the same loops.                                              *)
(***************************************************************************)
EXTENDS Naturals, FiniteSets

CONSTANTS
  BoardSizes,       \* the sizes, <<width, height>>, the board may have
  AskedSizes        \* the sizes a client may set

ASSUME SubsamplingAssumption ==
  BoardSizes \subseteq (Nat \ {0}) \X (Nat \ {0}) /\ AskedSizes \subseteq (Nat \ {0}) \X (Nat \ {0})

VARIABLES
  boardSize, imageSize,     \* m_Board's width and height, m_ImagesWidth and -Height
  boardFormat,
  lastGrab                  \* "none", the call that filled the image, or "died"

subsamplingVars == <<boardSize, imageSize, boardFormat, lastGrab>>

BWidth == boardSize[1]
BHeight == boardSize[2]
ImageWidth == imageSize[1]
ImageHeight == imageSize[2]
intervalw == BWidth \div ImageWidth
intervalh == BHeight \div ImageHeight

Evens(n) == {k \in 0 .. n - 1 : k % 2 = 0}

-----------------------------------------------------------------------------
(* What the loops add up: pairs of a byte of the image and one of the      *)
(* board's that is added to it.                                            *)

ColorSamples ==
  {<<(j * ImageWidth + i) * 3 + n, ((j * intervalh + l) * BWidth + i * intervalw + m) * 3 + n>> :
     j \in 0 .. ImageHeight - 1, i \in 0 .. ImageWidth - 1,
     l \in 0 .. intervalh - 1, m \in 0 .. intervalw - 1, n \in 0 .. 2}

GreySamples ==
  {<<j * ImageWidth + i, ((j * intervalh + l) * BWidth + i * intervalw + m) * 3>> :
     j \in 0 .. ImageHeight - 1, i \in 0 .. ImageWidth - 1,
     l \in 0 .. intervalh - 1, m \in 0 .. intervalw - 1}

(* A cell of the image from the cells of a box of the board, rows high and *)
(* columns wide.                                                           *)
CellSamples(rows, columns) ==
  {<<(j + y) * ImageWidth + i + x, (j * intervalh + l + y) * BWidth + i * intervalw + m + x>> :
     j \in Evens(ImageHeight), i \in Evens(ImageWidth),
     l \in Evens(rows), m \in Evens(columns), y \in 0 .. 1, x \in 0 .. 1}

SmallCells == CellSamples(intervalh, intervalw)
RawSamples == CellSamples(2 * intervalh, 2 * intervalw)

(* The sums are divided by the size of the box: as integers, which ends    *)
(* the program if it is zero, but for raw images.                          *)
DividesByZero == boardFormat # "RAW" /\ intervalw * intervalh = 0

Grab(call) ==
  /\ lastGrab # "died"
  /\ lastGrab' = IF DividesByZero THEN "died" ELSE call
  /\ UNCHANGED <<boardSize, imageSize, boardFormat>>

GetImageSinglePGM == boardFormat = "PGM" /\ Grab("single")
GetImageSingleRGB == boardFormat = "RGB" /\ Grab("single")
GetImageSingleRaw == boardFormat = "RAW" /\ Grab("single")
GetImagePGM == boardFormat = "PGM" /\ Grab("all")
GetImageRGB == boardFormat = "RGB" /\ Grab("all")

(* The loops over the box have half the bounds of those of the single raw  *)
(* image.                                                                  *)
GetImageRaw == boardFormat = "RAW" /\ Grab("all")

SetAllImageSizes(size) ==
  /\ lastGrab # "died" /\ lastGrab' = "none"
  /\ imageSize' = size
  /\ UNCHANGED <<boardSize, boardFormat>>

(* A format it does not know is refused.                                   *)
SetBoardFormat(format) ==
  /\ lastGrab # "died" /\ lastGrab' = "none"
  /\ boardFormat' = IF format \in {"RGB", "PGM", "RAW"} THEN format ELSE boardFormat
  /\ UNCHANGED <<boardSize, imageSize>>

BoxSamples ==
  CASE boardFormat = "RGB" -> ColorSamples
    [] boardFormat = "PGM" -> GreySamples
    [] boardFormat = "RAW" /\ lastGrab = "single" -> RawSamples
    [] boardFormat = "RAW" /\ lastGrab = "all" -> SmallCells

SubsamplingInit ==
  /\ boardSize \in BoardSizes /\ imageSize \in AskedSizes
  /\ boardFormat = "RGB" /\ lastGrab = "none"

SubsamplingNext ==
  \/ GetImageSinglePGM \/ GetImageSingleRGB \/ GetImageSingleRaw
  \/ GetImagePGM \/ GetImageRGB \/ GetImageRaw
  \/ \E size \in AskedSizes : SetAllImageSizes(size)
  \/ \E format \in {"RGB", "PGM", "RAW", "YUV422"} : SetBoardFormat(format)

SubsamplingSpec == SubsamplingInit /\ [][SubsamplingNext]_subsamplingVars

-----------------------------------------------------------------------------
(* Properties.                                                             *)

BytesPerPixel == IF boardFormat = "RGB" THEN 3 ELSE 1

(* The bytes of the board that show what a byte of the image shows: its    *)
(* box, and of this the same color.                                        *)
BoxOf(byte) ==
  LET pixel == byte \div BytesPerPixel
      x == pixel % ImageWidth
      y == pixel \div ImageWidth
      Side(p, interval) == IF boardFormat # "RAW" THEN p * interval .. (p + 1) * interval - 1
                           ELSE {q \in (p - (p % 2)) * interval .. (p - (p % 2) + 2) * interval - 1 :
                                   q % 2 = p % 2}
  IN  {IF boardFormat = "RAW" THEN row * BWidth + column
       ELSE (row * BWidth + column) * 3 + (byte % BytesPerPixel) :
         row \in Side(y, intervalh), column \in Side(x, intervalw)}

(* Whatever the sizes, every byte of the image is the average of exactly   *)
(* the bytes of its own color in its own box, which lies in the board's    *)
(* image, and no byte out of the image is written.  Not so for all raw     *)
(* images at once unless they have the board's size, as their loops stop   *)
(* half way, and for raw images of an odd size, which are cut in cells.    *)
AveragesOfTheirBoxes ==
  lastGrab \in {"single", "all"}
  /\ (boardFormat = "RAW" => /\ intervalw * intervalh > 0
                          /\ ImageWidth % 2 = 0 /\ ImageHeight % 2 = 0
                          /\ (lastGrab = "all" => intervalw = 1 /\ intervalh = 1)) =>
    LET bytes == 0 .. ImageWidth * ImageHeight * BytesPerPixel - 1 IN
    /\ {s[1] : s \in BoxSamples} = bytes
    /\ \A s \in BoxSamples : s[2] < BWidth * BHeight * (IF boardFormat = "RAW" THEN 1 ELSE 3)
    /\ \A byte \in bytes :
         LET added == {s[2] : s \in {t \in BoxSamples : t[1] = byte}} IN
         added = BoxOf(byte) /\ Cardinality(added) = intervalw * intervalh
=============================================================================
