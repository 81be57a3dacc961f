-------------------------- MODULE ImageConversion --------------------------
(***************************************************************************)
(* HRP2vispConvertImageProcess: it converts images between OpenCV's        *)
(* matrices, whose rows may be padded to widthStep bytes, and ViSP's       *)
(* images, whose rows follow each other, in grey ("U8") or colour ("RGB"). *)
(*                                                                         *)
(* A converted image is the set of pairs <<address, pixel>> it was written *)
(* as: where the pixel went, and which pixel <<row, column>> of the source *)
(* was read.  An address counts bytes, in a colour ViSP image pixels.      *)
(***************************************************************************)
EXTENDS Naturals

CONSTANTS
  ImageHeights, ImageWidths,
  Paddings                     \* the bytes that may pad a row of a matrix

ASSUME ConversionAssumption ==
  ImageHeights \union ImageWidths \subseteq Nat \ {0} /\ Paddings \subseteq Nat /\ 0 \in Paddings

Conversions == {"MAT_VISPU8", "MAT_VISPRGB", "VISPU8_MAT", "VISPRGB_MAT"}
NoImage == [height |-> 0, width |-> 0, nChannel |-> 0, widthStep |-> 0]

Matrix(h, w, channels, padding) ==
  [height |-> h, width |-> w, nChannel |-> channels, widthStep |-> channels * w + padding]

VARIABLES
  m_conversion, m_flip,
  m_ImgParam,           \* of the images that were set
  written,              \* the output, as above
  m_imageConvertSucces

conversionVars == <<m_conversion, m_flip, m_ImgParam, written, m_imageConvertSucces>>

h == m_ImgParam.height
w == m_ImgParam.width
step == m_ImgParam.widthStep
channels == m_ImgParam.nChannel

-----------------------------------------------------------------------------
(* SetImages takes the sizes from the source.  A target matrix of another  *)
(* size or depth is created anew, without padding; otherwise it is used as *)
(* it is.                                                                  *)
SetImages(height, width, nChannel, padding) ==
  /\ m_conversion = "VISPU8_MAT" => nChannel = 1
  /\ m_conversion = "VISPRGB_MAT" => nChannel = 3
  /\ m_ImgParam' = Matrix(height, width, nChannel, padding)
  /\ UNCHANGED <<m_conversion, m_flip, written, m_imageConvertSucces>>

SetParameterFlip(flip) ==
  /\ m_flip' = flip
  /\ UNCHANGED <<m_conversion, m_ImgParam, written, m_imageConvertSucces>>

-----------------------------------------------------------------------------
(* The pixel at an address of a matrix, and of a ViSP image.               *)
MatPixel(address) == <<address \div step, (address % step) \div channels>>
VispPixel(address) == <<address \div w, address % w>>

(* Row i is read from In(i) on, a pixel every inStep, and written to Out(i)*)
(* on, a pixel every outStep.                                              *)
Rows(In(_), inStep, Out(_), outStep, Pixel(_)) ==
  {<<Out(ij[1]) + ij[2] * outStep, Pixel(In(ij[1]) + ij[2] * inStep)>> :
     ij \in (0 .. h - 1) \X (0 .. w - 1)}

MatRow(i) == i * step
VispRow(i) == i * w
FlippedRow(i) == (h - 1 - i) * w

(* The rows are copied one by one.  A grey image that is flipped has its   *)
(* rows four widths apart, as if it had the four bytes of RGBa.            *)
ConvertMatToViSPU8Image ==
  LET FourApart(i) == 4 * w * (h - 1 - i)
      Unpadded(i) == i * w * channels
  IN  IF ~m_flip THEN Rows(MatRow, channels, VispRow, 1, MatPixel)
      ELSE IF channels = 1 THEN Rows(MatRow, 1, FourApart, 1, MatPixel)
      ELSE Rows(Unpadded, channels, FlippedRow, 1, MatPixel)

ConvertMatToViSPRGBaImage ==
  IF m_flip THEN Rows(MatRow, channels, FlippedRow, 1, MatPixel)
            ELSE Rows(MatRow, channels, VispRow, 1, MatPixel)

StepIsWidth == Rows(VispRow, 1, VispRow, channels, VispPixel)

ConvertViSPToMatImage == Rows(VispRow, 1, MatRow, channels, VispPixel)

(* pRealizeTheProcess says that it succeeded whether images were set or    *)
(* not.                                                                    *)
ConvertImage ==
  /\ written' = IF m_ImgParam = NoImage THEN written
                ELSE CASE m_conversion = "MAT_VISPU8" -> ConvertMatToViSPU8Image
                       [] m_conversion = "MAT_VISPRGB" -> ConvertMatToViSPRGBaImage
                       [] OTHER -> ConvertViSPToMatImage
  /\ m_imageConvertSucces' = TRUE
  /\ UNCHANGED <<m_conversion, m_flip, m_ImgParam>>

ConversionInit ==
  /\ m_conversion \in Conversions /\ m_flip = FALSE
  /\ m_ImgParam = NoImage /\ written = {} /\ m_imageConvertSucces = FALSE

ConversionNext ==
  \/ ConvertImage
  \/ \E flip \in BOOLEAN : SetParameterFlip(flip)
  \/ \E height \in ImageHeights, width \in ImageWidths, nChannel \in {1, 3}, padding \in Paddings :
       SetImages(height, width, nChannel, padding)

ConversionSpec == ConversionInit /\ [][ConversionNext]_conversionVars

-----------------------------------------------------------------------------
(* Properties.                                                             *)

(* Where a pixel belongs in the converted image.                           *)
Place(i, j) ==
  IF m_conversion \in {"VISPU8_MAT", "VISPRGB_MAT"} THEN i * step + j * channels
  ELSE IF m_flip THEN (h - 1 - i) * w + j
  ELSE i * w + j

WholeImage == {<<Place(ij[1], ij[2]), ij>> : ij \in (0 .. h - 1) \X (0 .. w - 1)}

(* A conversion writes every pixel of the source to its place, flipped if  *)
(* that was asked for, and no address outside of the target, whatever the  *)
(* padding of the rows.  It fails in two cases of the flip to grey: from a *)
(* grey matrix of more than one row, most of which goes past the end of    *)
(* the image, and from a colour matrix with padding.                       *)
PixelsInPlace ==
  [][ \/ written' = written \/ written' = WholeImage
      \/ m_conversion = "MAT_VISPU8" /\ m_flip /\ (IF channels = 1 THEN h > 1 ELSE step > 3 * w)
    ]_conversionVars
=============================================================================
