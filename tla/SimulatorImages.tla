-------------------------- MODULE SimulatorImages --------------------------
(***************************************************************************)
(* One camera of HRP2SimulatorInputMethod: the simulator renders images of *)
(* a fixed size, SetImageSize turns the size a client wants into two       *)
(* subsampling steps, and GetSingleImage copies every m_subsamplingX-th    *)
(* pixel of every m_subsamplingY-th row.  An exception of either ends the  *)
(* server: SetImagesGrabbedSize may throw CORBA exceptions only, and the   *)
(* loop catches none.                                                      *)
(***************************************************************************)
EXTENDS Naturals, Sequences

CONSTANTS
  Rendered,     \* the sizes, <<width, height>>, the simulator may render
  Wanted        \* the sizes a client may ask for, the server's own first

ASSUME SimulatorAssumption ==
  /\ Rendered \subseteq (Nat \ {0}) \X (Nat \ {0})
  /\ Wanted \subseteq (Nat \ {0}) \X (Nat \ {0})

VARIABLES
  server,                           \* "up", or in which call it died
  rendered,                         \* the size of the simulator's images
  m_ImagesWidth, m_ImagesHeight,
  m_subsamplingX, m_subsamplingY

simulatorVars ==
  <<server, rendered, m_ImagesWidth, m_ImagesHeight, m_subsamplingX, m_subsamplingY>>

width == rendered[1]
height == rendered[2]

(* The steps are taken from the size set last, not from the rendered one;  *)
(* a size that does not change keeps them.                                 *)
SetImageSize(size) ==
  /\ server = "up"
  /\ IF size = <<m_ImagesWidth, m_ImagesHeight>>
     THEN UNCHANGED <<m_subsamplingX, m_subsamplingY, server>>
     ELSE /\ m_subsamplingX' = m_ImagesWidth \div size[1]
          /\ m_subsamplingY' = m_ImagesHeight \div size[2]
          /\ server' = IF m_subsamplingX' = 0 \/ m_subsamplingY' = 0
                       THEN "died in SetImageSize" ELSE server
  /\ IF server' = "up" THEN m_ImagesWidth' = size[1] /\ m_ImagesHeight' = size[2]
                       ELSE UNCHANGED <<m_ImagesWidth, m_ImagesHeight>>
  /\ UNCHANGED rendered

(* The image must have the size the steps were made for.                   *)
SizeIsSupported ==
  /\ width = m_ImagesWidth * m_subsamplingX
  /\ height = m_ImagesHeight * m_subsamplingY

GetSingleImage ==
  /\ server = "up"
  /\ server' = IF SizeIsSupported THEN server ELSE "died in GetSingleImage"
  /\ UNCHANGED <<rendered, m_ImagesWidth, m_ImagesHeight, m_subsamplingX, m_subsamplingY>>

(* The pixel read after this one: past the end of a row, rows are skipped. *)
(* The test for the end accepts the second pixel of a row too.             *)
NextPixel(pixel) ==
  LET next == pixel + m_subsamplingX IN
  IF next % width <= 1 THEN next + (m_subsamplingY - 1) * width ELSE next

(* The pixels of the rendered image that are copied, from one on.          *)
PixelsRead ==
  LET From[pixel \in 0 .. 2 * width * height] ==
        IF pixel >= width * height THEN <<>> ELSE <<pixel>> \o From[NextPixel(pixel)]
  IN  From[0]

SimulatorInit ==
  /\ server = "up"
  /\ rendered \in Rendered
  /\ m_ImagesWidth = width /\ m_ImagesHeight = height
  /\ m_subsamplingX = 1 /\ m_subsamplingY = 1

SimulatorNext == GetSingleImage \/ \E size \in Wanted : SetImageSize(size)
SimulatorSpec == SimulatorInit /\ [][SimulatorNext]_simulatorVars

-----------------------------------------------------------------------------
(* Properties.                                                             *)

(* A grab that is supported fills the image, pixel by pixel, with the      *)
(* rendered one subsampled in both directions: as many pixels as the       *)
(* server's buffer has, each of the right row and column.  It does not if  *)
(* only rows are left out, when the skipping also hits the second pixels.  *)
GrabIsTheSubsampledImage ==
  server = "up" /\ SizeIsSupported /\ (m_subsamplingX > 1 \/ m_subsamplingY = 1) =>
    PixelsRead = [n \in 1 .. m_ImagesWidth * m_ImagesHeight |->
                    LET row == (n - 1) \div m_ImagesWidth
                        column == (n - 1) % m_ImagesWidth
                    IN  row * m_subsamplingY * width + column * m_subsamplingX]

=============================================================================
