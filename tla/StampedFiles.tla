---------------------------- MODULE StampedFiles ----------------------------
(***************************************************************************)
(* The two ways in which images are kept in memory and written to files    *)
(* later, the server's stack and the buffer of the difference's process.   *)
(***************************************************************************)
EXTENDS ImageStack, ImageDifference

(* An image that is written to a file has its own stamp, whether it was    *)
(* recorded by the server or buffered by the difference's process, whose   *)
(* differences are of successive images.                                   *)
StampsOfTheFiles ==
  StampsOfTheImages /\ SavedWithItsStamp /\ DifferenceOfSuccessiveImages
=============================================================================
