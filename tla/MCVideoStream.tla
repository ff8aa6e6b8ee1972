--------------------------- MODULE MCVideoStream ---------------------------
(***************************************************************************)
(* Instances of the video stream for TLC.                                  *)
(***************************************************************************)
EXTENDS VideoStream, TLC

CellSymmetry == Permutations(CellIDs)

=============================================================================
