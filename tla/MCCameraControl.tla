-------------------------- MODULE MCCameraControl --------------------------
(***************************************************************************)
(* Instances of camera switching for TLC.                                  *)
(***************************************************************************)
EXTENDS CameraControl, TLC

=============================================================================
