----------------------------- MODULE MCPlayback -----------------------------
(***************************************************************************)
(* Instance of Playback for model checking.                                *)
(***************************************************************************)
EXTENDS Playback

=============================================================================
