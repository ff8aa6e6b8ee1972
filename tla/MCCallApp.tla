----------------------------- MODULE MCCallApp -----------------------------
(***************************************************************************)
(* Instances of the client program for TLC.                                *)
(***************************************************************************)
EXTENDS CallApp, TLC

=============================================================================
