--------------------------- MODULE MCSignalClient ---------------------------
(***************************************************************************)
(* Instance of SignalClient for model checking.                            *)
(***************************************************************************)
EXTENDS SignalClient

=============================================================================
