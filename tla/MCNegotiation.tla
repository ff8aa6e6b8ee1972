--------------------------- MODULE MCNegotiation ---------------------------
(***************************************************************************)
(* Instance of Negotiation for model checking.                             *)
(***************************************************************************)
EXTENDS Negotiation

=============================================================================
