---------------------------- MODULE MCSignaling ----------------------------
(***************************************************************************)
(* Instances of the signaling server for TLC.                              *)
(***************************************************************************)
EXTENDS Signaling, TLC

CONSTANTS a1

\* All from one address, so that connections are interchangeable.
OneAddr == [p \in Conns |-> a1]

ConnSymmetry == Permutations(Conns)

=============================================================================
