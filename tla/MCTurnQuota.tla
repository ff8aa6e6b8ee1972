---------------------------- MODULE MCTurnQuota ----------------------------
(***************************************************************************)
(* Instances of the TURN quota tracker for TLC.                            *)
(***************************************************************************)
EXTENDS TurnQuota, TLC

QuotaSymmetry == Permutations(Users) \cup Permutations(Sources)

=============================================================================
