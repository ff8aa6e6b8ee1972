--------------------------- MODULE MCMeshManager ---------------------------
(***************************************************************************)
(* The instance of the mesh manager for TLC is in MCMeshManager.cfg.       *)
(***************************************************************************)
EXTENDS MeshManager

=============================================================================
