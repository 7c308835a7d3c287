-------------------------- MODULE MCMeshSyncLive --------------------------
(* MeshSyncLive on small instances. *)
EXTENDS MeshSyncLive, MeshSyncInv, MCMeshRows
=============================================================================
