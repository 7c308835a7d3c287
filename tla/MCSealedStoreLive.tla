------------------------- MODULE MCSealedStoreLive -------------------------
(* SealedStoreLive on small instances. *)
EXTENDS SealedStoreLive, SealedStoreInv, MCRows
=============================================================================
