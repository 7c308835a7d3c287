--------------------------- MODULE MCSealedStore ---------------------------
(* SealedStore on small instances, with callers and builds of any kind. *)
EXTENDS SealedStoreInv, MCRows
=============================================================================
