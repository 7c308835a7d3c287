------------------------- MODULE MCSubscriptionHub -------------------------
(* SubscriptionHub on small instances. *)
EXTENDS SubscriptionHub

CONSTANTS c1, c2

\* Every event is in both spheres; c1 may find it too old, which is the same
\* step as for one outside its sphere.
MCRegions == {{c1, c2}}
=============================================================================
