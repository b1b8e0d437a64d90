------------------------- MODULE MCClusterMembership -------------------------
(* The local node and two peers, one of which may fall silent. *)
EXTENDS ClusterMembership
==============================================================================
