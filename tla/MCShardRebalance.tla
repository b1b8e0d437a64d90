--------------------------- MODULE MCShardRebalance ---------------------------
(* Three nodes and more shards than nodes, from every restored ownership map. *)
EXTENDS ShardRebalance
==============================================================================
