------------------------- MODULE MCShardCoordination -------------------------
(* Two runtimes and one shard, allocated by the deterministic modulo strategy. *)
EXTENDS ShardCoordination

Alloc == INSTANCE ShardAllocation WITH Hosts <- Nodes, NumShards <- 1, Threshold <- 1, MaxMoves <- 0

Maps == Alloc!Ownerships

EmptyMap == Alloc!Unowned

Modulo(R, own) == Alloc!ModuloReconcile(R, own)

\* With one shard, what the pair of nodes adds to the singletons is nothing.
SmallViews == {{}, {1}, {2}}
==============================================================================
