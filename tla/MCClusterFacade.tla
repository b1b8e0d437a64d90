--------------------------- MODULE MCClusterFacade ---------------------------
(* Two callers, a local node and two peers, one of them a seed. *)
EXTENDS ClusterFacade, TLC

CallerSymmetry == Permutations(Threads)

SeedList == <<1, 2>>
==============================================================================
