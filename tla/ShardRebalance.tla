---------------------------- MODULE ShardRebalance ----------------------------
(***************************************************************************)
(* One shard coordinator over a sequence of membership changes, each of    *)
(* which reconciles, and of the passes that every later tick runs (tick    *)
(* reconciles also when no membership event occurred).  It is where the    *)
(* claims about rebalancing over several passes are checked.               *)
(***************************************************************************)
EXTENDS ShardAllocation

CONSTANT MaxChanges   \* bound on the number of membership changes

VARIABLES
    strategy,   \* the coordinator's allocation strategy, fixed when it is created
    routable,   \* the coordinator's view of the Up members
    own,        \* ShardCoordinator::assignments
    changes

rebalanceVars == <<strategy, routable, own, changes>>

Reconcile(R, prior) ==
    IF strategy = "modulo" THEN ModuloReconcile(R, prior) ELSE LeastReconcile(R, prior)

\* ensure_coordinator: a fresh map or one restored from the store, which a coordinator
\* with another view or another strategy may have written, reconciled once.
RebalanceInit ==
    /\ strategy \in {"modulo", "least"}
    /\ routable \in SUBSET Hosts
    /\ own \in {Reconcile(routable, prior) : prior \in Ownerships}
    /\ changes = 0

MembershipChange(R) ==
    /\ changes < MaxChanges
    /\ routable' = R
    /\ own' = Reconcile(R, own)
    /\ changes' = changes + 1
    /\ UNCHANGED strategy

Pass ==
    /\ own' = Reconcile(routable, own)
    /\ UNCHANGED <<strategy, routable, changes>>

RebalanceNext == Pass \/ \E R \in SUBSET Hosts : MembershipChange(R)

\* Ticks keep coming, and each runs a pass.
RebalanceSpec == RebalanceInit /\ [][RebalanceNext]_rebalanceVars /\ WF_rebalanceVars(Pass)

------------------------------------------------------------------------------
\* A reconcile leaves no shard with an owner that is not routable and none without
\* an owner while some node is routable, however small the rebalance cap: orphans
\* are never capped.
NoOrphans ==
    \A s \in Shards : IF routable = {} THEN own[s] = NoOwner ELSE own[s] \in routable

\* Healthy shards one pass may move: 0 is no limit for one strategy and none for the other.
MoveLimit == IF strategy = "modulo" /\ MaxMoves = 0 THEN NumShards ELSE MaxMoves

\* One pass moves at most the configured number of shards whose owner is healthy.
BoundedMoves ==
    [][Cardinality({s \in Shards : own[s] \in routable' /\ own'[s] # own[s]})
         <= MoveLimit]_rebalanceVars

Spread(R, o) ==
    LET counts == OwnerCounts(R, o)
    IN  counts[MaxOwner(counts)] - counts[MinOwner(counts)]

Placed ==
    IF strategy = "modulo" THEN \A s \in Shards : own[s] = DesiredOwner(routable, s)
                           ELSE Spread(routable, own) <= EffectiveThreshold

\* Once membership is stable, capped passes reach the goal of the strategy and keep it:
\* for modulo, "still converges to the full deterministic placement", which every other
\* coordinator with that view reaches; for least-shard, every routable node within the
\* threshold of every other one.
PassesConverge == <>[](routable # {} => Placed)
==============================================================================
