--------------------------- MODULE ShardAllocation ---------------------------
(***************************************************************************)
(* Shard allocation in rakka-sharding: the two built-in strategies and     *)
(* ShardCoordinator::reconcile, as operators on ownership maps.  Node ids  *)
(* are integers (the source keeps routable nodes sorted by id), shards are *)
(* 0..NumShards-1, and an ownership map gives each shard a node or NoOwner.*)
(***************************************************************************)
EXTENDS Integers, FiniteSets, FiniteSetsExt

CONSTANTS
    Hosts,            \* node ids that may own shards
    NumShards,        \* ShardingConfig::number_of_shards
    Threshold,        \* LeastShardAllocationStrategy::rebalance_threshold
    MaxMoves          \* max_simultaneous_rebalance of either strategy

ASSUME AllocationAssumption ==
    /\ Hosts \subseteq Nat \ {0}
    /\ IsFiniteSet(Hosts)
    /\ NumShards \in Nat \ {0}
    /\ Threshold \in Nat
    /\ MaxMoves \in Nat

Shards == 0..(NumShards - 1)

NoOwner == 0

Ownerships == [Shards -> Hosts \cup {NoOwner}]

Unowned == [s \in Shards |-> NoOwner]

OwnedBy(own, n) == {s \in Shards : own[s] = n}

\* routable_owner_counts
OwnerCounts(R, own) == [n \in R |-> Cardinality(OwnedBy(own, n))]

------------------------------------------------------------------------------
(* DeterministicModuloShardAllocationStrategy *)

\* desired_owner: the routable node at index shard % len of the sorted list.
DesiredOwner(R, s) ==
    CHOOSE n \in R : Cardinality({m \in R : m < n}) = s % Cardinality(R)

Misplaced(R, own) == {s \in Shards : own[s] # NoOwner /\ own[s] # DesiredOwner(R, s)}

ModuloAllocate(R, own, s) == DesiredOwner(R, s)

ModuloConsidersFirst(R, own) ==
    LET moved == {s \in Misplaced(R, own) :
                    MaxMoves = 0 \/ s + 1 <= MaxMoves}
    IN  [s \in Shards |-> IF s \in moved THEN DesiredOwner(R, s) ELSE own[s]]

ModuloIgnoresCap(R, own) ==
    [s \in Shards |-> IF s \in Misplaced(R, own) THEN DesiredOwner(R, s) ELSE own[s]]

\* The first max_simultaneous_rebalance misplaced shards by id; 0 is no limit.
ModuloRebalance(R, own) ==
    LET bad   == Misplaced(R, own)
        moved == {s \in bad :
                    MaxMoves = 0 \/ Cardinality({r \in bad : r <= s}) <= MaxMoves}
    IN  [s \in Shards |-> IF s \in moved THEN DesiredOwner(R, s) ELSE own[s]]

------------------------------------------------------------------------------
(* LeastShardAllocationStrategy *)

\* min_owner and max_owner: ties go to the smaller node id.
MinOwner(counts) ==
    CHOOSE n \in DOMAIN counts : \A m \in DOMAIN counts :
        counts[n] < counts[m] \/ (counts[n] = counts[m] /\ n <= m)

MaxOwner(counts) ==
    CHOOSE n \in DOMAIN counts : \A m \in DOMAIN counts :
        counts[n] > counts[m] \/ (counts[n] = counts[m] /\ n <= m)

LeastAllocate(R, own, s) == MinOwner(OwnerCounts(R, own))

EffectiveThreshold == IF Threshold > 1 THEN Threshold ELSE 1

\* One round of the while loop: move the lowest shard not moved yet from the most
\* loaded node to the least loaded one, or leave the state alone (break).
LeastRound(R, st) ==
    LET counts  == OwnerCounts(R, st.own)
        from    == MaxOwner(counts)
        to      == MinOwner(counts)
        movable == OwnedBy(st.own, from) \ st.moved
    IN  IF counts[from] - counts[to] <= EffectiveThreshold \/ movable = {}
        THEN st
        ELSE [own |-> [st.own EXCEPT ![Min(movable)] = to],
              moved |-> st.moved \cup {Min(movable)}]

LeastRebalance(R, own) ==
    LET round[k \in 0..MaxMoves] ==
            IF k = 0 THEN [own |-> own, moved |-> {}] ELSE LeastRound(R, round[k - 1])
    IN  round[MaxMoves].own

------------------------------------------------------------------------------
(***************************************************************************)
(* ShardCoordinator::reconcile for a routable set R: with no routable node *)
(* every shard is unassigned; otherwise shards without a routable owner    *)
(* are allocated one after the other in id order, and then the strategy    *)
(* rebalances the result.                                                  *)
(***************************************************************************)
Allocate(strategy, R, own, s) ==
    IF strategy = "modulo" THEN ModuloAllocate(R, own, s) ELSE LeastAllocate(R, own, s)

AllocateOrphans(strategy, R, own) ==
    LET upTo[i \in 0..NumShards] ==
            IF i = 0 THEN own
            ELSE LET o == upTo[i - 1]
                 IN  IF o[i - 1] \in R THEN o
                     ELSE [o EXCEPT ![i - 1] = Allocate(strategy, R, o, i - 1)]
    IN  upTo[NumShards]

ReconcileKeepsOrphans(R, own) ==
    IF R = {} THEN Unowned
    ELSE ModuloRebalance(R, [s \in Shards |->
            IF own[s] = NoOwner THEN ModuloAllocate(R, own, s) ELSE own[s]])

ModuloReconcile(R, own) ==
    IF R = {} THEN Unowned
    ELSE ModuloRebalance(R, AllocateOrphans("modulo", R, own))

LeastReconcile(R, own) ==
    IF R = {} THEN Unowned
    ELSE LeastRebalance(R, AllocateOrphans("least", R, own))
==============================================================================
