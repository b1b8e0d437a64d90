---------------------------- MODULE ClusterProofs ----------------------------
(***************************************************************************)
(* Proofs about the nodes of a cluster and the shards they own.            *)
(*                                                                         *)
(* About the membership table (ClusterMembership), for any set of nodes,   *)
(* timeouts and compatibility: every operation is a good step of the       *)
(* table, so revisions identify changes and terminal states stay.          *)
(*                                                                         *)
(* About one coordinator's passes (ShardRebalance), for any nodes, shards, *)
(* threshold and cap: what a reconcile pass leaves without a routable      *)
(* owner, and how many healthy shards it moves. Both the allocation of     *)
(* orphans and the least-shard rebalance are loops, modelled as recursive  *)
(* functions. Their loop invariants are proved by induction on the number  *)
(* of rounds, with the set of the rounds at which the invariant holds as   *)
(* the induction's parameter.                                              *)
(***************************************************************************)
EXTENDS ClusterMembership, ShardRebalance, FiniteSetTheorems,
        WellFoundedInduction, TLAPS

(***************************************************************************)
(* The membership table.                                                   *)
(***************************************************************************)
MemberStates == States \cup {Absent}

\* RevisionsIdentifyChanges of one table.
DistinctRevisions(tbl) ==
    /\ \A n \in Nodes : tbl.members[n].revision <= tbl.revision
    /\ \A m, n \in Nodes :
        tbl.members[m].revision = tbl.members[n].revision /\ m # n
            => tbl.members[m].revision = 0

\* RevisionsTrackChanges between two tables.
Tracks(tbl, new) ==
    /\ new.revision >= tbl.revision
    /\ \A n \in Nodes :
        State(new, n) # State(tbl, n) <=> new.members[n].revision > tbl.revision

\* NoResurrection between two tables.
Buries(tbl, new) ==
    \A n \in Nodes :
        /\ State(tbl, n) = "Down" => State(new, n) \in {"Down", "Removed"}
        /\ State(tbl, n) = "Removed" => State(new, n) = "Removed"

\* Rank numbers the members of a set of nodes from 1 to its size.
LEMMA RankIsNumbering ==
    ASSUME NEW S \in SUBSET Nodes
    PROVE  /\ Cardinality(S) \in Nat
           /\ \A n \in S : Rank(S, n) \in 1..Cardinality(S)
           /\ \A m, n \in S : Rank(S, m) = Rank(S, n) => m = n
  <1>1. IsFiniteSet(S) /\ S \subseteq Int
    BY Zenon, NodesAssumption, FS_Subset
  <1>2. Cardinality(S) \in Nat
    BY <1>1, FS_CardinalityType
  <1> DEFINE Upto(n) == {m \in S : m <= n}
  <1>3. \A n \in S : /\ IsFiniteSet(Upto(n))
                     /\ Cardinality(Upto(n)) \in Nat
                     /\ Cardinality(Upto(n)) <= Cardinality(S)
    BY <1>1, FS_Subset, FS_CardinalityType
  <1>4. \A n \in S : Cardinality(Upto(n)) # 0
    <2> TAKE n \in S
    <2>1. n \in Upto(n)
      BY <1>1
    <2> QED
      BY Zenon, <1>3, <2>1, FS_EmptySet
  <1>5. ASSUME NEW m \in S, NEW n \in S, m < n
        PROVE  Cardinality(Upto(m)) < Cardinality(Upto(n))
    <2>1. Upto(m) \subseteq Upto(n)
      <3>1. ASSUME NEW k \in S, k <= m PROVE k <= n
        BY <1>1, <1>5, <3>1
      <3> QED
        BY <3>1
    <2>2. n \in Upto(n) /\ n \notin Upto(m)
      BY <1>1, <1>5
    <2>3. Cardinality(Upto(m)) <= Cardinality(Upto(n))
      BY <1>3, <2>1, FS_Subset
    <2>4. Cardinality(Upto(m)) # Cardinality(Upto(n))
      BY Zenon, <1>3, <2>1, <2>2, FS_Subset
    <2> QED
      BY <1>3, <2>3, <2>4
  <1>6. \A n \in S : Rank(S, n) = Cardinality(Upto(n))
    BY DEF Rank
  <1> HIDE DEF Upto
  <1>7. \A n \in S : Rank(S, n) \in 1..Cardinality(S)
    BY <1>2, <1>3, <1>4, <1>6
  <1>8. \A m, n \in S : Rank(S, m) = Rank(S, n) => m = n
    <2> TAKE m, n \in S
    <2>1. m < n \/ n < m \/ m = n
      BY <1>1
    <2>2. Cardinality(Upto(m)) \in Nat /\ Cardinality(Upto(n)) \in Nat
      BY <1>3
    <2>3. m < n => Rank(S, m) # Rank(S, n)
      BY <1>5, <1>6, <2>2
    <2>4. n < m => Rank(S, m) # Rank(S, n)
      BY <1>5, <1>6, <2>2
    <2> QED
      BY <2>1, <2>3, <2>4
  <1> QED
    BY <1>2, <1>7, <1>8

------------------------------------------------------------------------------
\* What every operation on the table guarantees.
GoodStep(tbl, new) ==
    /\ new \in Tables
    /\ \A n \in Nodes : State(new, n) = State(tbl, n)
                          => new.members[n].revision = tbl.members[n].revision
    /\ DistinctRevisions(tbl) => DistinctRevisions(new) /\ Tracks(tbl, new)
    /\ Buries(tbl, new)

\* Restamp is a good step when the nodes it restamps are the nodes whose state it
\* changes and it brings no member back.
LEMMA RestampIsGood ==
    ASSUME NEW tbl \in Tables, NEW S \in SUBSET Nodes,
           NEW newState \in [Nodes -> MemberStates], NEW newAge \in [Nodes -> Ages],
           \A n \in Nodes : n \in S <=> newState[n] # State(tbl, n),
           \A n \in Nodes : State(tbl, n) = "Down" => newState[n] \in {"Down", "Removed"},
           \A n \in Nodes : State(tbl, n) = "Removed" => newState[n] = "Removed"
    PROVE  GoodStep(tbl, Restamp(tbl, S, newState, newAge))
  <1> DEFINE new == Restamp(tbl, S, newState, newAge)
             rev(n) == IF n \in S THEN tbl.revision + Rank(S, n) ELSE tbl.members[n].revision
  <1>1. /\ tbl.revision \in Nat
        /\ \A n \in Nodes : tbl.members[n].revision \in Nat
    BY DEF Tables, MemberRecord
  <1>2. /\ Cardinality(S) \in Nat
        /\ \A n \in S : Rank(S, n) \in Nat /\ 1 <= Rank(S, n) /\ Rank(S, n) <= Cardinality(S)
        /\ \A m, n \in S : Rank(S, m) = Rank(S, n) => m = n
    BY SMTT(30), RankIsNumbering
  <1>3. /\ new.revision = tbl.revision + Cardinality(S)
        /\ \A n \in Nodes : /\ new.members[n].revision = rev(n)
                            /\ State(new, n) = newState[n]
    BY DEF Restamp, State
  <1>4. \A n \in Nodes : rev(n) \in Nat
    BY <1>1, <1>2
  <1>5. new \in Tables
    <2>1. \A n \in Nodes : [state |-> newState[n], age |-> newAge[n], revision |-> rev(n)]
                            \in MemberRecord
      BY <1>4 DEF MemberRecord, MemberStates
    <2>2. new = [members |-> [n \in Nodes |-> [state |-> newState[n], age |-> newAge[n],
                                               revision |-> rev(n)]],
                 revision |-> tbl.revision + Cardinality(S)]
      BY DEF Restamp
    <2> HIDE DEF new, rev
    <2>3. tbl.revision + Cardinality(S) \in Nat
      BY <1>1, <1>2
    <2> QED
      BY <2>1, <2>2, <2>3 DEF Tables
  <1> HIDE DEF new
  <1>6. ASSUME DistinctRevisions(tbl) PROVE DistinctRevisions(new)
    <2>1. \A n \in Nodes : tbl.members[n].revision <= tbl.revision
      BY <1>6 DEF DistinctRevisions
    <2>2. \A n \in Nodes : rev(n) <= tbl.revision + Cardinality(S)
      BY <1>1, <1>2, <2>1
    <2>3. \A m, n \in Nodes : rev(m) = rev(n) /\ m # n => rev(m) = 0
      <3> SUFFICES ASSUME NEW m \in Nodes, NEW n \in Nodes, rev(m) = rev(n), m # n
                   PROVE  rev(m) = 0
        OBVIOUS
      <3>1. CASE m \in S /\ n \in S
        BY <3>1, <1>1, <1>2
      <3>2. CASE m \in S /\ n \notin S
        BY <3>2, <1>1, <1>2, <2>1
      <3>3. CASE m \notin S /\ n \in S
        BY <3>3, <1>1, <1>2, <2>1
      <3>4. CASE m \notin S /\ n \notin S
        BY <3>4, <1>6 DEF DistinctRevisions
      <3> QED
        BY <3>1, <3>2, <3>3, <3>4
    <2> QED
      BY <1>3, <2>2, <2>3 DEF DistinctRevisions
  <1>7. ASSUME DistinctRevisions(tbl) PROVE Tracks(tbl, new)
    <2>1. \A n \in Nodes : tbl.members[n].revision <= tbl.revision
      BY <1>7 DEF DistinctRevisions
    <2>2. \A n \in Nodes : rev(n) > tbl.revision <=> n \in S
      BY <1>1, <1>2, <2>1
    <2>3. new.revision >= tbl.revision
      BY <1>1, <1>2, <1>3
    <2> QED
      BY Zenon, <1>3, <2>2, <2>3 DEF Tracks
  <1>8. /\ Buries(tbl, new)
        /\ \A n \in Nodes : State(new, n) = State(tbl, n)
                              => new.members[n].revision = tbl.members[n].revision
    BY <1>3 DEF Buries
  <1> QED
    BY <1>5, <1>6, <1>7, <1>8 DEF GoodStep, new

\* An operation that changes nothing is a good step too.
LEMMA NothingIsGood ==
    ASSUME NEW tbl \in Tables
    PROVE  GoodStep(tbl, tbl)
  <1>1. tbl.revision \in Nat
    BY DEF Tables
  <1>2. DistinctRevisions(tbl) => Tracks(tbl, tbl)
    <2> SUFFICES ASSUME DistinctRevisions(tbl) PROVE Tracks(tbl, tbl)
      OBVIOUS
    <2>1. \A n \in Nodes : tbl.members[n].revision \in Nat /\ tbl.members[n].revision <= tbl.revision
      BY DEF Tables, MemberRecord, DistinctRevisions
    <2> QED
      BY <1>1, <2>1 DEF Tracks
  <1> QED
    BY <1>2 DEF GoodStep, Buries

\* The age of a record and the state of a member of a table.
LEMMA TableParts ==
    ASSUME NEW tbl \in Tables, NEW n \in Nodes
    PROVE  State(tbl, n) \in MemberStates /\ tbl.members[n].age \in Ages
  BY DEF Tables, MemberRecord, State, MemberStates

\* record_discovery
LEMMA DiscoveryIsGood ==
    ASSUME NEW tbl \in Tables, NEW D \in SUBSET Nodes, NEW age \in Ages
    PROVE  GoodStep(tbl, RecordDiscovery(tbl, D, age))
  <1> DEFINE Seen    == Processed(D)
             Found   == {n \in Seen \ {Local} : State(tbl, n) = Absent}
             Back    == {n \in Seen \ {Local} : State(tbl, n) = "Unreachable"}
             Stamped == {n \in Seen : n = Local \/ State(tbl, n) \notin {"Down", "Removed"}}
             newState == [n \in Nodes |-> IF n \in Found THEN "Joining"
                                          ELSE IF n \in Back THEN "Up" ELSE State(tbl, n)]
             newAge == [n \in Nodes |-> IF n \in Stamped THEN age ELSE tbl.members[n].age]
  <1>1. RecordDiscovery(tbl, D, age) = Restamp(tbl, Found \cup Back, newState, newAge)
    BY DEF RecordDiscovery
  <1>2. Seen \subseteq Nodes
    BY DEF Processed
  <1>3. Found \cup Back \in SUBSET Nodes
    BY <1>2
  <1>4. newState \in [Nodes -> MemberStates]
    BY TableParts DEF MemberStates, States
  <1>5. newAge \in [Nodes -> Ages]
    BY TableParts
  <1>6. \A n \in Nodes : n \in Found \cup Back <=> newState[n] # State(tbl, n)
    BY DEF Absent
  <1>7. \A n \in Nodes : /\ State(tbl, n) = "Down" => newState[n] \in {"Down", "Removed"}
                         /\ State(tbl, n) = "Removed" => newState[n] = "Removed"
    BY Zenon DEF Absent
  <1> HIDE DEF newState, newAge, Found, Back
  <1> QED
    BY Zenon, <1>1, <1>3, <1>4, <1>5, <1>6, <1>7, RestampIsGood

\* What record_discovery and promote_joining_members do to a member's state.
LEMMA DiscoveryStates ==
    ASSUME NEW tbl \in Tables, NEW D \in SUBSET Nodes, NEW age \in Ages, NEW n \in Nodes,
           State(RecordDiscovery(tbl, D, age), n) # State(tbl, n)
    PROVE  /\ State(tbl, n) \in {Absent, "Unreachable"}
           /\ State(RecordDiscovery(tbl, D, age), n) \in {"Joining", "Up"}
  BY DEF RecordDiscovery, Restamp, State

\* promote_joining_members
LEMMA PromoteIsGood ==
    ASSUME NEW tbl \in Tables, NEW age \in Ages
    PROVE  /\ GoodStep(tbl, Promote(tbl, age))
           /\ \A n \in Nodes : State(Promote(tbl, age), n) \in {State(tbl, n), "Up"}
  <1> DEFINE newState == [n \in Nodes |-> IF n \in Joining(tbl) THEN "Up" ELSE State(tbl, n)]
             newAge == [n \in Nodes |-> IF n \in Joining(tbl) THEN age ELSE tbl.members[n].age]
  <1>1. CASE HasMinContactPoints(tbl)
    <2>1. Promote(tbl, age) = Restamp(tbl, Joining(tbl), newState, newAge)
      BY <1>1 DEF Promote
    <2>2. newState \in [Nodes -> MemberStates] /\ newAge \in [Nodes -> Ages]
      BY TableParts DEF MemberStates, States
    <2>3. Joining(tbl) \in SUBSET Nodes
      BY DEF Joining
    <2>4. \A n \in Nodes :
            /\ n \in Joining(tbl) <=> newState[n] # State(tbl, n)
            /\ State(tbl, n) = "Down" => newState[n] \in {"Down", "Removed"}
            /\ State(tbl, n) = "Removed" => newState[n] = "Removed"
      BY Zenon DEF Joining
    <2>5. \A n \in Nodes : State(Promote(tbl, age), n) \in {State(tbl, n), "Up"}
      BY <2>1 DEF Restamp, State
    <2> HIDE DEF newState, newAge
    <2> QED
      BY Zenon, <2>1, <2>2, <2>3, <2>4, <2>5, RestampIsGood
  <1>2. CASE ~HasMinContactPoints(tbl)
    BY <1>2, NothingIsGood DEF Promote
  <1> QED
    BY Zenon, <1>1, <1>2

\* Two good steps are one if the second does not undo what the first did.
LEMMA GoodStepsCompose ==
    ASSUME NEW t, NEW u, NEW v, t \in Tables, GoodStep(t, u), GoodStep(u, v),
           \A n \in Nodes : State(u, n) # State(t, n) => State(v, n) # State(t, n)
    PROVE  GoodStep(t, v)
  <1>1. /\ t.revision \in Nat /\ u.revision \in Nat /\ v.revision \in Nat
        /\ \A n \in Nodes : /\ t.members[n].revision \in Nat
                            /\ u.members[n].revision \in Nat
                            /\ v.members[n].revision \in Nat
    BY DEF GoodStep, Tables, MemberRecord
  <1>2. \A n \in Nodes : State(v, n) = State(t, n)
                           => v.members[n].revision = t.members[n].revision
    BY DEF GoodStep
  <1>3. ASSUME DistinctRevisions(t) PROVE DistinctRevisions(v) /\ Tracks(t, v)
    <2>1. DistinctRevisions(u) /\ Tracks(t, u) /\ DistinctRevisions(v) /\ Tracks(u, v)
      BY <1>3 DEF GoodStep
    <2>2. v.revision >= t.revision
      BY <1>1, <2>1 DEF Tracks
    <2>3. ASSUME NEW n \in Nodes
          PROVE  State(v, n) # State(t, n) <=> v.members[n].revision > t.revision
      <3>1. CASE State(v, n) # State(u, n)
        BY <1>1, <2>1, <3>1 DEF Tracks, GoodStep
      <3>2. CASE State(v, n) = State(u, n)
        <4>1. v.members[n].revision = u.members[n].revision
          BY <3>2 DEF GoodStep
        <4> QED
          BY Zenon, <2>1, <3>2, <4>1 DEF Tracks
      <3> QED
        BY Zenon, <3>1, <3>2
    <2> QED
      BY Zenon, <2>1, <2>2, <2>3 DEF Tracks
  <1>4. Buries(t, v)
    BY DEF GoodStep, Buries
  <1> QED
    BY Zenon, <1>2, <1>3, <1>4 DEF GoodStep

\* transition(), for target states that bring no downed or removed member back
LEMMA TransitionIsGood ==
    ASSUME NEW tbl \in Tables, NEW n \in Nodes, NEW age \in Ages,
           NEW to \in States, NEW From \in SUBSET States,
           "Down" \in From => to \in {"Down", "Removed"}, "Removed" \notin From
    PROVE  GoodStep(tbl, Transition(tbl, n, age, to, From))
  <1> DEFINE S == IF State(tbl, n) \in From \ {to} THEN {n} ELSE {}
             newState == [m \in Nodes |-> IF m = n THEN to ELSE State(tbl, m)]
             newAge == [m \in Nodes |-> IF m = n THEN age ELSE tbl.members[m].age]
  <1>1. CASE TransitionOk(tbl, n, to, From)
    <2>1. Transition(tbl, n, age, to, From) = Restamp(tbl, S, newState, newAge)
      BY <1>1 DEF Transition
    <2>2. newState \in [Nodes -> MemberStates] /\ newAge \in [Nodes -> Ages]
      BY TableParts DEF MemberStates
    <2>3. S \in SUBSET Nodes
      OBVIOUS
    <2>4. \A m \in Nodes :
            /\ m \in S <=> newState[m] # State(tbl, m)
            /\ State(tbl, m) = "Down" => newState[m] \in {"Down", "Removed"}
            /\ State(tbl, m) = "Removed" => newState[m] = "Removed"
      BY <1>1 DEF TransitionOk
    <2> HIDE DEF S, newState, newAge
    <2> QED
      BY <2>1, <2>2, <2>3, <2>4, RestampIsGood
  <1>2. CASE ~TransitionOk(tbl, n, to, From)
    BY <1>2, NothingIsGood DEF Transition
  <1> QED
    BY Zenon, <1>1, <1>2

\* mark_up, mark_leaving, mark_unreachable, mark_down and remove
LEMMA MarksAreGood ==
    ASSUME NEW tbl \in Tables, NEW n \in Nodes, NEW age \in Ages
    PROVE  /\ GoodStep(tbl, MarkUp(tbl, n, age))
           /\ GoodStep(tbl, MarkLeaving(tbl, n, age))
           /\ GoodStep(tbl, MarkUnreachable(tbl, n, age))
           /\ GoodStep(tbl, MarkDown(tbl, n, age))
           /\ GoodStep(tbl, RemoveMember(tbl, n, age))
  <1>1. GoodStep(tbl, MarkUp(tbl, n, age))
    BY TransitionIsGood DEF MarkUp, UpFrom, States
  <1>2. GoodStep(tbl, MarkLeaving(tbl, n, age))
    BY TransitionIsGood DEF MarkLeaving, LeavingFrom, States
  <1>3. GoodStep(tbl, MarkUnreachable(tbl, n, age))
    BY TransitionIsGood DEF MarkUnreachable, UnreachableFrom, States
  <1>4. GoodStep(tbl, MarkDown(tbl, n, age))
    BY TransitionIsGood DEF MarkDown, DownFrom, States
  <1>5. GoodStep(tbl, RemoveMember(tbl, n, age))
    BY TransitionIsGood DEF RemoveMember, RemovedFrom, States
  <1> QED
    BY Zenon, <1>1, <1>2, <1>3, <1>4, <1>5

\* heartbeat
LEMMA HeartbeatIsGood ==
    ASSUME NEW tbl \in Tables, NEW n \in Nodes, NEW age \in Ages
    PROVE  GoodStep(tbl, Heartbeat(tbl, n, age))
  <1> DEFINE S == IF State(tbl, n) = "Unreachable" THEN {n} ELSE {}
             newState == [m \in Nodes |-> IF m = n /\ State(tbl, n) = "Unreachable"
                                          THEN "Up" ELSE State(tbl, m)]
             newAge == [m \in Nodes |-> IF m = n THEN age ELSE tbl.members[m].age]
  <1>1. CASE ~HeartbeatFails(tbl, n)
    <2>1. Heartbeat(tbl, n, age) = Restamp(tbl, S, newState, newAge)
      BY <1>1 DEF Heartbeat
    <2>2. newState \in [Nodes -> MemberStates] /\ newAge \in [Nodes -> Ages]
      BY TableParts DEF MemberStates, States
    <2>3. S \in SUBSET Nodes
      OBVIOUS
    <2>4. \A m \in Nodes :
            /\ m \in S <=> newState[m] # State(tbl, m)
            /\ State(tbl, m) = "Down" => newState[m] \in {"Down", "Removed"}
            /\ State(tbl, m) = "Removed" => newState[m] = "Removed"
      OBVIOUS
    <2> HIDE DEF S, newState, newAge
    <2> QED
      BY Zenon, <2>1, <2>2, <2>3, <2>4, RestampIsGood
  <1>2. CASE HeartbeatFails(tbl, n)
    BY Zenon, <1>2, NothingIsGood DEF Heartbeat
  <1> QED
    BY Zenon, <1>1, <1>2

\* tick
LEMMA TickIsGood ==
    ASSUME NEW tbl \in Tables
    PROVE  GoodStep(tbl, Tick(tbl))
  <1> DEFINE S == Suspects(tbl) \cup Dead(tbl)
             newState == [n \in Nodes |-> IF n \in Suspects(tbl) THEN "Unreachable"
                                          ELSE IF n \in Dead(tbl) THEN "Down" ELSE State(tbl, n)]
             newAge == [n \in Nodes |-> tbl.members[n].age]
  <1>1. Tick(tbl) = Restamp(tbl, S, newState, newAge)
    BY DEF Tick
  <1>2. newState \in [Nodes -> MemberStates] /\ newAge \in [Nodes -> Ages]
    BY TableParts DEF MemberStates, States
  <1>3. S \in SUBSET Nodes
    BY Zenon DEF Suspects, Dead
  <1>4. \A n \in Nodes :
          /\ n \in S <=> newState[n] # State(tbl, n)
          /\ State(tbl, n) = "Down" => newState[n] \in {"Down", "Removed"}
          /\ State(tbl, n) = "Removed" => newState[n] = "Removed"
    BY DEF Suspects, Dead
  <1> HIDE DEF S, newState, newAge
  <1> QED
    BY Zenon, <1>1, <1>2, <1>3, <1>4, RestampIsGood

\* The passing of time changes ages only.
LEMMA ElapseIsGood ==
    ASSUME NEW tbl \in Tables
    PROVE  GoodStep(tbl, Elapse(tbl))
  <1> DEFINE new == Elapse(tbl)
  <1>1. DownThreshold \in Nat
    BY ConfigAssumption DEF DownThreshold
  <1>2. \A age \in Ages : Older(age) \in Ages
    BY <1>1 DEF Ages, Older
  <1>3. \A n \in Nodes :
          (IF State(tbl, n) = Absent THEN tbl.members[n]
           ELSE [tbl.members[n] EXCEPT !.age = Older(@)]) \in MemberRecord
    BY <1>2 DEF Tables, MemberRecord, State
  <1>4. /\ new.revision = tbl.revision
        /\ \A n \in Nodes : /\ State(new, n) = State(tbl, n)
                            /\ new.members[n].revision = tbl.members[n].revision
    BY DEF Elapse, State, Tables, MemberRecord
  <1>5. new \in Tables
    BY Zenon, <1>3 DEF Elapse, Tables
  <1> HIDE DEF new
  <1>6. DistinctRevisions(tbl) => DistinctRevisions(new) /\ Tracks(tbl, new)
    <2> SUFFICES ASSUME DistinctRevisions(tbl)
                 PROVE  DistinctRevisions(new) /\ Tracks(tbl, new)
      OBVIOUS
    <2>1. tbl.revision \in Nat /\ \A n \in Nodes : tbl.members[n].revision \in Nat
      BY DEF Tables, MemberRecord
    <2> QED
      BY <1>4, <2>1 DEF DistinctRevisions, Tracks
  <1>7. Buries(tbl, new)
    BY <1>4 DEF Buries
  <1> QED
    BY <1>4, <1>5, <1>6, <1>7 DEF GoodStep, new

------------------------------------------------------------------------------
\* Every step of the state machine is a good step of its table.
LEMMA StepIsGood ==
    ASSUME TypeOK, [Next]_vars
    PROVE  GoodStep(table, table') /\ silent' \subseteq Nodes
  <1>1. table \in Tables /\ silent \subseteq Nodes
    BY DEF TypeOK
  <1>2. Lags \subseteq Ages /\ 0 \in Ages
    BY BoundsAssumption, ConfigAssumption DEF Lags, Ages, DownThreshold
  <1>3. CASE Observe
    <2>1. PICK age \in Lags :
            \/ \E S \in SUBSET (Nodes \ silent) : RecordOnly(S, age) \/ ApplyDiscovery(S, age)
            \/ \E n \in Nodes \ silent : ObserveHeartbeat(n, age) \/ CallMarkUp(n, age)
      BY <1>3 DEF Observe
    <2>2. age \in Ages
      BY <1>2
    <2>3. ASSUME NEW S \in SUBSET (Nodes \ silent), RecordOnly(S, age)
          PROVE  GoodStep(table, table') /\ silent' = silent
      BY Zenon, <1>1, <2>2, <2>3, DiscoveryIsGood DEF RecordOnly
    <2>4. ASSUME NEW S \in SUBSET (Nodes \ silent), ApplyDiscovery(S, age)
          PROVE  GoodStep(table, table') /\ silent' = silent
      <3> DEFINE found == RecordDiscovery(table, S, age)
      <3>1. S \in SUBSET Nodes
        BY Zenon
      <3>2. GoodStep(table, found) /\ found \in Tables
        BY Zenon, <1>1, <2>2, <3>1, DiscoveryIsGood DEF GoodStep
      <3>3. \A n \in Nodes : State(found, n) # State(table, n)
              => /\ State(table, n) \in {Absent, "Unreachable"}
                 /\ State(found, n) \in {"Joining", "Up"}
        BY Zenon, <1>1, <2>2, <3>1, DiscoveryStates
      <3>4. silent' = silent /\ table' \in {found, Promote(found, age)}
        BY <2>4 DEF ApplyDiscovery
      <3> HIDE DEF found
      <3>5. /\ GoodStep(found, Promote(found, age))
            /\ \A n \in Nodes : State(Promote(found, age), n) \in {State(found, n), "Up"}
        BY Zenon, <2>2, <3>2, PromoteIsGood
      <3>6. \A n \in Nodes : State(found, n) # State(table, n)
                => State(Promote(found, age), n) # State(table, n)
        BY Zenon, <3>3, <3>5 DEF Absent
      <3>7. GoodStep(table, Promote(found, age))
        BY <1>1, <3>2, <3>5, <3>6, GoodStepsCompose
      <3> QED
        BY <3>2, <3>4, <3>7
    <2>5. ASSUME NEW n \in Nodes \ silent, ObserveHeartbeat(n, age) \/ CallMarkUp(n, age)
          PROVE  GoodStep(table, table') /\ silent' = silent
      BY Zenon, <1>1, <2>2, <2>5, HeartbeatIsGood, MarksAreGood DEF ObserveHeartbeat, CallMarkUp
    <2> QED
      BY Zenon, <1>1, <2>1, <2>3, <2>4, <2>5
  <1>4. CASE Command
    BY Zenon, <1>1, <1>2, <1>4, MarksAreGood
       DEF Command, CallMarkUnreachable, CallMarkLeaving, CallMarkDown, CallRemove
  <1>5. CASE RunTick \/ TimePasses
    BY Zenon, <1>1, <1>5, TickIsGood, ElapseIsGood DEF RunTick, TimePasses
  <1>6. CASE \E n \in Mortal : FallSilent(n)
    BY <1>1, <1>6, NothingIsGood, BoundsAssumption DEF FallSilent
  <1>7. CASE UNCHANGED vars
    BY <1>1, <1>7, NothingIsGood DEF vars
  <1> QED
    BY Zenon, <1>3, <1>4, <1>5, <1>6, <1>7 DEF Next

\* The table is well formed in every reachable state.
THEOREM TypeCorrect == Spec => []TypeOK
  <1>1. Init => TypeOK
    <2>1. 0 \in Ages
      BY ConfigAssumption DEF Ages, DownThreshold
    <2>2. \A n \in Nodes : [state |-> IF n = Local THEN "Joining" ELSE Absent, age |-> 0,
                            revision |-> 0] \in MemberRecord
      BY Zenon, <2>1 DEF MemberRecord, States
    <2>3. NewTable \in Tables
      BY <2>2 DEF NewTable, Tables
    <2> QED
      BY <2>3 DEF Init, TypeOK
  <1>2. TypeOK /\ [Next]_vars => TypeOK'
    BY StepIsGood DEF TypeOK, GoodStep
  <1> QED
    BY <1>1, <1>2, PTL DEF Spec

\* A record's revision names the one change that last touched it.
THEOREM RevisionsAreDistinct == Spec => []RevisionsIdentifyChanges
  <1>1. RevisionsIdentifyChanges <=> DistinctRevisions(table)
    BY DEF RevisionsIdentifyChanges, DistinctRevisions
  <1>2. Init => DistinctRevisions(table)
    BY DEF Init, NewTable, DistinctRevisions
  <1>3. TypeOK /\ DistinctRevisions(table) /\ [Next]_vars => DistinctRevisions(table)'
    BY StepIsGood DEF GoodStep, DistinctRevisions
  <1> QED
    BY <1>1, <1>2, <1>3, TypeCorrect, PTL DEF Spec

\* A downed or removed incarnation never becomes a member again.
THEOREM DownIsFinal == Spec => NoResurrection
  <1>1. TypeOK /\ [Next]_vars
            => [\A n \in Nodes :
                  /\ State(table, n) = "Down" => State(table, n)' \in {"Down", "Removed"}
                  /\ State(table, n) = "Removed" => State(table, n)' = "Removed"]_vars
    BY StepIsGood DEF GoodStep, Buries, State
  <1> QED
    BY <1>1, TypeCorrect, PTL DEF Spec, NoResurrection

\* A reader of the table finds what changed by comparing revisions.
THEOREM RevisionsFindChanges == Spec => RevisionsTrackChanges
  <1>1. TypeOK /\ RevisionsIdentifyChanges /\ [Next]_vars
            => [/\ table'.revision >= table.revision
                /\ \A n \in Nodes :
                    State(table, n)' # State(table, n)
                        <=> table.members[n].revision' > table.revision]_vars
    BY StepIsGood DEF GoodStep, Tracks, State, RevisionsIdentifyChanges, DistinctRevisions
  <1> QED
    BY <1>1, TypeCorrect, RevisionsAreDistinct, PTL DEF Spec, RevisionsTrackChanges

(***************************************************************************)
(* The passes of a coordinator.                                            *)
(***************************************************************************)

(* Natural numbers. *)

\* Every set of natural numbers has a least element.
LEMMA LeastNat ==
    ASSUME NEW T \in SUBSET Nat, T # {}
    PROVE  \E n \in T : \A m \in T : n <= m
<1>1. IsWellFoundedOn(OpToRel(<, Nat), Nat)
  BY ZenonT(30), NatLessThanWellFounded
<1>2. PICK n \in T : \A m \in T : ~(<<m, n>> \in OpToRel(<, Nat))
  BY ZenonT(30), <1>1, WFMin
<1>3. \A m \in T : ~(m < n)
  BY ZenonT(30), <1>2 DEF OpToRel
<1> QED
  BY <1>3

\* So the least element of a nonempty set of numbers is one of its elements.
LEMMA LeastMember ==
    ASSUME NEW S \in SUBSET Nat, S # {}
    PROVE  Min(S) \in S
<1>1. \E n \in S : \A m \in S : n <= m
  BY Zenon, LeastNat
<1> QED
  BY Zenon, <1>1 DEF Min

\* Induction, with the set of the numbers it holds of as a parameter.
LEMMA Induction ==
    ASSUME NEW P \in SUBSET Nat, 0 \in P, \A n \in P : n + 1 \in P
    PROVE  P = Nat
<1> SUFFICES ASSUME Nat \ P # {} PROVE FALSE
  BY ZenonT(30)
<1>1. PICK n \in Nat \ P : \A m \in Nat \ P : n <= m
  BY ZenonT(30), LeastNat
<1>2. n # 0 /\ n - 1 \in Nat /\ n - 1 \in P
  BY <1>1
<1> QED
  BY <1>1, <1>2

LEMMA GreatestNat ==
    ASSUME NEW T \in SUBSET Nat, T # {}, NEW b \in Nat, \A m \in T : m <= b
    PROVE  \E n \in T : \A m \in T : m <= n
<1> DEFINE U == {k \in Nat : b - k \in T}
<1>1. U # {}
  <2>1. PICK m \in T : m \in Nat /\ m <= b
    BY ZenonT(30)
  <2>2. b - m \in Nat /\ b - (b - m) = m
    BY <2>1
  <2> QED
    BY ZenonT(30), <2>1, <2>2
<1>2. PICK k \in U : \A j \in U : k <= j
  BY ZenonT(30), <1>1, LeastNat
<1>3. b - k \in T /\ k \in Nat
  BY <1>2
<1>4. ASSUME NEW m \in T PROVE m <= b - k
  <2>1. m \in Nat /\ b - m \in Nat /\ b - (b - m) = m
    OBVIOUS
  <2>2. k <= b - m
    BY ZenonT(30), <1>2, <2>1
  <2> QED
    BY <1>3, <2>1, <2>2
<1> QED
  BY <1>3, <1>4

\* The rounds of a loop over states of S, and the states f it goes through.
IsStep(N, S, next) == next \in [(1..N) \X S -> S]

IsRun(N, S, first, next, f) ==
    f \in [0..N -> S] /\ f[0] = first /\ \A k \in 1..N : f[k] = next[<<k, f[k - 1]>>]

\* A loop of N rounds, given by its first state and its rounds, has a run.
LEMMA Rounds ==
    ASSUME NEW N \in Nat, NEW S, NEW first \in S, NEW next, IsStep(N, S, next)
    PROVE  \E f : IsRun(N, S, first, next, f)
<1> next \in [(1..N) \X S -> S]
  BY DEF IsStep
<1> DEFINE Runs(n, f) == /\ f \in [0..n -> S] /\ f[0] = first
                         /\ \A k \in 1..n : f[k] = next[<<k, f[k - 1]>>]
           P == {n \in Nat : n <= N => \E f : Runs(n, f)}
<1>1. 0 \in P
  <2> DEFINE f == [k \in 0..0 |-> first]
  <2>1. Runs(0, f)
    OBVIOUS
  <2> QED
    BY ZenonT(30), <2>1
<1>2. ASSUME NEW n \in P PROVE n + 1 \in P
  <2> SUFFICES ASSUME n + 1 <= N PROVE \E f : Runs(n + 1, f)
    OBVIOUS
  <2>1. n \in Nat /\ n <= N
    OBVIOUS
  <2>2. PICK f : Runs(n, f)
    BY Zenon, <2>1
  <2> DEFINE g == [k \in 0..(n + 1) |-> IF k = n + 1 THEN next[<<n + 1, f[n]>>] ELSE f[k]]
  <2>3. f \in [0..n -> S] /\ f[n] \in S /\ next[<<n + 1, f[n]>>] \in S
    <3>1. f \in [0..n -> S] /\ f[n] \in S
      BY <2>1, <2>2
    <3>2. <<n + 1, f[n]>> \in (1..N) \X S
      BY <2>1, <3>1
    <3> QED
      BY Zenon, <3>1, <3>2
  <2>4. g \in [0..(n + 1) -> S] /\ g[0] = first
    BY <2>1, <2>2, <2>3
  <2>5. ASSUME NEW k \in 1..(n + 1) PROVE g[k] = next[<<k, g[k - 1]>>]
    <3>1. CASE k = n + 1
      <4>1. k - 1 = n /\ n \in 0..(n + 1) /\ k \in 0..(n + 1) /\ n # n + 1
        BY <2>1, <3>1
      <4>2. g[k] = next[<<n + 1, f[n]>>] /\ g[n] = f[n]
        BY Zenon, <3>1, <4>1
      <4> QED
        BY Zenon, <3>1, <4>1, <4>2
    <3>2. CASE k # n + 1
      BY <2>1, <2>2, <3>2
    <3> QED
      BY Zenon, <3>1, <3>2
  <2>6. Runs(n + 1, g)
    BY ZenonT(30), <2>4, <2>5
  <2> HIDE DEF g
  <2> QED
    BY Zenon, <2>6
<1> HIDE DEF P
<1>3. P = Nat
  <2>1. P \in SUBSET Nat
    BY DEF P
  <2> QED
    BY Zenon, <1>1, <1>2, <2>1, Induction
<1>4. PICK f : Runs(N, f)
  <2>1. N \in P
    BY <1>3
  <2> QED
    BY <2>1 DEF P
<1> QED
  BY <1>4 DEF IsRun
------------------------------------------------------------------------------
(* The two strategies choose routable nodes. *)

LEMMA Basics ==
    /\ Shards \subseteq Nat /\ IsFiniteSet(Shards) /\ Cardinality(Shards) = NumShards
    /\ NumShards \in Nat \ {0} /\ NoOwner \notin Hosts /\ MaxMoves \in Nat
    /\ \A R \in SUBSET Hosts : R \subseteq Nat /\ IsFiniteSet(R) /\ NoOwner \notin R
    /\ \A T \in SUBSET Shards : /\ IsFiniteSet(T) /\ Cardinality(T) \in Nat
                                /\ Cardinality(T) <= NumShards
<1>1. /\ Hosts \subseteq Nat \ {0} /\ IsFiniteSet(Hosts) /\ NumShards \in Nat \ {0} /\ MaxMoves \in Nat
  BY AllocationAssumption
<1>2. Shards \subseteq Nat /\ IsFiniteSet(Shards) /\ Cardinality(Shards) = NumShards
  BY <1>1, FS_Interval DEF Shards
<1>3. \A R \in SUBSET Hosts : R \subseteq Nat /\ IsFiniteSet(R) /\ NoOwner \notin R
  BY ZenonT(30), <1>1, FS_Subset DEF NoOwner
<1>4. ASSUME NEW T \in SUBSET Shards
      PROVE  IsFiniteSet(T) /\ Cardinality(T) \in Nat /\ Cardinality(T) <= NumShards
  <2>1. IsFiniteSet(T) /\ Cardinality(T) <= Cardinality(Shards)
    BY ZenonT(30), <1>2, FS_Subset
  <2> QED
    BY <1>2, <2>1, FS_CardinalityType
<1> QED
  BY Zenon, <1>1, <1>2, <1>3, <1>4 DEF NoOwner

\* Every rank below the number of nodes is the rank of one of them.
LEMMA Ranked ==
    ASSUME NEW R \in SUBSET Hosts, NEW j \in Nat, j < Cardinality(R)
    PROVE  \E n \in R : Cardinality({m \in R : m < n}) = j
<1> DEFINE Below(n) == {m \in R : m < n}
           P == {i \in Nat : i < Cardinality(R) => \E n \in R : Cardinality(Below(n)) = i}
<1>1. R \subseteq Nat /\ IsFiniteSet(R) /\ Cardinality(R) \in Nat
  BY Basics, FS_CardinalityType
<1>2. \A n : IsFiniteSet(Below(n)) /\ Cardinality(Below(n)) \in Nat
  <2> SUFFICES ASSUME NEW n PROVE IsFiniteSet(Below(n)) /\ Cardinality(Below(n)) \in Nat
    OBVIOUS
  <2>1. IsFiniteSet(Below(n))
    BY <1>1, FS_Subset
  <2> QED
    BY <2>1, FS_CardinalityType
<1>3. 0 \in P
  <2> SUFFICES ASSUME 0 < Cardinality(R) PROVE \E n \in R : Cardinality(Below(n)) = 0
    OBVIOUS
  <2>1. R # {}
    BY FS_EmptySet
  <2>2. PICK n \in R : \A m \in R : n <= m
    BY <1>1, <2>1, LeastNat
  <2>3. Below(n) = {}
    <3>1. \A m \in R : ~(m < n)
      BY <1>1, <2>2
    <3> QED
      BY <3>1
  <2> QED
    BY <2>3, FS_EmptySet
<1>4. ASSUME NEW i \in P PROVE i + 1 \in P
  <2> SUFFICES ASSUME i + 1 < Cardinality(R) PROVE \E n \in R : Cardinality(Below(n)) = i + 1
    OBVIOUS
  <2>1. PICK n \in R : Cardinality(Below(n)) = i
    BY <1>1
  <2> DEFINE L == Below(n) \cup {n}
             G == {m \in R : n < m}
  <2>2. Cardinality(L) = i + 1 /\ L \subseteq R
    <3>1. n \notin Below(n) /\ n \in Nat
      BY <1>1
    <3> QED
      BY <1>2, <2>1, <3>1, FS_AddElement
  <2>3. G # {}
    <3>1. L # R
      BY <1>1, <2>2
    <3>2. PICK m \in R : m \notin L
      BY <2>2, <3>1
    <3>3. n < m
      BY <1>1, <3>2
    <3> QED
      BY Zenon, <3>3
  <2>4. PICK k \in G : \A m \in G : k <= m
    BY ZenonT(30), <1>1, <2>3, LeastNat
  <2>5. Below(k) = L
    <3>1. ASSUME NEW m \in R PROVE m < k <=> m < n \/ m = n
      <4>1. m \in Nat /\ n \in Nat /\ k \in Nat /\ n < k /\ (n < m => k <= m)
        BY Zenon, <1>1, <2>4
      <4> QED
        BY <4>1
    <3> QED
      BY <3>1
  <2> QED
    BY ZenonT(30), <2>2, <2>4, <2>5
<1> HIDE DEF P
<1>5. P = Nat
  <2>1. P \in SUBSET Nat
    BY DEF P
  <2> QED
    BY Zenon, <1>3, <1>4, <2>1, Induction
<1> QED
  BY <1>5 DEF P

LEMMA DesiredIsRoutable ==
    ASSUME NEW R \in SUBSET Hosts, R # {}, NEW s \in Shards
    PROVE  DesiredOwner(R, s) \in R
<1>1. IsFiniteSet(R) /\ Cardinality(R) \in Nat /\ Cardinality(R) # 0 /\ s \in Nat
  BY Zenon, Basics, FS_CardinalityType, FS_EmptySet
<1>2. s % Cardinality(R) \in Nat /\ s % Cardinality(R) < Cardinality(R)
  BY <1>1
<1>3. \E n \in R : Cardinality({m \in R : m < n}) = s % Cardinality(R)
  BY Zenon, <1>2, Ranked
<1> QED
  BY ZenonT(30), <1>3 DEF DesiredOwner

LEMMA Counts ==
    ASSUME NEW R \in SUBSET Hosts, NEW o
    PROVE  /\ OwnerCounts(R, o) \in [R -> Nat]
           /\ \A n \in R : OwnerCounts(R, o)[n] <= NumShards
<1>1. \A n \in R : OwnedBy(o, n) \in SUBSET Shards
  BY DEF OwnedBy
<1> QED
  BY <1>1, Basics DEF OwnerCounts

LEMMA LeastLoaded ==
    ASSUME NEW R \in SUBSET Hosts, R # {}, NEW counts \in [R -> Nat]
    PROVE  MinOwner(counts) \in R
<1> DEFINE C == {counts[n] : n \in R}
<1>1. R \subseteq Nat /\ C # {} /\ C \in SUBSET Nat
  BY Basics
<1>2. PICK c \in C : \A d \in C : c <= d
  BY ZenonT(30), <1>1, LeastNat
<1> DEFINE T == {n \in R : counts[n] = c}
<1>3. T # {} /\ T \in SUBSET Nat
  BY ZenonT(30), <1>1, <1>2
<1>4. PICK n \in T : \A m \in T : n <= m
  BY ZenonT(30), <1>3, LeastNat
<1>5. ASSUME NEW m \in R PROVE counts[n] < counts[m] \/ (counts[n] = counts[m] /\ n <= m)
  <2>1. counts[m] \in Nat /\ counts[n] = c /\ c \in Nat /\ c <= counts[m]
    BY Zenon, <1>1, <1>2, <1>4
  <2>2. counts[m] = c => n <= m
    BY <1>4
  <2> QED
    BY <2>1, <2>2
<1>6. n \in R /\ DOMAIN counts = R
  BY Zenon, <1>4
<1>7. \E k \in DOMAIN counts : \A m \in DOMAIN counts :
         counts[k] < counts[m] \/ (counts[k] = counts[m] /\ k <= m)
  BY Zenon, <1>5, <1>6
<1> QED
  BY Zenon, <1>6, <1>7 DEF MinOwner

LEMMA MostLoaded ==
    ASSUME NEW R \in SUBSET Hosts, R # {}, NEW counts \in [R -> Nat],
           NEW b \in Nat, \A n \in R : counts[n] <= b
    PROVE  MaxOwner(counts) \in R
<1> DEFINE C == {counts[n] : n \in R}
<1>1. R \subseteq Nat /\ C # {} /\ C \in SUBSET Nat /\ \A d \in C : d <= b
  BY Basics
<1>2. PICK c \in C : \A d \in C : d <= c
  BY ZenonT(30), <1>1, GreatestNat
<1> DEFINE T == {n \in R : counts[n] = c}
<1>3. T # {} /\ T \in SUBSET Nat
  BY ZenonT(30), <1>1, <1>2
<1>4. PICK n \in T : \A m \in T : n <= m
  BY ZenonT(30), <1>3, LeastNat
<1>5. ASSUME NEW m \in R PROVE counts[n] > counts[m] \/ (counts[n] = counts[m] /\ n <= m)
  <2>1. counts[m] \in Nat /\ counts[n] = c /\ c \in Nat /\ counts[m] <= c
    BY Zenon, <1>1, <1>2, <1>4
  <2>2. counts[m] = c => n <= m
    BY <1>4
  <2> QED
    BY <2>1, <2>2
<1>6. n \in R /\ DOMAIN counts = R
  BY Zenon, <1>4
<1>7. \E k \in DOMAIN counts : \A m \in DOMAIN counts :
         counts[k] > counts[m] \/ (counts[k] = counts[m] /\ k <= m)
  BY Zenon, <1>5, <1>6
<1> QED
  BY Zenon, <1>6, <1>7 DEF MaxOwner

LEMMA AllocatedIsRoutable ==
    ASSUME NEW R \in SUBSET Hosts, R # {}, NEW strat, NEW o, NEW s \in Shards
    PROVE  Allocate(strat, R, o, s) \in R
<1>1. LeastAllocate(R, o, s) \in R
  BY Counts, LeastLoaded DEF LeastAllocate
<1>2. ModuloAllocate(R, o, s) \in R
  BY Zenon, DesiredIsRoutable DEF ModuloAllocate
<1> QED
  BY Zenon, <1>1, <1>2 DEF Allocate

------------------------------------------------------------------------------
(* The passes of a reconcile. *)

\* Every shard has a routable owner.
Covered(R, o) == o \in [Shards -> R]

\* The healthy shards that a pass moves.
Moved(R, before, after) == {s \in Shards : before[s] \in R /\ after[s] # before[s]}

\* The loop over the shards allocates each orphan and leaves healthy shards alone.
LEMMA OrphansAllocated ==
    ASSUME NEW R \in SUBSET Hosts, R # {}, NEW strat, NEW o \in Ownerships
    PROVE  /\ Covered(R, AllocateOrphans(strat, R, o))
           /\ \A s \in Shards : o[s] \in R => AllocateOrphans(strat, R, o)[s] = o[s]
<1> DEFINE body(q, i) == IF q[i - 1] \in R THEN q
                         ELSE [q EXCEPT ![i - 1] = Allocate(strat, R, q, i - 1)]
           next == [p \in (1..NumShards) \X Ownerships |-> body(p[2], p[1])]
           IsLoop(f) == f = [i \in 0..NumShards |-> IF i = 0 THEN o ELSE body(f[i - 1], i)]
<1>1. \A i \in 1..NumShards : i - 1 \in Shards
  BY Basics DEF Shards
<1>2. \A i \in 1..NumShards, q \in Ownerships : body(q, i) \in Ownerships
  BY Zenon, <1>1, AllocatedIsRoutable DEF Ownerships
<1>3. IsStep(NumShards, Ownerships, next)
  BY <1>2 DEF IsStep
<1>4. \E f : IsLoop(f)
  <2>1. PICK f : IsRun(NumShards, Ownerships, o, next, f)
    <3>1. NumShards \in Nat
      BY Zenon, Basics
    <3> HIDE DEF next
    <3> QED
      BY Zenon, <1>3, <3>1, Rounds
  <2>2. \A k \in 1..NumShards : f[k - 1] \in Ownerships
    BY <2>1, Basics DEF IsRun
  <2>3. \A k \in 1..NumShards : next[<<k, f[k - 1]>>] = body(f[k - 1], k)
    BY Zenon, <2>2
  <2>4. \A k \in 0..NumShards : k = 0 \/ k \in 1..NumShards
    BY Basics
  <2>5. IsLoop(f)
    <3> HIDE DEF next
    <3> QED
      BY ZenonT(30), <2>1, <2>3, <2>4 DEF IsRun
  <2> QED
    BY ZenonT(30), <2>5
<1> DEFINE upTo == CHOOSE f : IsLoop(f)
<1>5. AllocateOrphans(strat, R, o) = upTo[NumShards]
  BY DEF AllocateOrphans
<1>6. IsLoop(upTo)
  BY ZenonT(30), <1>4
<1> HIDE DEF upTo, next
<1>7. upTo[0] = o /\ \A i \in 1..NumShards : upTo[i] = body(upTo[i - 1], i)
  <2>1. /\ NumShards \in Nat /\ 0 \in 0..NumShards
        /\ \A i \in 1..NumShards : i \in 0..NumShards /\ i # 0
    BY Basics
  <2>2. \A i \in 0..NumShards : upTo[i] = IF i = 0 THEN o ELSE body(upTo[i - 1], i)
    <3> HIDE DEF body
    <3> QED
      BY ZenonT(30), <1>6
  <2> HIDE DEF body
  <2> QED
    BY Zenon, <2>1, <2>2
<1> HIDE DEF IsLoop
<1> DEFINE Holds(i) == /\ upTo[i] \in Ownerships
                       /\ \A s \in Shards : o[s] \in R => upTo[i][s] = o[s]
                       /\ \A s \in Shards : s < i => upTo[i][s] \in R
           P == {i \in Nat : i <= NumShards => Holds(i)}
<1>8. 0 \in P
  BY <1>7, Basics
<1>9. ASSUME NEW i \in P PROVE i + 1 \in P
  <2> SUFFICES ASSUME i + 1 <= NumShards PROVE Holds(i + 1)
    OBVIOUS
  <2>1. i \in Shards /\ Holds(i) /\ i + 1 \in 1..NumShards /\ (i + 1) - 1 = i
    BY SMTT(30), Basics DEF Shards
  <2>2. upTo[i + 1] = IF upTo[i][i] \in R THEN upTo[i]
                      ELSE [upTo[i] EXCEPT ![i] = Allocate(strat, R, upTo[i], i)]
    BY <1>7, <2>1
  <2>3. Allocate(strat, R, upTo[i], i) \in R
    BY Zenon, <2>1, AllocatedIsRoutable
  <2>4. \A s \in Shards : s < i + 1 => s < i \/ s = i
    BY <2>1, Basics
  <2> QED
    BY <2>1, <2>2, <2>3, <2>4 DEF Ownerships
<1> HIDE DEF P
<1>10. P = Nat
  <2>1. P \in SUBSET Nat
    BY Zenon DEF P
  <2> QED
    BY Zenon, <1>8, <1>9, <2>1, Induction
<1>11. Holds(NumShards)
  BY Zenon, <1>10, Basics DEF P
<1>12. \A s \in Shards : s < NumShards
  BY Basics DEF Shards
<1> QED
  BY Zenon, <1>5, <1>11, <1>12 DEF Covered, Ownerships

LEMMA ModuloPass ==
    ASSUME NEW R \in SUBSET Hosts, R # {}, NEW o, Covered(R, o)
    PROVE  /\ Covered(R, ModuloRebalance(R, o))
           /\ MaxMoves # 0 => Cardinality(Moved(R, o, ModuloRebalance(R, o))) <= MaxMoves
<1> DEFINE bad == Misplaced(R, o)
           upto(s) == {r \in bad : r <= s}
           moved == {s \in bad : MaxMoves = 0 \/ Cardinality(upto(s)) <= MaxMoves}
           result == ModuloRebalance(R, o)
<1>1. bad \subseteq Shards /\ moved \subseteq bad
  BY Zenon DEF Misplaced
<1>2. result = [s \in Shards |-> IF s \in moved THEN DesiredOwner(R, s) ELSE o[s]]
  BY Zenon DEF ModuloRebalance
<1>3. Covered(R, result)
  BY Zenon, <1>2, DesiredIsRoutable DEF Covered
<1>4. ASSUME MaxMoves # 0 PROVE Cardinality(moved) <= MaxMoves
  <2>1. CASE moved = {}
    <3>1. Cardinality({}) = 0 /\ MaxMoves \in Nat
      BY Zenon, Basics, FS_EmptySet
    <3> HIDE DEF moved
    <3> QED
      BY <2>1, <3>1
  <2>2. CASE moved # {}
    <3>1. moved \in SUBSET Nat /\ \A m \in moved : m <= NumShards
      BY <1>1, Basics DEF Shards
    <3>2. PICK s \in moved : \A m \in moved : m <= s
      BY ZenonT(30), <2>2, <3>1, Basics, GreatestNat
    <3>3. moved \subseteq upto(s) /\ upto(s) \subseteq Shards
      BY Zenon, <1>1, <3>2
    <3>4. Cardinality(upto(s)) <= MaxMoves
      BY Zenon, <1>4, <3>2
    <3>5. IsFiniteSet(upto(s)) /\ Cardinality(upto(s)) \in Nat
      BY <3>3, Basics
    <3>6. Cardinality(moved) <= Cardinality(upto(s)) /\ IsFiniteSet(moved)
      BY ZenonT(30), <3>3, <3>5, FS_Subset
    <3>7. Cardinality(moved) \in Nat
      BY Zenon, <3>6, FS_CardinalityType
    <3> QED
      BY <3>4, <3>5, <3>6, <3>7, Basics
  <2> QED
    BY Zenon, <2>1, <2>2
<1>5. Moved(R, o, result) \subseteq moved
  BY Zenon, <1>2 DEF Moved
<1>6. ASSUME MaxMoves # 0 PROVE Cardinality(Moved(R, o, result)) <= MaxMoves
  <2>1. IsFiniteSet(moved) /\ Cardinality(moved) \in Nat /\ Cardinality(moved) <= MaxMoves
    BY ZenonT(30), <1>1, <1>4, <1>6, Basics
  <2>2. Cardinality(Moved(R, o, result)) <= Cardinality(moved) /\ IsFiniteSet(Moved(R, o, result))
    BY ZenonT(30), <1>5, <2>1, FS_Subset
  <2>3. Cardinality(Moved(R, o, result)) \in Nat
    BY Zenon, <2>2, FS_CardinalityType
  <2> QED
    BY <2>1, <2>2, <2>3, Basics
<1> QED
  BY Zenon, <1>3, <1>6

\* From st to new at most one shard, not moved before, changes owner.
MovesOne(R, st, new) ==
    /\ new \in [own : [Shards -> R], moved : SUBSET Shards]
    /\ \/ new = st
       \/ \E s \in Shards \ st.moved :
            /\ new.moved = st.moved \cup {s}
            /\ \A r \in Shards \ {s} : new.own[r] = st.own[r]

\* One round of the least-shard loop moves at most one shard, to a routable node.
LEMMA LeastRoundKeeps ==
    ASSUME NEW R \in SUBSET Hosts, R # {},
           NEW st \in [own : [Shards -> R], moved : SUBSET Shards]
    PROVE  MovesOne(R, st, LeastRound(R, st))
<1> DEFINE counts == OwnerCounts(R, st.own)
           from == MaxOwner(counts)
           to == MinOwner(counts)
           movable == OwnedBy(st.own, from) \ st.moved
           s == Min(movable)
<1>1. to \in R
  BY Counts, LeastLoaded
<1>2. st.own \in [Shards -> R] /\ st.moved \in SUBSET Shards
  OBVIOUS
<1>3. movable \subseteq Shards /\ movable \cap st.moved = {}
  BY DEF OwnedBy
<1>4. CASE LeastRound(R, st) = st
  BY Zenon, <1>4 DEF MovesOne
<1>5. CASE LeastRound(R, st) # st
  <2>1. /\ movable # {}
        /\ LeastRound(R, st) = [own |-> [st.own EXCEPT ![s] = to], moved |-> st.moved \cup {s}]
    BY <1>5 DEF LeastRound
  <2>2. s \in movable
    <3>1. movable \in SUBSET Nat
      BY ZenonT(30), <1>3, Basics
    <3> HIDE DEF movable
    <3> QED
      BY Zenon, <2>1, <3>1, LeastMember
  <2> HIDE DEF s, to
  <2>3. s \in Shards \ st.moved
    BY <1>3, <2>2
  <2>4. [st.own EXCEPT ![s] = to] \in [Shards -> R]
    BY ZenonT(30), <1>1, <1>2
  <2>5. \A r \in Shards \ {s} : [st.own EXCEPT ![s] = to][r] = st.own[r]
    BY Zenon, <1>2
  <2> QED
    BY <1>2, <2>1, <2>3, <2>4, <2>5 DEF MovesOne
<1> QED
  BY Zenon, <1>4, <1>5

LEMMA LeastPass ==
    ASSUME NEW R \in SUBSET Hosts, R # {}, NEW o, Covered(R, o)
    PROVE  /\ Covered(R, LeastRebalance(R, o))
           /\ Cardinality(Moved(R, o, LeastRebalance(R, o))) <= MaxMoves
<1> DEFINE St == [own : [Shards -> R], moved : SUBSET Shards]
           first == [own |-> o, moved |-> {}]
           next == [p \in (1..MaxMoves) \X St |-> LeastRound(R, p[2])]
           IsLoop(f) == f = [k \in 0..MaxMoves |-> IF k = 0 THEN [own |-> o, moved |-> {}]
                                                   ELSE LeastRound(R, f[k - 1])]
<1>1. first \in St /\ MaxMoves \in Nat
  BY Zenon, Basics DEF Covered
<1>2. IsStep(MaxMoves, St, next)
  <2>1. \A st \in St : LeastRound(R, st) \in St
    BY Zenon, LeastRoundKeeps DEF MovesOne
  <2> QED
    BY <2>1 DEF IsStep
<1>3. \E f : IsLoop(f)
  <2>1. PICK f : IsRun(MaxMoves, St, first, next, f)
    <3> HIDE DEF next, St, first
    <3> QED
      BY Zenon, <1>1, <1>2, Rounds
  <2>2. \A k \in 1..MaxMoves : f[k - 1] \in St
    BY <1>1, <2>1 DEF IsRun
  <2>3. \A k \in 1..MaxMoves : next[<<k, f[k - 1]>>] = LeastRound(R, f[k - 1])
    BY Zenon, <2>2
  <2>4. \A k \in 0..MaxMoves : k = 0 \/ k \in 1..MaxMoves
    BY <1>1
  <2>5. IsLoop(f)
    <3> HIDE DEF next
    <3> QED
      BY ZenonT(30), <2>1, <2>3, <2>4 DEF IsRun
  <2> QED
    BY ZenonT(30), <2>5
<1> DEFINE round == CHOOSE f : IsLoop(f)
<1>4. LeastRebalance(R, o) = round[MaxMoves].own
  BY DEF LeastRebalance
<1>5. IsLoop(round)
  BY ZenonT(30), <1>3
<1> HIDE DEF round, next
<1>6. round[0] = first /\ \A k \in 1..MaxMoves : round[k] = LeastRound(R, round[k - 1])
  <2>1. 0 \in 0..MaxMoves /\ \A k \in 1..MaxMoves : k \in 0..MaxMoves /\ k # 0
    BY <1>1
  <2>2. \A k \in 0..MaxMoves : round[k] = IF k = 0 THEN first ELSE LeastRound(R, round[k - 1])
    BY ZenonT(30), <1>5
  <2> HIDE DEF first
  <2> QED
    BY Zenon, <2>1, <2>2
<1> HIDE DEF IsLoop
<1> DEFINE Holds(k) == /\ round[k] \in St
                       /\ Cardinality(round[k].moved) <= k
                       /\ \A s \in Shards \ round[k].moved : round[k].own[s] = o[s]
           P == {k \in Nat : k <= MaxMoves => Holds(k)}
<1>7. 0 \in P
  BY <1>1, <1>6, FS_EmptySet
<1>8. ASSUME NEW k \in P PROVE k + 1 \in P
  <2> SUFFICES ASSUME k + 1 <= MaxMoves PROVE Holds(k + 1)
    OBVIOUS
  <2>1. k \in Nat /\ Holds(k) /\ k + 1 \in 1..MaxMoves /\ (k + 1) - 1 = k
    BY <1>1
  <2> DEFINE st == round[k]
             new == round[k + 1]
  <2>2. new = LeastRound(R, st) /\ st \in St
    BY Zenon, <1>6, <2>1
  <2> HIDE DEF st, new
  <2>3. /\ new \in St
        /\ \/ new = st
           \/ \E s \in Shards \ st.moved :
                /\ new.moved = st.moved \cup {s}
                /\ \A r \in Shards \ {s} : new.own[r] = st.own[r]
    <3>1. MovesOne(R, st, new)
      BY Zenon, <2>2, LeastRoundKeeps
    <3> QED
      BY Zenon, <3>1 DEF MovesOne
  <2>4. /\ IsFiniteSet(st.moved) /\ Cardinality(st.moved) \in Nat /\ Cardinality(st.moved) <= k
        /\ \A s \in Shards \ st.moved : st.own[s] = o[s]
    BY Zenon, <2>1, <2>2, Basics DEF st
  <2>5. CASE new = st
    BY <2>1, <2>3, <2>4, <2>5 DEF new
  <2>6. CASE \E s \in Shards \ st.moved :
                /\ new.moved = st.moved \cup {s}
                /\ \A r \in Shards \ {s} : new.own[r] = st.own[r]
    <3>1. PICK s \in Shards \ st.moved :
                /\ new.moved = st.moved \cup {s}
                /\ \A r \in Shards \ {s} : new.own[r] = st.own[r]
      BY <2>6
    <3>2. Cardinality(new.moved) = Cardinality(st.moved) + 1
      BY ZenonT(30), <2>4, <3>1, FS_AddElement
    <3>3. Cardinality(new.moved) <= k + 1
      BY <2>1, <2>4, <3>2
    <3>4. \A r \in Shards \ new.moved : new.own[r] = o[r]
      BY Zenon, <2>4, <3>1
    <3> QED
      BY Zenon, <2>3, <3>3, <3>4 DEF new
  <2> QED
    BY Zenon, <2>3, <2>5, <2>6
<1> HIDE DEF P
<1>9. P = Nat
  <2>1. P \in SUBSET Nat
    BY Zenon DEF P
  <2> QED
    BY Zenon, <1>7, <1>8, <2>1, Induction
<1>10. Holds(MaxMoves)
  BY <1>1, <1>9 DEF P
<1> DEFINE last == round[MaxMoves]
<1>11. Moved(R, o, last.own) \subseteq last.moved /\ last.moved \in SUBSET Shards
  BY Zenon, <1>10 DEF Moved
<1>12. Cardinality(Moved(R, o, last.own)) <= MaxMoves
  <2>1. IsFiniteSet(last.moved) /\ Cardinality(last.moved) \in Nat
    BY Zenon, <1>11, Basics
  <2>2. Cardinality(Moved(R, o, last.own)) <= Cardinality(last.moved)
        /\ IsFiniteSet(Moved(R, o, last.own))
    BY Zenon, <1>11, <2>1, FS_Subset
  <2>3. Cardinality(Moved(R, o, last.own)) \in Nat
    BY Zenon, <2>2, FS_CardinalityType
  <2> QED
    BY <1>1, <1>10, <2>1, <2>2, <2>3
<1> QED
  BY Zenon, <1>4, <1>10, <1>12 DEF Covered

\* What a pass with some node routable does, whatever map it starts from.
LEMMA PassFacts ==
    ASSUME NEW R \in SUBSET Hosts, R # {}, NEW o \in Ownerships
    PROVE  /\ Covered(R, Reconcile(R, o))
           /\ Cardinality(Moved(R, o, Reconcile(R, o))) <= MoveLimit
<1> DEFINE strat == IF strategy = "modulo" THEN "modulo" ELSE "least"
           mid == AllocateOrphans(strat, R, o)
           result == IF strategy = "modulo" THEN ModuloRebalance(R, mid) ELSE LeastRebalance(R, mid)
<1>1. Reconcile(R, o) = result
  BY Zenon DEF Reconcile, ModuloReconcile, LeastReconcile
<1>2. Covered(R, mid) /\ \A s \in Shards : o[s] \in R => mid[s] = o[s]
  BY OrphansAllocated
<1> HIDE DEF mid
<1>3. Moved(R, o, result) \subseteq Moved(R, mid, result)
  BY Zenon, <1>2 DEF Moved
<1>4. Moved(R, mid, result) \subseteq Shards /\ MoveLimit \in Nat
  BY Zenon, Basics DEF Moved, MoveLimit
<1>5. /\ Covered(R, result)
      /\ Cardinality(Moved(R, mid, result)) <= MoveLimit
  <2>1. CASE strategy = "modulo"
    <3>1. /\ Covered(R, result)
          /\ MaxMoves # 0 => Cardinality(Moved(R, mid, result)) <= MaxMoves
      BY Zenon, <1>2, <2>1, ModuloPass
    <3>2. MaxMoves = 0 => Cardinality(Moved(R, mid, result)) <= NumShards
      BY <1>4, Basics
    <3> QED
      BY Zenon, <2>1, <3>1, <3>2 DEF MoveLimit
  <2>2. CASE strategy # "modulo"
    <3>1. /\ Covered(R, result)
          /\ Cardinality(Moved(R, mid, result)) <= MaxMoves
      BY Zenon, <1>2, <2>2, LeastPass
    <3> QED
      BY Zenon, <2>2, <3>1 DEF MoveLimit
  <2> QED
    BY <2>1, <2>2
<1> HIDE DEF result
<1>6. /\ IsFiniteSet(Moved(R, mid, result)) /\ Cardinality(Moved(R, mid, result)) \in Nat
  BY Zenon, <1>4, Basics
<1>7. /\ Cardinality(Moved(R, o, result)) <= Cardinality(Moved(R, mid, result))
      /\ IsFiniteSet(Moved(R, o, result))
  BY Zenon, <1>3, <1>6, FS_Subset
<1>8. Cardinality(Moved(R, o, result)) \in Nat
  BY Zenon, <1>7, FS_CardinalityType
<1>9. Cardinality(Moved(R, o, result)) <= MoveLimit
  BY <1>4, <1>5, <1>6, <1>7, <1>8
<1> QED
  BY Zenon, <1>1, <1>5, <1>9

------------------------------------------------------------------------------
(* The theorems. *)

IInv == routable \in SUBSET Hosts /\ own \in Ownerships /\ NoOrphans

LEMMA ReconcileKeeps ==
    ASSUME NEW R \in SUBSET Hosts, NEW o \in Ownerships
    PROVE  /\ Reconcile(R, o) \in Ownerships
           /\ \A s \in Shards : IF R = {} THEN Reconcile(R, o)[s] = NoOwner ELSE Reconcile(R, o)[s] \in R
<1>1. CASE R = {}
  <2>1. Reconcile(R, o) = Unowned
    BY Zenon, <1>1 DEF Reconcile, ModuloReconcile, LeastReconcile
  <2> QED
    BY Zenon, <1>1, <2>1 DEF Unowned, Ownerships
<1>2. CASE R # {}
  <2>1. Reconcile(R, o) \in [Shards -> R]
    BY <1>2, PassFacts DEF Covered
  <2> QED
    BY Zenon, <1>2, <2>1 DEF Ownerships
<1> QED
  BY Zenon, <1>1, <1>2

LEMMA InitHolds ==
    ASSUME RebalanceInit
    PROVE  IInv
<1>1. PICK prior \in Ownerships : own = Reconcile(routable, prior)
  BY DEF RebalanceInit
<1>2. routable \in SUBSET Hosts
  BY Zenon DEF RebalanceInit
<1> QED
  BY ZenonT(30), <1>1, <1>2, ReconcileKeeps DEF IInv, NoOrphans

\* A step reconciles the map, for the view it leaves.
LEMMA StepReconciles ==
    ASSUME IInv, RebalanceNext
    PROVE  routable' \in SUBSET Hosts /\ own' = Reconcile(routable', own) /\ strategy' = strategy
BY DEF IInv, RebalanceNext, Pass, MembershipChange

LEMMA NextKeeps ==
    ASSUME IInv, [RebalanceNext]_rebalanceVars
    PROVE  IInv'
<1>1. CASE RebalanceNext
  <2>1. routable' \in SUBSET Hosts /\ own' = Reconcile(routable', own)
    BY <1>1, StepReconciles
  <2>2. own \in Ownerships
    BY Zenon DEF IInv
  <2> QED
    BY ZenonT(30), <2>1, <2>2, ReconcileKeeps DEF IInv, NoOrphans
<1>2. CASE UNCHANGED rebalanceVars
  BY <1>2 DEF rebalanceVars, IInv, NoOrphans
<1> QED
  BY <1>1, <1>2

\* Whatever the cap, after every pass each shard has a routable owner, or none at all
\* when no node is routable (NoOrphans).
THEOREM OrphanFree == RebalanceSpec => []NoOrphans
<1>1. IInv => NoOrphans
  BY DEF IInv
<1> QED
  BY <1>1, InitHolds, NextKeeps, PTL DEF RebalanceSpec

\* A pass moves at most the configured number of shards whose owner is healthy, for both
\* strategies, every membership change and every map (BoundedMoves).
THEOREM MovesBounded == RebalanceSpec => BoundedMoves
<1>1. ASSUME IInv, [RebalanceNext]_rebalanceVars
      PROVE  [Cardinality({s \in Shards : own[s] \in routable' /\ own'[s] # own[s]})
                <= MoveLimit]_rebalanceVars
  <2> SUFFICES ASSUME RebalanceNext
               PROVE  Cardinality({s \in Shards : own[s] \in routable' /\ own'[s] # own[s]}) <= MoveLimit
    BY Zenon, <1>1
  <2>1. /\ routable' \in SUBSET Hosts /\ own' = Reconcile(routable', own) /\ own \in Ownerships
    BY Zenon, <1>1, StepReconciles DEF IInv
  <2>2. CASE routable' = {}
    <3>1. {s \in Shards : own[s] \in routable' /\ own'[s] # own[s]} = {}
      BY Zenon, <2>2
    <3>2. MoveLimit \in Nat
      BY Zenon, Basics DEF MoveLimit
    <3> QED
      BY <3>1, <3>2, FS_EmptySet
  <2>3. CASE routable' # {}
    <3>1. Cardinality(Moved(routable', own, own')) <= MoveLimit
      BY <2>1, <2>3, PassFacts
    <3> QED
      BY Zenon, <3>1 DEF Moved
  <2> QED
    BY Zenon, <2>2, <2>3
<1> QED
  BY <1>1, InitHolds, NextKeeps, PTL DEF RebalanceSpec, BoundedMoves

==============================================================================
