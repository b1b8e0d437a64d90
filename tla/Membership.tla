----------------------------- MODULE Membership -----------------------------
(***************************************************************************)
(* The membership table of rakka-cluster (struct ClusterMembership) and    *)
(* its operations, as operators from a table to a table.  The state        *)
(* machines that own a table are ClusterMembership (the table on its own,  *)
(* under every order of calls) and ClusterFacade (the table behind the     *)
(* Cluster facade's lock, with its event history and subscribers).         *)
(*                                                                         *)
(* Node ids are integers: the source keeps members in a BTreeMap and a     *)
(* discovery snapshot in id order, and the order decides which revision a  *)
(* record gets and which nodes precede an incompatible one.                *)
(*                                                                         *)
(* The source stamps a record with last_seen_millis and only ever compares *)
(* now.saturating_sub(last_seen_millis) with two timeouts.  A record here  *)
(* carries that difference, its age, capped at the larger timeout: Elapse  *)
(* is the passing of one unit of time.  An operation given a stale         *)
(* timestamp is one whose age argument is positive.                        *)
(***************************************************************************)
EXTENDS Integers, FiniteSets

CONSTANTS
    Nodes,             \* node incarnation ids, a finite set of integers
    Local,             \* the node that owns the table
    Incompatible,      \* nodes whose protocol version the local node rejects
    MinContactPoints,  \* MembershipConfig::min_contact_points
    FailureTimeout,    \* MembershipConfig::failure_timeout, in time units
    DownAfter          \* MembershipConfig::down_after_unreachable

ASSUME NodesAssumption ==
    /\ Nodes \subseteq Int
    /\ IsFiniteSet(Nodes)
    /\ Local \in Nodes
    /\ Incompatible \subseteq Nodes \ {Local}

ASSUME ConfigAssumption ==
    /\ MinContactPoints \in Nat
    /\ FailureTimeout \in Nat
    /\ DownAfter \in Nat

States == {"Joining", "Up", "Leaving", "Unreachable", "Down", "Removed"}

\* A node id with no entry in the BTreeMap.
Absent == "Absent"

\* tick's down_threshold_millis: no comparison tells two larger ages apart.
DownThreshold == FailureTimeout + DownAfter

Ages == 0..DownThreshold

MemberRecord == [state : States \cup {Absent}, age : Ages, revision : Nat]

Tables == [members : [Nodes -> MemberRecord], revision : Nat]

NewTable ==
    [members |-> [n \in Nodes |->
        [state |-> IF n = Local THEN "Joining" ELSE Absent, age |-> 0, revision |-> 0]],
     revision |-> 0]

State(tbl, n) == tbl.members[n].state

ContactPoints(tbl) == {n \in Nodes : State(tbl, n) \notin {Absent, "Down", "Removed"}}

HasMinContactPoints(tbl) == Cardinality(ContactPoints(tbl)) >= MinContactPoints

(***************************************************************************)
(* Every operation that changes states does it for a set of nodes in id    *)
(* order, taking the next table revision for each: the k-th node of        *)
(* Changed gets revision + k.                                              *)
(***************************************************************************)
Rank(S, n) == Cardinality({m \in S : m <= n})

Restamp(tbl, Changed, newState, newAge) ==
    [members |-> [n \in Nodes |->
        [state |-> newState[n],
         age |-> newAge[n],
         revision |-> IF n \in Changed THEN tbl.revision + Rank(Changed, n)
                                       ELSE tbl.members[n].revision]],
     revision |-> tbl.revision + Cardinality(Changed)]

------------------------------------------------------------------------------
\* An incompatible node ends the loop with an error; the nodes before it stay recorded.
Processed(S) == {n \in S : \A m \in S \cap Incompatible : n < m}

DiscoveryFails(S) == S \cap Incompatible # {}

DiscoveryRevivesDown(tbl, S, age) ==
    LET Seen    == Processed(S)
        Found   == {n \in Seen \ {Local} : State(tbl, n) = Absent}
        Back    == {n \in Seen \ {Local} : State(tbl, n) \in {"Unreachable", "Down"}}
        Stamped == {n \in Seen : n = Local \/ State(tbl, n) \notin {"Removed"}}
    IN  Restamp(tbl, Found \cup Back,
            [n \in Nodes |-> IF n \in Found THEN "Joining"
                             ELSE IF n \in Back THEN "Up" ELSE State(tbl, n)],
            [n \in Nodes |-> IF n \in Stamped THEN age ELSE tbl.members[n].age])

RecordDiscovery(tbl, S, age) ==
    LET Seen    == Processed(S)
        Found   == {n \in Seen \ {Local} : State(tbl, n) = Absent}
        Back    == {n \in Seen \ {Local} : State(tbl, n) = "Unreachable"}
        Stamped == {n \in Seen : n = Local \/ State(tbl, n) \notin {"Down", "Removed"}}
    IN  Restamp(tbl, Found \cup Back,
            [n \in Nodes |-> IF n \in Found THEN "Joining"
                             ELSE IF n \in Back THEN "Up" ELSE State(tbl, n)],
            [n \in Nodes |-> IF n \in Stamped THEN age ELSE tbl.members[n].age])

------------------------------------------------------------------------------
(***************************************************************************)
(* transition(): a node already in the target state is only restamped; a   *)
(* transition from a state that is not allowed is an error and changes     *)
(* nothing.                                                                *)
(***************************************************************************)
TransitionOk(tbl, n, to, From) == State(tbl, n) \in From \cup {to}

Transition(tbl, n, age, to, From) ==
    LET Changed == IF State(tbl, n) \in From \ {to} THEN {n} ELSE {}
    IN  IF TransitionOk(tbl, n, to, From)
        THEN Restamp(tbl, Changed,
                 [m \in Nodes |-> IF m = n THEN to ELSE State(tbl, m)],
                 [m \in Nodes |-> IF m = n THEN age ELSE tbl.members[m].age])
        ELSE tbl

UpFrom          == {"Joining", "Unreachable"}
LeavingFrom     == {"Joining", "Up"}
UnreachableFrom == {"Joining", "Up"}
DownFrom        == States \ {"Removed"}
RemovedFrom     == {"Leaving", "Down"}

MarkUp(tbl, n, age)          == Transition(tbl, n, age, "Up", UpFrom)
MarkLeaving(tbl, n, age)     == Transition(tbl, n, age, "Leaving", LeavingFrom)
MarkUnreachable(tbl, n, age) == Transition(tbl, n, age, "Unreachable", UnreachableFrom)
MarkDown(tbl, n, age)        == Transition(tbl, n, age, "Down", DownFrom)
RemoveMember(tbl, n, age)    == Transition(tbl, n, age, "Removed", RemovedFrom)

\* An error for an unknown, downed or removed node, which changes nothing.
HeartbeatFails(tbl, n) == State(tbl, n) \in {Absent, "Down", "Removed"}

HeartbeatKeepsRevision(tbl, n, age) ==
    IF HeartbeatFails(tbl, n)
    THEN tbl
    ELSE Restamp(tbl, {},
             [m \in Nodes |-> IF m = n /\ State(tbl, n) = "Unreachable"
                              THEN "Up" ELSE State(tbl, m)],
             [m \in Nodes |-> IF m = n THEN age ELSE tbl.members[m].age])

Heartbeat(tbl, n, age) ==
    IF HeartbeatFails(tbl, n)
    THEN tbl
    ELSE Restamp(tbl, IF State(tbl, n) = "Unreachable" THEN {n} ELSE {},
             [m \in Nodes |-> IF m = n /\ State(tbl, n) = "Unreachable"
                              THEN "Up" ELSE State(tbl, m)],
             [m \in Nodes |-> IF m = n THEN age ELSE tbl.members[m].age])

\* promote_joining_members: every Joining member, in id order, once enough are known.
Joining(tbl) == {n \in Nodes : State(tbl, n) = "Joining"}

Promote(tbl, age) ==
    IF HasMinContactPoints(tbl)
    THEN Restamp(tbl, Joining(tbl),
             [n \in Nodes |-> IF n \in Joining(tbl) THEN "Up" ELSE State(tbl, n)],
             [n \in Nodes |-> IF n \in Joining(tbl) THEN age ELSE tbl.members[n].age])
    ELSE tbl

------------------------------------------------------------------------------
\* The failure detector of ClusterMembership::tick.
Suspects(tbl) ==
    {n \in Nodes \ {Local} : State(tbl, n) \in {"Joining", "Up"}
                             /\ tbl.members[n].age >= FailureTimeout}

Dead(tbl) ==
    {n \in Nodes \ {Local} : State(tbl, n) = "Unreachable"
                             /\ tbl.members[n].age >= DownThreshold}

TickOnlySuspects(tbl) ==
    Restamp(tbl, Suspects(tbl),
        [n \in Nodes |-> IF n \in Suspects(tbl) THEN "Unreachable" ELSE State(tbl, n)],
        [n \in Nodes |-> tbl.members[n].age])

Tick(tbl) ==
    Restamp(tbl, Suspects(tbl) \cup Dead(tbl),
        [n \in Nodes |-> IF n \in Suspects(tbl) THEN "Unreachable"
                         ELSE IF n \in Dead(tbl) THEN "Down" ELSE State(tbl, n)],
        [n \in Nodes |-> tbl.members[n].age])

\* One unit of time passes.
Older(age) == IF age < DownThreshold THEN age + 1 ELSE age

Elapse(tbl) ==
    [tbl EXCEPT !.members = [n \in Nodes |->
        IF State(tbl, n) = Absent THEN tbl.members[n]
        ELSE [tbl.members[n] EXCEPT !.age = Older(@)]]]
==============================================================================
