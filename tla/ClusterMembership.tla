-------------------------- MODULE ClusterMembership --------------------------
(***************************************************************************)
(* One membership table under every order of the calls the runtimes make   *)
(* on it (ClusterShardingRuntime, and the Cluster facade's manager): the   *)
(* bootstrap from discovery, heartbeats, graceful leave, downing, removal  *)
(* and the failure detector's tick.                                        *)
(*                                                                         *)
(* silent is the environment: nodes that have crashed or been cut off, of  *)
(* which no heartbeat and no discovery entry arrives any more.             *)
(***************************************************************************)
EXTENDS Membership

CONSTANTS
    Mortal,         \* the nodes that may fall silent
    MaxLag,         \* the oldest timestamp an observation is applied with
    MaxRevision     \* bound on the table revision reached by observations

ASSUME BoundsAssumption ==
    /\ Mortal \subseteq Nodes \ {Local}
    /\ MaxLag \in Ages
    /\ MaxRevision \in Nat

VARIABLES
    table,
    silent

vars == <<table, silent>>

Lags == 0..MaxLag

Init ==
    /\ table = NewTable
    /\ silent = {}

\* Bounds the Up / Unreachable flapping of a node that keeps coming back.
Observable == table.revision < MaxRevision

\* ClusterManager::apply_discovery: discovery without promotion.
RecordOnly(S, age) ==
    /\ Observable
    /\ table' = RecordDiscovery(table, S, age)
    /\ UNCHANGED silent

\* ClusterShardingRuntime::apply_discovery and ClusterRuntime::poll_discovery:
\* an incompatible node ends the call before members are promoted.
ApplyDiscovery(S, age) ==
    /\ Observable
    /\ table' = LET t == RecordDiscovery(table, S, age)
                IN  IF DiscoveryFails(S) THEN t ELSE Promote(t, age)
    /\ UNCHANGED silent

ObserveHeartbeat(n, age) ==
    /\ Observable
    /\ table' = Heartbeat(table, n, age)
    /\ UNCHANGED silent

CallMarkUp(n, age) ==
    /\ Observable
    /\ table' = MarkUp(table, n, age)
    /\ UNCHANGED silent

CallMarkLeaving(n, age) ==
    /\ table' = MarkLeaving(table, n, age)
    /\ UNCHANGED silent

\* The only caller, ClusterRuntime::tick, picks Joining and Up members.
CallMarkUnreachable(n) ==
    /\ State(table, n) \in {"Joining", "Up"}
    /\ table' = MarkUnreachable(table, n, 0)
    /\ UNCHANGED silent

CallMarkDown(n, age) ==
    /\ table' = MarkDown(table, n, age)
    /\ UNCHANGED silent

CallRemove(n, age) ==
    /\ table' = RemoveMember(table, n, age)
    /\ UNCHANGED silent

RunTick ==
    /\ table' = Tick(table)
    /\ UNCHANGED silent

TimePasses ==
    /\ table' = Elapse(table)
    /\ UNCHANGED silent

FallSilent(n) ==
    /\ silent' = silent \cup {n}
    /\ UNCHANGED table

Observe ==
    \E age \in Lags :
        \/ \E S \in SUBSET (Nodes \ silent) : RecordOnly(S, age) \/ ApplyDiscovery(S, age)
        \/ \E n \in Nodes \ silent : ObserveHeartbeat(n, age) \/ CallMarkUp(n, age)

Command ==
    \E n \in Nodes :
        \/ CallMarkUnreachable(n)
        \/ \E age \in Lags : CallMarkLeaving(n, age) \/ CallMarkDown(n, age) \/ CallRemove(n, age)

Next ==
    \/ Observe
    \/ Command
    \/ RunTick
    \/ TimePasses
    \/ \E n \in Mortal : FallSilent(n)

Spec == Init /\ [][Next]_vars

(***************************************************************************)
(* The applications that embed the runtime call tick on a timer for as     *)
(* long as they run, and time passes.                                      *)
(***************************************************************************)
FairSpec == Spec /\ WF_vars(RunTick) /\ WF_vars(TimePasses)

------------------------------------------------------------------------------
\* The table is always well formed.
TypeOK ==
    /\ table \in Tables
    /\ silent \subseteq Nodes

(***************************************************************************)
(* MemberRecord::revision is "the membership revision that last changed    *)
(* this record": no two records were changed by the same revision, though  *)
(* discovery, promotion and tick change several records in one call, and   *)
(* no record is ahead of the table.                                        *)
(***************************************************************************)
RevisionsIdentifyChanges ==
    /\ \A n \in Nodes : table.members[n].revision <= table.revision
    /\ \A m, n \in Nodes :
        table.members[m].revision = table.members[n].revision /\ m # n
            => table.members[m].revision = 0

\* A reader that kept the table revision of its last snapshot finds exactly the
\* members whose state a call has changed since by comparing record revisions
\* with it, also when one call discovers and promotes the same member.
RevisionsTrackChanges ==
    [][/\ table'.revision >= table.revision
       /\ \A n \in Nodes :
            State(table, n)' # State(table, n)
                <=> table.members[n].revision' > table.revision]_vars

\* An incarnation that was downed or removed never becomes a member again, in
\* whatever order late heartbeats, discovery snapshots and commands arrive.
NoResurrection ==
    [][\A n \in Nodes :
        /\ State(table, n) = "Down" => State(table, n)' \in {"Down", "Removed"}
        /\ State(table, n) = "Removed" => State(table, n)' = "Removed"]_vars

\* A member that falls silent does not stay a member for ever: it is downed, or
\* it had begun to leave (a Leaving member never times out).
SilentLeavesMembership ==
    \A n \in Mortal :
        (n \in silent /\ State(table, n) \in {"Joining", "Up", "Unreachable"})
            ~> State(table, n) \in {"Leaving", "Down", "Removed"}
==============================================================================
