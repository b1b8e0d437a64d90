---------------------------- MODULE ClusterFacade ----------------------------
(***************************************************************************)
(* The Cluster facade of rakka-cluster: a membership table and an event    *)
(* history behind one mutex, a broadcast channel of events, the manager's  *)
(* commands, the runtime's discovery poll and failure tick, and one        *)
(* subscription.                                                           *)
(*                                                                         *)
(* Several threads call the facade.  Cluster::update_at changes the table  *)
(* and appends to the history while it holds the mutex, but sends the      *)
(* events after it has released it: outbox[t] holds the events thread t    *)
(* has still to send, and a subscription may be taken in between.          *)
(*                                                                         *)
(* An event is the member record it carries; the kind of event follows     *)
(* from the record and is left out.  cluster_event_for reads the record    *)
(* after the whole command, so both events of a join carry the final one.  *)
(***************************************************************************)
EXTENDS Membership, Sequences, SequencesExt

CONSTANTS
    Threads,      \* callers of the facade
    Seeds,        \* ClusterSettings::seed_nodes, in the configured order
    CounterAge,   \* how old a stamp of the facade's own counter looks to tick
    Capacity,     \* CLUSTER_EVENT_CAPACITY, the broadcast channel's buffer
    MaxUpdates    \* bound on the number of facade calls

ASSUME FacadeAssumption ==
    /\ Seeds \in Seq(Nodes)
    /\ CounterAge \in Ages
    /\ Capacity \in Nat \ {0}
    /\ MaxUpdates \in Nat

VARIABLES
    table,       \* ClusterData::membership
    history,     \* ClusterData::history
    outbox,      \* per thread: events recorded in the history and not yet sent
    sub,         \* the subscription, or NoSub
    updates,     \* number of facade calls made
    unannounced  \* revisions consumed by calls that returned an error

vars == <<table, history, outbox, sub, updates, unannounced>>

Event(tbl, n) == [node |-> n, state |-> State(tbl, n), revision |-> tbl.members[n].revision]

\* Nodes of S in id order, as the source iterates them.
InOrder(S) == SetToSortSeq(S, <)

EventsFor(tbl, ns) == [i \in 1..Len(ns) |-> Event(tbl, ns[i])]

NoSub == [mode |-> "none"]

Init ==
    /\ table = NewTable
    /\ history = <<>>
    /\ outbox = [t \in Threads |-> <<>>]
    /\ sub = NoSub
    /\ updates = 0
    /\ unannounced = {}

------------------------------------------------------------------------------
(***************************************************************************)
(* A command is a table, the nodes it emits events for in order, and       *)
(* whether it succeeded.  update_at: an error leaves the changes made so   *)
(* far in the table and records no event.                                  *)
(***************************************************************************)
Idle(t) == outbox[t] = <<>> /\ updates < MaxUpdates

UpdateAt(t, cmd) ==
    /\ Idle(t)
    /\ table' = cmd.table
    /\ LET events == EventsFor(cmd.table, cmd.nodes)
       IN  IF cmd.ok
           THEN /\ history' = history \o events
                /\ outbox' = [outbox EXCEPT ![t] = events]
                /\ UNCHANGED unannounced
           ELSE /\ unannounced' = unannounced \cup
                        ((table.revision + 1)..cmd.table.revision)
                /\ UNCHANGED <<history, outbox>>
    /\ updates' = updates + 1
    /\ UNCHANGED sub

DiscoveredNodes(tbl, S) ==
    InOrder({n \in Processed(S) \ {Local} : State(tbl, n) \in {Absent, "Unreachable"}})

\* mark_up on each node in turn, stopping at the first error.
UpStep(cmd, n, age) ==
    LET tbl == cmd.table
    IN  IF ~cmd.ok THEN cmd
        ELSE [table |-> MarkUp(tbl, n, age),
              nodes |-> IF State(tbl, n) \in UpFrom THEN Append(cmd.nodes, n) ELSE cmd.nodes,
              ok |-> TransitionOk(tbl, n, "Up", UpFrom)]

JoinCommand(ns) ==
    LET S == ToSet(ns)
        discovered == [table |-> RecordDiscovery(table, S, CounterAge),
                       nodes |-> DiscoveredNodes(table, S),
                       ok |-> ~DiscoveryFails(S)]
    IN  FoldLeft(LAMBDA cmd, n : UpStep(cmd, n, CounterAge), discovered, ns)

\* join and join_self
Join(t, n) == UpdateAt(t, JoinCommand(<<n>>))

JoinSeedNodes(t) == UpdateAt(t, JoinCommand(Seeds))

TransitionCommand(n, to, From) ==
    [table |-> Transition(table, n, CounterAge, to, From),
     nodes |-> IF State(table, n) \in From \ {to} THEN <<n>> ELSE <<>>,
     ok |-> TransitionOk(table, n, to, From)]

Leave(t, n) == UpdateAt(t, TransitionCommand(n, "Leaving", LeavingFrom))

Down(t, n) == UpdateAt(t, TransitionCommand(n, "Down", DownFrom))

\* leave_local_cluster and down_local_cluster look at the state first and do nothing
\* when the local member has already gone that far.
LeaveLocal(t) ==
    /\ State(table, Local) \in {"Joining", "Up"}
    /\ Leave(t, Local)

DownLocal(t) ==
    /\ State(table, Local) \notin {"Down", "Removed"}
    /\ Down(t, Local)

ApplyDiscovery(t, S) ==
    UpdateAt(t, [table |-> RecordDiscovery(table, S, 0),
                 nodes |-> DiscoveredNodes(table, S),
                 ok |-> ~DiscoveryFails(S)])

------------------------------------------------------------------------------
(* ClusterRuntime *)

PollDiscovery(t, S) ==
    LET found == RecordDiscovery(table, S, 0)
        promoted == IF DiscoveryFails(S) THEN found ELSE Promote(found, 0)
        up == IF HasMinContactPoints(found) THEN InOrder(Joining(found)) ELSE <<>>
    IN  UpdateAt(t, [table |-> promoted,
                     nodes |-> DiscoveredNodes(table, S) \o up,
                     ok |-> ~DiscoveryFails(S)])

\* TimeoutFailureDetector picks the suspects, which mark_unreachable restamps with now;
\* TimeoutDowningStrategy then counts down_after_unreachable from that stamp.
Expired(tbl) ==
    {n \in Nodes \ {Local} : State(tbl, n) = "Unreachable" /\ tbl.members[n].age >= DownAfter}

MarkAll(tbl, S, to) ==
    Restamp(tbl, S, [n \in Nodes |-> IF n \in S THEN to ELSE State(tbl, n)],
                    [n \in Nodes |-> IF n \in S THEN 0 ELSE tbl.members[n].age])

RuntimeTick(t) ==
    LET suspected == MarkAll(table, Suspects(table), "Unreachable")
        downed == MarkAll(suspected, Expired(suspected), "Down")
    IN  UpdateAt(t, [table |-> downed,
                     nodes |-> InOrder(Suspects(table)) \o InOrder(Expired(suspected)),
                     ok |-> TRUE])

TimePasses ==
    /\ table' = Elapse(table)
    /\ UNCHANGED <<history, outbox, sub, updates, unannounced>>

------------------------------------------------------------------------------
(***************************************************************************)
(* Subscriptions.  subscribe reads the replay and creates the broadcast    *)
(* receiver while it holds the mutex.  pending is the replay, live the     *)
(* receiver's share of the channel; a receiver that falls more than the    *)
(* capacity behind loses the oldest events and is told so.                 *)
(***************************************************************************)
Subscribe(mode) ==
    /\ sub = NoSub
    /\ sub' = [mode |-> mode,
               since |-> table.revision,
               start |-> CASE mode = "InitialState" -> [n \in Nodes |-> Event(table, n)]
                           [] OTHER -> [n \in Nodes |-> Event(NewTable, n)],
               pending |-> IF mode = "InitialEvents" THEN history ELSE <<>>,
               live |-> <<>>,
               lost |-> 0,
               lagged |-> FALSE,
               received |-> <<>>]
    /\ UNCHANGED <<table, history, outbox, updates, unannounced>>

\* The loop after the mutex is released: one broadcast send.
Send(t) ==
    /\ outbox[t] # <<>>
    /\ outbox' = [outbox EXCEPT ![t] = Tail(@)]
    /\ sub' = IF sub = NoSub THEN sub
              ELSE IF Len(sub.live) < Capacity
              THEN [sub EXCEPT !.live = Append(@, Head(outbox[t]))]
              ELSE [sub EXCEPT !.live = Append(Tail(@), Head(outbox[t])), !.lost = @ + 1]
    /\ UNCHANGED <<table, history, updates, unannounced>>

\* ClusterSubscription::recv: the replay first, then Lagged if events were lost, then
\* the channel.
RecvSilentLag ==
    /\ sub # NoSub
    /\ \/ /\ sub.pending # <<>>
          /\ sub' = [sub EXCEPT !.pending = Tail(@), !.received = Append(@, Head(sub.pending))]
       \/ /\ sub.pending = <<>> /\ sub.live # <<>>
          /\ sub' = [sub EXCEPT !.live = Tail(@), !.lost = 0,
                                !.received = Append(@, Head(sub.live))]
    /\ UNCHANGED <<table, history, outbox, updates, unannounced>>

Recv ==
    /\ sub # NoSub
    /\ \/ /\ sub.pending # <<>>
          /\ sub' = [sub EXCEPT !.pending = Tail(@), !.received = Append(@, Head(sub.pending))]
       \/ /\ sub.pending = <<>> /\ sub.lost > 0
          /\ sub' = [sub EXCEPT !.lost = 0, !.lagged = TRUE]
       \/ /\ sub.pending = <<>> /\ sub.lost = 0 /\ sub.live # <<>>
          /\ sub' = [sub EXCEPT !.live = Tail(@), !.received = Append(@, Head(sub.live))]
    /\ UNCHANGED <<table, history, outbox, updates, unannounced>>

------------------------------------------------------------------------------
Manager(t) ==
    \/ JoinSeedNodes(t)
    \/ LeaveLocal(t)
    \/ DownLocal(t)
    \/ \E n \in Nodes : Join(t, n) \/ Leave(t, n) \/ Down(t, n)
    \/ \E S \in SUBSET Nodes : ApplyDiscovery(t, S)

Runtime(t) ==
    \/ RuntimeTick(t)
    \/ \E S \in SUBSET Nodes : PollDiscovery(t, S)

Next ==
    \/ \E t \in Threads : Manager(t) \/ Runtime(t) \/ Send(t)
    \/ \E mode \in {"InitialState", "InitialEvents", "LiveOnly"} : Subscribe(mode)
    \/ Recv
    \/ TimePasses

Spec == Init /\ [][Next]_vars

------------------------------------------------------------------------------
\* What a subscriber makes of node n: of its starting point and the events it has
\* received, the record with the highest revision.
View(n) ==
    LET known == {sub.start[n]} \cup {e \in ToSet(sub.received) : e.node = n}
    IN  CHOOSE e \in known : \A f \in known : f.revision <= e.revision

(***************************************************************************)
(* No change is lost between the mutex and the channel: once every thread  *)
(* has sent its events and the subscriber has drained its queue, a         *)
(* subscriber that was not told it lagged knows the current record of      *)
(* every member, whatever threads were sending when it subscribed and in   *)
(* whatever order their events arrived.  The exceptions are records last   *)
(* changed by a call that returned an error (its events are discarded) or, *)
(* for a LiveOnly subscriber, before it subscribed.                        *)
(***************************************************************************)
SubscriberCatchesUp ==
    (/\ sub # NoSub
     /\ \A t \in Threads : outbox[t] = <<>>
     /\ sub.pending = <<>> /\ sub.live = <<>> /\ ~sub.lagged)
    => \A n \in Nodes :
        \/ View(n) = Event(table, n)
        \/ table.members[n].revision \in unannounced
        \/ sub.mode = "LiveOnly" /\ table.members[n].revision <= sub.since
==============================================================================
