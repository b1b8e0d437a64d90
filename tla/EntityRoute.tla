----------------------------- MODULE EntityRoute -----------------------------
(***************************************************************************)
(* LocalEntityRoute of rakka-sharding for one entity of one shard, with    *)
(* the actor incarnations it spawns (run_actor_task of rakka-core).        *)
(*                                                                         *)
(* The route's calls and background tasks (stop watchers, idle timers and  *)
(* owed stops) run under the slot registry's lock, so each is one step.    *)
(* The actor task does not take that lock.  It leaves its mailbox loop in  *)
(* steps: it marks itself stopping, closes and drains its mailbox, and     *)
(* terminates.  A call that read one of its flags may act after the flag   *)
(* changed; the route's outcomes allow for it.                             *)
(*                                                                         *)
(* A user message is its number.  fate records what became of it; a        *)
(* message is accepted when deliver returns Ok.                            *)
(***************************************************************************)
EXTENDS Integers, Sequences

CONSTANTS
    MaxMsgs,      \* user messages delivered, in order
    MaxCalls,     \* remembered-entity activations and passivations with a stop message
    Settings      \* the routes and environments to consider

\* What a route is built with (ActorOptions::mailbox_capacity, whether idle entities are
\* passivated), and what happens around it: the messages and calls made, whether the
\* shard may be handed off, and whether the actor system may terminate.
ASSUME RouteAssumption ==
    /\ MaxMsgs \in Nat /\ MaxCalls \in Nat
    /\ Settings \subseteq [capacity : 1..MaxMsgs, idleTimeout : BOOLEAN, msgs : 0..MaxMsgs,
                            calls : 0..MaxCalls, handoffs : BOOLEAN, shutdown : BOOLEAN]

VARIABLES
    slot,         \* the entity's slot in the registry
    inc,          \* the incarnations spawned so far; an incarnation's uid is its index
    shard,        \* ShardHandoffState of the entity's shard
    leaving,      \* mark_shard_transferring has set the state, passivate_shard is due
    left,         \* passivate_shard has run since the shard became Transferring
    watchers,     \* uids with a stop watcher task
    owed,         \* uids with an owed-stop task
    timers,       \* per uid, number of idle timer tasks
    fate,         \* per message
    calls,        \* those calls made so far
    terminating,  \* the actor system refuses to spawn
    setting,      \* one of Settings, fixed when the route is built
    excused       \* something other than passivation may have cost messages

taskVars == <<watchers, owed, timers>>
shardVars == <<shard, leaving, left>>
vars == <<slot, inc, shardVars, taskVars, fate, calls, terminating, setting, excused>>

Msgs == 1..MaxMsgs

Capacity == setting.capacity

StopEnvelope == 0

StopMessage == -1

MaxUid == MaxMsgs + MaxCalls

NoSlot ==
    [kind |-> "none", uid |-> 0, held |-> <<>>, reactivate |-> FALSE, due |-> "none", armed |-> FALSE]

Active(u) == [NoSlot EXCEPT !.kind = "active", !.uid = u]

Stopping(u, held) == [NoSlot EXCEPT !.kind = "stopping", !.uid = u, !.held = held]

\* The incarnation in the slot.
Phase == IF slot.kind = "none" THEN "none" ELSE inc[slot.uid].phase

Box == IF slot.kind = "none" THEN <<>> ELSE inc[slot.uid].box

Terminated == Phase = "dead"

UserMsgs(s) == {m \in Msgs : \E i \in 1..Len(s) : s[i] = m}

Init ==
    /\ slot = NoSlot
    /\ inc = <<>>
    /\ shard = "Owning" /\ leaving = FALSE /\ left = FALSE
    /\ watchers = {} /\ owed = {}
    /\ timers = [u \in 1..MaxUid |-> 0]
    /\ fate = [m \in Msgs |-> "unsent"]
    /\ calls = 0
    /\ terminating = FALSE
    /\ setting \in Settings
    /\ excused = FALSE

------------------------------------------------------------------------------
\* note_delivery to incarnation u in slot s: the deadline moves; the first delivery
\* starts the timer task.
Noted(s) == IF setting.idleTimeout THEN [s EXCEPT !.due = "future", !.armed = TRUE] ELSE s

NotedTimers(s) ==
    IF setting.idleTimeout /\ ~s.armed THEN [timers EXCEPT ![s.uid] = @ + 1] ELSE timers

\* activate_slot, then the tell of activate_and_deliver: the next incarnation takes
\* the held messages and then the new ones that fit.
Spawn(held, new) ==
    LET u == Len(inc) + 1
        box == IF Len(held \o new) <= Capacity THEN held \o new ELSE held
    IN  /\ ~terminating
        /\ inc' = Append(inc, [phase |-> "starting", box |-> box])
        /\ slot' = IF box = <<>> THEN Active(u) ELSE Noted(Active(u))
        /\ timers' = IF box = <<>> THEN timers ELSE NotedTimers(Active(u))
        /\ fate' = [m \in Msgs |->
                      IF m \in UserMsgs(new)
                      THEN IF box = held \o new THEN "accepted" ELSE "rejected"
                      ELSE fate[m]]

\* The spawn fails: the held messages are dropped and no slot is registered.
SpawnFails(held, new) ==
    /\ terminating
    /\ slot' = NoSlot
    /\ fate' = [m \in Msgs |-> IF m \in UserMsgs(held) THEN "dropped"
                               ELSE IF m \in UserMsgs(new) THEN "rejected" ELSE fate[m]]
    /\ UNCHANGED <<inc, timers>>

\* The incarnation stops itself before it is told anything: what was held is dropped,
\* the new message is returned to its sender.
SpawnStopsAtOnce(held, new) ==
    LET u == Len(inc) + 1
    IN  /\ ~terminating
        /\ inc' = Append(inc, [phase |-> "closed", box |-> <<>>])
        /\ slot' = IF held = <<>> THEN Active(u) ELSE Noted(Active(u))
        /\ timers' = IF held = <<>> THEN timers ELSE NotedTimers(Active(u))
        /\ fate' = [m \in Msgs |-> IF m \in UserMsgs(held) THEN "dropped"
                                   ELSE IF m \in UserMsgs(new) THEN "rejected" ELSE fate[m]]

Activate(held, new) ==
    \/ Spawn(held, new) /\ UNCHANGED excused
    \/ SpawnStopsAtOnce(held, new) /\ excused' = TRUE
    \/ SpawnFails(held, new) /\ UNCHANGED excused

------------------------------------------------------------------------------
(* deliver *)

Accepts == shard \in {"Owning", "Acquired"}

NextMessage(m) ==
    m <= setting.msgs /\ fate[m] = "unsent" /\ \A k \in 1..(m - 1) : fate[k] # "unsent"

Reject(m) ==
    /\ fate' = [fate EXCEPT ![m] = "rejected"]
    /\ UNCHANGED <<slot, inc, shardVars, taskVars, calls, terminating, setting, excused>>

DeliverRefused(m) == NextMessage(m) /\ ~Accepts /\ Reject(m)

\* The actor may have marked itself stopping since tell looked.
Tell(m) ==
    /\ NextMessage(m) /\ Accepts
    /\ slot.kind = "active" /\ Phase \in {"starting", "running", "stopping"}
    /\ Len(Box) < Capacity
    /\ inc' = [inc EXCEPT ![slot.uid].box = Append(@, m)]
    /\ slot' = Noted(slot)
    /\ timers' = NotedTimers(slot)
    /\ fate' = [fate EXCEPT ![m] = "accepted"]
    /\ UNCHANGED <<shardVars, watchers, owed, calls, terminating, setting, excused>>

TellFull(m) ==
    /\ NextMessage(m) /\ Accepts
    /\ slot.kind = "active" /\ Phase \in {"starting", "running", "stopping"}
    /\ Len(Box) >= Capacity
    /\ Reject(m)

\* The actor was seen stopping, or its mailbox closed, before it had terminated.
HoldBehindSelfStop(m) ==
    /\ NextMessage(m) /\ Accepts
    /\ slot.kind = "active" /\ Phase \in {"stopping", "closed", "dead"}
    /\ slot' = Stopping(slot.uid, <<m>>)
    /\ watchers' = watchers \cup {slot.uid}
    /\ fate' = [fate EXCEPT ![m] = "accepted"]
    /\ UNCHANGED <<inc, shardVars, owed, timers, calls, terminating, setting, excused>>

HoldInFront(m) ==
    /\ NextMessage(m) /\ Accepts
    /\ slot.kind = "stopping"
    /\ Len(slot.held) < Capacity
    /\ slot' = [slot EXCEPT !.held = <<m>> \o @]
    /\ fate' = [fate EXCEPT ![m] = "accepted"]
    /\ UNCHANGED <<inc, shardVars, taskVars, calls, terminating, setting, excused>>

Hold(m) ==
    /\ NextMessage(m) /\ Accepts
    /\ slot.kind = "stopping"
    /\ Len(slot.held) < Capacity
    /\ slot' = [slot EXCEPT !.held = Append(@, m)]
    /\ fate' = [fate EXCEPT ![m] = "accepted"]
    /\ UNCHANGED <<inc, shardVars, taskVars, calls, terminating, setting, excused>>

HoldFull(m) ==
    /\ NextMessage(m) /\ Accepts
    /\ slot.kind = "stopping" /\ Len(slot.held) >= Capacity
    /\ Reject(m)

\* No incarnation, one that terminated on its own, or a stop its watcher has not
\* resolved yet: its held messages go to the next incarnation first.
DeliverToNext(m) ==
    /\ NextMessage(m) /\ Accepts
    /\ slot.kind = "none" \/ Terminated
    /\ Activate(slot.held, <<m>>)
    /\ UNCHANGED <<shardVars, watchers, owed, calls, terminating, setting>>

Deliver(m) ==
    \/ DeliverRefused(m)
    \/ Tell(m) \/ TellFull(m)
    \/ HoldBehindSelfStop(m)
    \/ Hold(m) \/ HoldFull(m)
    \/ DeliverToNext(m)

------------------------------------------------------------------------------
\* activate_existing_or_spawn
ActivateEntity ==
    /\ calls < setting.calls
    /\ calls' = calls + 1
    /\ \/ /\ ~Accepts \/ slot.kind = "active"
          /\ UNCHANGED <<slot, inc, timers, fate, excused>>
       \/ /\ Accepts /\ slot.kind = "stopping"
          /\ slot' = [slot EXCEPT !.reactivate = TRUE]
          /\ UNCHANGED <<inc, timers, fate, excused>>
       \/ /\ Accepts /\ (slot.kind = "none" \/ Terminated)
          /\ Activate(slot.held, <<>>)
    /\ UNCHANGED <<shardVars, watchers, owed, terminating, setting>>

------------------------------------------------------------------------------
(***************************************************************************)
(* passivate_slot, with the stop message first if there is one.  Each      *)
(* outcome says what it does to slot, inc and watchers.                    *)
(***************************************************************************)
Absent ==
    /\ slot.kind = "none" \/ (slot.kind = "active" /\ Terminated)
    /\ slot' = NoSlot
    /\ UNCHANGED <<inc, watchers>>

AlreadyStopping ==
    /\ slot.kind = "stopping"
    /\ UNCHANGED <<slot, inc, watchers>>

StopQueuedDropsSlot(byes) ==
    /\ slot.kind = "active"
    /\ slot' = NoSlot
    /\ UNCHANGED watchers
    /\ Len(Box) + Len(byes) < Capacity
    /\ inc' = [inc EXCEPT ![slot.uid].box = @ \o byes \o <<StopEnvelope>>]

StopPreempts(byes) ==
    /\ slot.kind = "active"
    /\ slot' = Stopping(slot.uid, <<>>)
    /\ watchers' = watchers \cup {slot.uid}
    /\ inc' = IF Phase \in {"starting", "running"}
              THEN [inc EXCEPT ![slot.uid].phase = "stopping"] ELSE inc

StopQueued(byes) ==
    /\ slot.kind = "active"
    /\ slot' = Stopping(slot.uid, <<>>)
    /\ watchers' = watchers \cup {slot.uid}
    /\ \/ /\ Phase \in {"starting", "running", "stopping"}
          /\ Len(Box) + Len(byes) < Capacity
          /\ inc' = [inc EXCEPT ![slot.uid].box = @ \o byes \o <<StopEnvelope>>]
       \/ /\ Phase \in {"stopping", "closed", "dead"}
          /\ UNCHANGED inc

\* The mailbox has no room for the stop; a stop message may have been queued.
Abandoned(byes) ==
    /\ slot.kind = "active"
    /\ Phase \in {"starting", "running", "stopping"}
    /\ Len(Box) + Len(byes) >= Capacity
    /\ inc' = IF Len(Box) < Capacity
              THEN [inc EXCEPT ![slot.uid].box = @ \o byes]
              ELSE inc
    /\ UNCHANGED <<slot, watchers>>

PassivateEntity(byes) ==
    /\ calls + Len(byes) <= setting.calls
    /\ calls' = calls + Len(byes)
    /\ Absent \/ AlreadyStopping \/ StopQueued(byes) \/ Abandoned(byes)
    /\ UNCHANGED <<shardVars, owed, timers, fate, terminating, setting, excused>>

\* reap_terminated_entities, and the check of entity_actor.
Reap ==
    /\ slot.kind = "active" /\ Terminated
    /\ slot' = NoSlot
    /\ UNCHANGED <<inc, shardVars, taskVars, fate, calls, terminating, setting, excused>>

WatcherForgetsHeld(u) ==
    /\ u \in watchers /\ inc[u].phase = "dead"
    /\ watchers' = watchers \ {u}
    /\ slot' = IF slot.kind = "stopping" /\ slot.uid = u THEN NoSlot ELSE slot
    /\ UNCHANGED <<inc, shardVars, owed, timers, fate, calls, terminating, setting, excused>>

\* on_incarnation_stopped
WatcherRuns(u) ==
    LET ours == slot.kind = "stopping" /\ slot.uid = u
    IN  /\ u \in watchers /\ inc[u].phase = "dead"
        /\ watchers' = watchers \ {u}
        /\ \/ ~ours /\ UNCHANGED <<slot, inc, timers, fate, excused>>
           \/ /\ ours /\ slot.held = <<>> /\ ~slot.reactivate
              /\ slot' = NoSlot
              /\ UNCHANGED <<inc, timers, fate, excused>>
           \/ /\ ours /\ (slot.held # <<>> \/ slot.reactivate)
              /\ Activate(slot.held, <<>>)
        /\ UNCHANGED <<shardVars, owed, calls, terminating, setting>>

------------------------------------------------------------------------------
(* Idle timers *)

DeadlinePasses ==
    /\ slot.due = "future"
    /\ slot' = [slot EXCEPT !.due = "past"]
    /\ UNCHANGED <<inc, shardVars, taskVars, fate, calls, terminating, setting, excused>>

TimerGivesUp(u) ==
    LET mine == slot.kind = "active" /\ slot.uid = u
        exits == timers' = [timers EXCEPT ![u] = @ - 1]
    IN  /\ timers[u] > 0
        /\ \/ ~mine /\ exits /\ UNCHANGED <<slot, inc, watchers>>
           \/ mine /\ slot.due = "future" /\ UNCHANGED <<slot, inc, watchers, timers>>
           \/ mine /\ slot.due = "past" /\ exits /\ (Absent \/ StopQueued(<<>>) \/ Abandoned(<<>>))
        /\ UNCHANGED <<shardVars, owed, fate, calls, terminating, setting, excused>>

\* run_idle_timer after a sleep: the incarnation is not in the slot any more, or its
\* deadline moved, or it is passivated; an abandoned stop pushes the deadline.
TimerFires(u) ==
    LET mine == slot.kind = "active" /\ slot.uid = u
        exits == timers' = [timers EXCEPT ![u] = @ - 1]
    IN  /\ timers[u] > 0
        /\ \/ ~mine /\ exits /\ UNCHANGED <<slot, inc, watchers>>
           \/ mine /\ slot.due = "future" /\ UNCHANGED <<slot, inc, watchers, timers>>
           \/ mine /\ slot.due = "past" /\ exits /\ (Absent \/ StopQueued(<<>>))
           \/ /\ mine /\ slot.due = "past"
              /\ Phase \in {"starting", "running", "stopping"} /\ Len(Box) >= Capacity
              /\ slot' = [slot EXCEPT !.due = "future"]
              /\ UNCHANGED <<inc, watchers, timers>>
        /\ UNCHANGED <<shardVars, owed, fate, calls, terminating, setting, excused>>

------------------------------------------------------------------------------
(* Shard handoff *)

MarkShard(to) ==
    /\ setting.handoffs
    /\ shard' = to
    /\ leaving' = (leaving \/ to = "Transferring")
    /\ left' = FALSE
    /\ UNCHANGED <<slot, inc, taskVars, fate, calls, terminating, setting, excused>>

PassivateShardKeepsHeld ==
    /\ leaving
    /\ leaving' = FALSE
    /\ left' = (shard = "Transferring")
    /\ excused' = TRUE
    /\ \/ (Absent \/ AlreadyStopping \/ StopQueued(<<>>)) /\ UNCHANGED <<owed, fate>>
       \/ Abandoned(<<>>) /\ owed' = owed \cup {slot.uid} /\ UNCHANGED fate
    /\ UNCHANGED <<shard, timers, calls, terminating, setting>>

PassivateShardForgetsStop ==
    /\ leaving
    /\ leaving' = FALSE
    /\ left' = (shard = "Transferring")
    /\ excused' = TRUE
    /\ \/ /\ slot.kind = "stopping"
          /\ slot' = [slot EXCEPT !.held = <<>>, !.reactivate = FALSE]
          /\ fate' = [m \in Msgs |-> IF m \in UserMsgs(slot.held) THEN "dropped" ELSE fate[m]]
          /\ UNCHANGED <<inc, watchers>>
       \/ (Absent \/ StopQueued(<<>>) \/ Abandoned(<<>>)) /\ UNCHANGED fate
    /\ UNCHANGED <<shard, owed, timers, calls, terminating, setting>>

\* passivate_shard: what is held for a stopping entity is dropped; a stop that does not
\* fit the mailbox is owed.
PassivateShard ==
    /\ leaving
    /\ leaving' = FALSE
    /\ left' = (shard = "Transferring")
    /\ excused' = TRUE
    /\ \/ /\ slot.kind = "stopping"
          /\ slot' = [slot EXCEPT !.held = <<>>, !.reactivate = FALSE]
          /\ fate' = [m \in Msgs |-> IF m \in UserMsgs(slot.held) THEN "dropped" ELSE fate[m]]
          /\ UNCHANGED <<inc, watchers, owed>>
       \/ (Absent \/ StopQueued(<<>>)) /\ UNCHANGED <<owed, fate>>
       \/ Abandoned(<<>>) /\ owed' = owed \cup {slot.uid} /\ UNCHANGED fate
    /\ UNCHANGED <<shard, timers, calls, terminating, setting>>

\* spawn_owed_stop's retries
OwedStop(u) ==
    LET mine == slot.kind = "active" /\ slot.uid = u
        done == owed' = owed \ {u}
    IN  /\ u \in owed
        /\ \/ ~mine /\ done /\ UNCHANGED <<slot, inc, watchers>>
           \/ mine /\ done /\ (Absent \/ StopQueued(<<>>))
           \/ mine /\ Abandoned(<<>>) /\ UNCHANGED owed
        /\ UNCHANGED <<shardVars, timers, fate, calls, terminating, setting, excused>>

------------------------------------------------------------------------------
(* run_actor_task *)

Actor(u, box, phase) == inc' = [inc EXCEPT ![u] = [phase |-> phase, box |-> box]]

StartActor(u) ==
    /\ inc[u].phase = "starting"
    /\ \/ Actor(u, inc[u].box, "running") /\ UNCHANGED excused
       \/ Actor(u, inc[u].box, "stopping") /\ excused' = TRUE
    /\ UNCHANGED <<slot, shardVars, taskVars, fate, calls, terminating, setting>>

Handle(u) ==
    LET e == Head(inc[u].box)
        rest == Tail(inc[u].box)
    IN  /\ inc[u].phase = "running" /\ inc[u].box # <<>>
        /\ fate' = IF e \in Msgs THEN [fate EXCEPT ![e] = "handled"] ELSE fate
        /\ \/ e # StopEnvelope /\ Actor(u, rest, "running") /\ UNCHANGED excused
           \/ e = StopEnvelope /\ Actor(u, rest, "stopping") /\ UNCHANGED excused
           \/ e # StopEnvelope /\ Actor(u, rest, "stopping") /\ excused' = TRUE
        /\ UNCHANGED <<slot, shardVars, taskVars, calls, terminating, setting>>

\* The mailbox is closed and drained: user messages left in it are dead letters.
CloseMailbox(u) ==
    /\ inc[u].phase = "stopping"
    /\ Actor(u, <<>>, "closed")
    /\ fate' = [m \in Msgs |-> IF m \in UserMsgs(inc[u].box) THEN "dropped" ELSE fate[m]]
    /\ UNCHANGED <<slot, shardVars, taskVars, calls, terminating, setting, excused>>

Terminate(u) ==
    /\ inc[u].phase = "closed"
    /\ Actor(u, <<>>, "dead")
    /\ UNCHANGED <<slot, shardVars, taskVars, fate, calls, terminating, setting, excused>>

ActorStep(u) == StartActor(u) \/ Handle(u) \/ CloseMailbox(u) \/ Terminate(u)

\* The stop-user-actors task: no more spawns, and every live actor with room in its
\* mailbox is sent a stop; a full mailbox gets none.
SystemTerminates ==
    /\ setting.shutdown /\ ~terminating
    /\ terminating' = TRUE
    /\ excused' = TRUE
    /\ inc' = [u \in 1..Len(inc) |->
                  IF inc[u].phase \in {"starting", "running"} /\ Len(inc[u].box) < Capacity
                  THEN [inc[u] EXCEPT !.box = Append(@, StopEnvelope)] ELSE inc[u]]
    /\ UNCHANGED <<slot, shardVars, taskVars, fate, calls, setting>>

------------------------------------------------------------------------------
Uids == 1..Len(inc)

Background(u) == ActorStep(u) \/ WatcherRuns(u) \/ TimerFires(u) \/ OwedStop(u)

Next ==
    \/ \E m \in Msgs : Deliver(m)
    \/ ActivateEntity
    \/ \E byes \in {<<>>, <<StopMessage>>} : PassivateEntity(byes)
    \/ Reap
    \/ DeadlinePasses
    \/ \E to \in {"Draining", "Transferring", "Acquired", "Owning"} : MarkShard(to)
    \/ PassivateShard
    \/ SystemTerminates
    \/ \E u \in Uids : Background(u)

Spec == Init /\ [][Next]_vars

(***************************************************************************)
(* Tokio runs every spawned task, actors finish the message they handle,   *)
(* sleeps end, and a handoff that has set Transferring goes on to          *)
(* passivate the shard.                                                    *)
(***************************************************************************)
FairSpec ==
    /\ Spec
    /\ WF_vars(DeadlinePasses) /\ WF_vars(PassivateShard)
    /\ \A u \in 1..MaxUid :
        /\ WF_vars(u \in Uids /\ ActorStep(u))
        /\ WF_vars(u \in Uids /\ WatcherRuns(u))
        /\ WF_vars(u \in Uids /\ TimerFires(u))
        /\ WF_vars(u \in Uids /\ OwedStop(u))

------------------------------------------------------------------------------
\* The entity never runs twice on this node, and no incarnation runs that the registry
\* has lost sight of: whatever is alive is in the slot.
NoOrphanIncarnation ==
    \A u \in Uids : inc[u].phase # "dead" => slot.kind # "none" /\ slot.uid = u

\* Messages are handled in the order they were delivered, however many incarnations
\* they pass through.
HandledInOrder ==
    [][\A m \in Msgs : fate[m] # "handled" /\ fate'[m] = "handled"
        => \A k \in Msgs : fate[k] = "handled" => k < m]_fate

\* Passivation costs no message: while the actor does not stop itself, the shard stays
\* and the system runs, every message deliver accepted is handled or still to be.
PassivationLosesNothing == ~excused => \A m \in Msgs : fate[m] # "dropped"

\* A shard that was transferred away starts no entity here until it comes back.
NoSpawnAfterTransfer == [][left /\ left' => Len(inc') = Len(inc)]_vars

\* Every accepted message is eventually handled or reported dropped; none waits for ever
\* behind a stop.
AcceptedIsResolved ==
    \A m \in Msgs : fate[m] = "accepted" ~> fate[m] \in {"handled", "dropped"}

\* The entities of a transferred shard terminate, also one whose mailbox was full.
TransferStopsEntity ==
    left ~> (~left \/ \A u \in Uids : inc[u].phase = "dead")

\* An entity that gets no more messages is passivated.
IdleEntityStops == slot.armed ~> ~slot.armed
==============================================================================
