# A TLA+ verification of Rakka

Rakka is an actor framework for Rust with clustering, sharded entities, durable
workflows and an agent layer built on them (23 crates under `crates/`). This
directory models the parts in which concurrency, failures and persistence meet,
checks them with TLC on small instances, and proves the central results with
TLAPS for every value of the constants.

`PROJECT.json` holds the details this text does not repeat: the source lines of
every definition, the mutants each property is known to catch, the findings and
the list of hazards.

## 1. The system

| Part | State it keeps | Operations | Interacts with |
|---|---|---|---|
| Membership table (`rakka-cluster/membership.rs`) | per node: state, last-seen stamp, revision; a table revision | discovery, heartbeat, mark up / leaving / unreachable / down, remove, tick | facade, sharding runtime |
| Cluster facade (`rakka-cluster/facade.rs`) | the table and an event history behind a mutex; a broadcast channel; a stamp counter | join, seeds, leave, down, discovery, poll, tick, subscribe, recv | its callers' threads, subscribers |
| Self fencing, discovery, clustered receptionist | timers; snapshots; listings | observe, poll, propagate | facade, remote |
| Shard allocation (`rakka-sharding/allocation.rs`, `coordinator.rs`) | shard to owner map, revision | allocate, rebalance, reconcile, restore | runtime |
| Coordinator store and lease (`coordinator_store.rs`, `coordinator_lease.rs`, `rakka-sharding-postgres`) | a row per entity type; a lease record with a fencing token | load, compare-and-set; acquire, renew, release | all nodes' runtimes |
| Sharding runtime (`runtime.rs`) | table, coordinators, regions, lease tokens | register, membership calls, leadership, persist, publish | store, lease, regions |
| Region (`routing.rs`) | owner cache, handoff buffer, paused entities | tell, ask, refresh, flush, replay | routes |
| Local entity route (`local.rs`) | a slot per entity: active, or stopping with held messages; shard states; timers | deliver, activate, passivate, handoff, idle timer, stop watcher | actor tasks |
| Actor runtime (`rakka-core`) | mailbox, flags, watchers, children, supervision | tell, stop, watch, restart, terminate | everything |
| Actor system, coordinated shutdown | registries, phases | spawn, terminate, run phases | actors, k8s drain |
| Durable inbox / outbox (`rakka-workflow`) | per instance: a cached record, a stale flag; in the store: the record | accept, transition, schedule, cancel, exhaust, dispatch, recover | store, dispatcher |
| Persistence | records, journals, snapshots | load, compare-and-set, append, recover | durable actors |
| Remote, process, stream, http, grpc, k8s | connections, children, buffers, probes | send, ask, supervise, back-pressure, drain | actors, regions |
| Agent choreography (`rakka-agent/choreography.rs`) | in every entity's record: pending exchanges and two bounded logs of resolved ones | initiate, accept, settle, re-drive, recover | task, run and their hosts |
| Agent tasks, runs and budgets (`task.rs`, `run.rs`, `budget.rs`) | a task's assignment and escrow ledger; a run's turn, effects and budget | assign, propose, decide, top up, settle, return, cancel | choreography, effect dispatcher |
| Agent effect dispatcher (`dispatch.rs`, `rakka-agent-workflow/dispatcher.rs`) | an outbox row and a leased fleet entry per effect | flush, register, claim, start, invoke, reconcile, fail, complete, fence | runs, targets, durable inbox |
| Agent workflow graphs, wakes, teams, A2A, MCP, knowledge graph | workflows, further entities, stores | schedule, resume, project | durable inbox, stores |

What makes them hard, and what must hold:

- **Membership**: one call changes several members; observations arrive late and
  in any order. Each change has a revision of its own; a downed incarnation does
  not come back; a silent node leaves.
- **Facade**: state changes under a lock, events leave after it. A subscriber
  nevertheless ends up knowing every member's record.
- **Allocation**: rebalancing runs in capped passes. Orphans are never capped,
  the cap holds, and passes converge.
- **Coordination**: a runtime awaits the lease and the store between its steps,
  replies get lost, leases expire. A revision stands for one ownership map, and
  only stored maps are published.
- **Entity route**: deliveries, stop watchers, idle timers, handoffs and the
  actor's own decision to stop race. There is one incarnation at a time, messages
  stay in order, and passivation loses none.
- **Durable inbox**: crashes between two writes, lost replies, two instances.
  What was accepted is durable and unique, and a finished effect stays finished.
- **Choreography**: envelopes and replies are lost and repeated, hosts crash or do
  not know that they were replaced, logs forget. An exchange causes one transition,
  is owed until it is settled or withdrawn, and is settled in the end.
- **Tasks and runs**: a proposal, a cancellation, a top-up and an effect's outcome
  cross. The two entities agree on the result, a cancelled task has no work left,
  and budget is neither lost nor spent twice.
- **Effect dispatch**: a row, a fleet entry and the run are three records written
  one after the other by workers that die or overrun their leases. An effect that
  must not be repeated is not, and the run is told the truth.

## 2. Modules

| Module | Models | Variables and actions |
|---|---|---|
| `Membership` | the table's operations as operators from table to table | a record's `age` is `now - last_seen`, capped at the largest timeout the code compares it with |
| `ClusterMembership` | one table under every order of calls | `table`, `silent`; one action per call, `RunTick`, `TimePasses`, `FallSilent` |
| `ClusterFacade` | facade, runtime and one subscription | `outbox[t]` is what thread `t` has recorded and not yet sent; `UpdateAt` is `update_at` up to the unlock, `Send` one iteration of the loop after it |
| `ShardAllocation` | both strategies and `reconcile` as operators | - |
| `ShardRebalance` | a coordinator over membership changes and ticks | `strategy` (fixed), `routable`, `own`; `MembershipChange`, `Pass` |
| `ShardCoordination` | runtimes, lease backend and store | `at[n]` is the await runtime `n` is at, `row` the store's row; one action per outcome of an await |
| `EntityRoute` | one entity's slot and the actor incarnations behind it | calls and tasks that hold the registry lock are one step; the actor task leaves its loop in several |
| `DurableInbox` | instances over one workflow record | one action per call; `dispatch_due_outbox` is mark, dispatch, settle |
| `ExchangeSaga` | what the choreography promises of an exchange | `owed`, `decided`, `outcome`; `Initiate`, `Decide`, `Settle` |
| `AgentChoreography` | entities' journals, their hosts and the transport between them | `store[e]` and `cache[h]` hold a record; a settle pass is `StartPass`, then `Deliver` and `Settle`, `KeepOutstanding` or `DeliveryFails` for each exchange; `Apply`, `Replay` and `Unable` are the outcomes of `accept`; `End` and an exchange that ends its entity withdraw its registrations |
| `EscrowLedger` | the ledger's operations as operators | - |
| `AgentRunLoop` | a run's transitions, each from record to record | the phases of a turn, the budget, proposals, wind-down |
| `AgentTaskDecisions` | a task's transitions, each from record to record | offers, acceptance, decisions, cancellation |
| `AgentWork` | a task and its runs, composed | `task`, `runs`, `pending`, `settled`, `log`; every action is one durable write of one entity |
| `EffectDispatch` | one effect from its flush to the word the run gets | `row`, `entry`, `effect`; `worker[w]` is the sequence of steps a worker still has to take, one per await |
| `AgentInvariants` | the inductive invariants of `AgentWork` | - |
| `ClusterProofs` (about `ClusterMembership`, `ShardRebalance`), `StoreProofs` (about `DurableInbox`, `ShardCoordination`), `EntityRouteProofs`, `AgentChoreographyProofs`, `AgentRunProofs`, `AgentMoneyProofs`, `AgentWorkProofs`, `EffectDispatchProofs` | theorems | - |
| `MC*` | the instances TLC checks | - |

`ClusterMembership` and `ClusterFacade` share `Membership`. `ShardRebalance`
uses `ShardAllocation`, and `ShardCoordination` takes `reconcile` as a constant
operator, which `MCShardCoordination` instantiates with the modulo strategy: its
theorems hold for every strategy. The specifications of these two are named
`RebalanceSpec` and `CoordinationSpec`, because the proofs about them share a module
with those of another component.

The agent layer is modelled at three levels. `AgentChoreography` has the hosts,
caches and transport in detail and leaves open what an exchange is about; it
implements `ExchangeSaga`. `AgentWork` has the six exchanges between a task and
its runs with their content, and keeps of the choreography what the level below
shows: an exchange is pending at its initiator, answered in its receiver's log,
settled at its initiator, and its answer, of whatever kind, may be forgotten by the
bounded log (`Forget`), after which it meets the receiver's state again. None of the
six is withdrawn. `EffectDispatch` opens
up what is a single outcome in `AgentWork`: how an effect gets its word.

Operators next to a definition whose name says what it gets wrong
(`RestampOncePerCall`, `StopPreempts`, ...) are mutants: plausible bugs that the
properties are known to detect. No specification uses them.

Main abstractions:

- Node ids, shards and effects are integers where the code depends on their
  order (`BTreeMap`), and payloads, descriptors and texts are left out.
- Clocks appear only through the comparisons the code makes: ages, a lease that
  has expired, a deadline in the future or the past, a retry that is due.
- A backend call has the outcomes the code distinguishes plus the two it cannot:
  refused without effect, and done with the reply lost.
- Revisions that are only compared for equality are a flag: a host's record is
  `fresh` until somebody writes the entity.
- In `EntityRoute` the actor task does not take the registry lock, so a call may
  act on a flag that has changed since: `Tell` to an actor that is already
  stopping, and `HoldBehindSelfStop`, are both allowed.
- In `EntityRoute` and `DurableInbox` the variable `setting` holds the
  configuration a behaviour was started with (mailbox capacity, idle timeout;
  how many instances, which faults). It never changes, so one run covers several
  deployments.
- A budget has one of the code's eight conserved dimensions; each obeys the same
  arithmetic independently of the others. The two that no parent can top up, the
  deadline and the concurrency, are an event: wherever the loop reserves, they may end
  the run instead (`RunOut`). The tool calls of a turn are one effect.
- A result the task cannot decode, or has no room for, is a refusal that any
  proposal may meet (`ApplyProposal`); what is too large depends on texts.
- In `EffectDispatch` a word says who concluded: `Succeeded` and `Failed` are the
  outcome of a call (`Failed` includes a call that ran and whose answer a guardrail
  refused, and one that no executor could make), `Refused` is the failure whose code
  says that the dispatch was refused before it, `Exhausted` the last failed attempt.
  A grant covers as many attempts as the budget of the effect (`Cover`).

## 3. Runs

Passing runs. Counts are distinct states.

| Run | Instance | Shows |
|---|---|---|
| `membership` | 3 nodes, local node 2 (one id below and one above it), timeouts 1 and 1, one node may fall silent, observations until revision 3; 728 thousand | `RevisionsTrackChanges`, `NoResurrection`, `SilentLeavesMembership` |
| `facade` | 2 threads, 3 nodes of which one incompatible, channel of 2, 3 calls, joins stamped by the counter look oldest to tick; 811 thousand | `SubscriberCatchesUp` |
| `rebalance` | 3 nodes, 5 shards, cap 1, threshold 1, 2 membership changes, either strategy, any stored map to start from; 769 | `NoOrphans`, `BoundedMoves`, `PassesConverge` |
| `coordination` | 2 runtimes with up to 2 regions, with and without a lease, fenced store, refused and lost calls, expiry and release, revisions and fencing tokens to 2; 3.7 million | `RevisionsAgree`, `PublishedWasDurable`, `HolderNotFencedOut`, `FencedTakeover` |
| `entity` | `Resident`: 3 messages, 1 other call, mailbox of 2, idle timeout, system shutdown. `Moving`: 2 messages, 1 other call, mailbox of 1, with and without idle timeout, handoffs. In both the actor may stop itself; 266 thousand | `NoOrphanIncarnation`, `PassivationLosesNothing`, `HandledInOrder`, `NoSpawnAfterTransfer`, `TransferStopsEntity`, `AcceptedIsResolved`, `IdleEntityStops` |
| `inbox` | `Overtaken`: 2 instances, 1 command, 1 effect, both faults, 1 crash. `Keyed`: 2 instances, 2 commands with one key. `Alone`: 1 instance, 2 effects, 2 crashes. 2 attempts, revisions to 5; 485 thousand | `AcceptedIsDurable`, `OneEntryPerKey`, `OutboxIsTruthful`, `MarkedBeforeSent`, `FinishedStays`, `EffectsSettle` |
| `choreography` | 2 entities with one host each, 3 exchanges that cause each other, of which one is a registration, entities that end, logs of 1 and 2 entries, a fault (a crash, a lost or repeated envelope, a lost reply or acknowledgement); 200 thousand | `OneTransition`, `OneResult`, `NothingForgotten`, `OwedUntilSettled`, `SagaSpec`, `OwedSettles` |
| `agent_work` | a task with 3 attempts to spend and 2 assignments, runs that ask for 1 at a time, 2 rejections, refused and unacceptable results, deadlines, promotions, one forgotten answer of any kind; 386 thousand | `OutcomesAgree`, `CancelledIsQuiescent`, `EscrowConserved`, `BooksAgree`, `EscrowReturns`, `CancellationConverges` |
| `effect_dispatch` | 2 workers, every safety class, 2 attempts, 2 faults (or one lease overrun), a wind-down at any time; 400 thousand | `ExecutedAtMostOnce`, `WordIsTrue`, `ResolvedStaysPut`, `OutcomeArrives` |

Runs that end in a violation: what the documentation or a comment says differs
from what the code does. The findings in `PROJECT.json` quote both.

| Run | Property | Shortest story |
|---|---|---|
| `lost_update` | `NoLostUpdate` | A write is refused, the coordinator stays ahead in memory, and a later write matches a revision it never read. |
| `agent_cancel` | `CancellationTerminates` | A cancellation is requested while a proposal is on its way; the task refuses the proposal, and the run stays `Cancelling` because it still records it. |
| `effect_refusal` | `RefusalIsTrue` | The attempt of a `NonIdempotent` effect is executed and reported as failed, the row becomes `Exhausted`, and the worker dies before it writes the fleet entry. The next claim is refused, since the grant covers one attempt, and the run is told that nothing was invoked. |

`CancellationConverges`, `ExecutedAtMostOnce` and `WordIsTrue` say what does hold
beside these. Their exceptions are named: a run stranded in one of the ways above or
below, a person's decision that is awaited (once it is asked for, the property is
discharged), an exhausted row taken up again (`retaken`), with an attempt of a
`Reconcileable` effect's budget left (`respent`), and a lease its worker overran
(`overrun`). `SubscriberCatchesUp` excepts the changes of a call that failed half way,
which the facade discards (`unannounced`).

**Other disagreements met.** The models behave like the code in each of these;
no property is stated about them.

- A node suspected while `Joining` and discovered again becomes `Up` whatever the
  number of contact points (`membership.rs:452`); `facade.rs:327` calls it the
  minimum "required before joining members are promoted to `Up`".
- Release removes the lease record, so the next holder's fencing token starts at 1
  again (`coordinator_lease.rs:314`); line 66 calls it "Monotonically increasing".
  `HolderNotFencedOut` and `FencedTakeover` hold until a release.
- A second region registered after a failed write is given the unwritten map
  (`runtime.rs:722`); the phase 4d plan says "publish only after durable write".
  `RevisionsAgree` is about the first and the later regions of all runtimes, and
  excepts exactly such a map (`NeverStored`).
- The store compares a writer's token with the stored row's and not with the
  lease, so after a takeover the old holder can still write until the new one has
  (`rakka-sharding-postgres/src/lib.rs:777`).
- A subscriber that asks for the history between a call's unlock and its sends
  gets that call's events twice (`facade.rs:158`), and joins stamped by a counter
  look old to a tick that is given milliseconds (`facade.rs:121`).
- A run can stay in `WaitingForReconciliation` after its last indeterminate effect
  was resolved as executed (`run.rs:5461`), though the status is documented as
  waiting for an operator (`run.rs:353`).
- A granted top-up sets a run `Running` without asking whether it winds down
  (`run.rs:2742`), and a winding-down run in `WaitingForReconciliation` whose
  proposal is rejected begins another turn.
- A proposal delivered again after the task's log forgot it (`choreography.rs:1768`
  evicts every kind) is validated a second time, where `loop_runtime.rs:297` promises
  the original decision: a task that took the result refuses it then, and the run
  ends `Superseded`. `OutcomesAgree` excepts exactly these (`JudgedAgain`).
- An `Idempotent` effect with a failed attempt can be fenced as `Cancelled`, which
  `effect.rs:1177` documents as before "any invocation could have happened".
- A worker that dies between the exhausted fleet entry and the run loses the
  effect's word (`WordLost`; `dispatch.rs:3907`). `AgentWork` assumes in its fairness
  that an effect at the dispatcher gets a word; this is where it need not.
- A `Reconcileable` attempt that fails for good exhausts the row with attempts left.
  After a crash before the fleet entry the next claim finds the row `Exhausted`, takes
  it for one without an earlier attempt (`dispatch.rs:2814`) and invokes the target
  without a query, where `dispatch.rs:62` says "retry only when proven absent". No
  attempt is left of a `NonIdempotent` effect, whose invocation is refused.
- An exchange whose target class the deployment does not host is owed for ever
  (`choreography.rs:1563` says so), and so is a registration with a task that is never
  created, or never ends and has no room. `OwedSettles` is not about these.
- The write of `Dispatching` is not conditional on the claim, although
  `dispatch.rs:3051` says "under the claim's lease and fence": a worker that
  overran its lease invokes too (`overrun`).
- A task and a run that deliver to each other inside their handlers wait for each
  other until one ask times out (`task.rs:14178`).

**Why the bounds are enough.** The protocols have two roles that can disagree
(a writer and one that overtook it; an incarnation and its successor; a thread
that sends and one that changes; two workers at one effect), so two of each suffice
for every hazard on the list; three nodes put a changed node between two others,
which revision numbering depends on. Five shards over three nodes leave an uneven
remainder. Capacities of 1 and 2 make "full" and "one left" occur; revision and
fencing bounds allow a conflict, a takeover and a write after it. In
`choreography` one exchange makes its receiver owe one and its initiator owe
another, so that both entities initiate and a log of one entry forgets; a
second host of an entity is covered by the theorems, which hold for any number. The
registration may be answered late, withdrawn by the end of its initiator while it is
under way, or refused until its target ends; both entities end, by a command or by
the exchange `tell`.
In `agent_work` a run that needs a second attempt must top up, two runs compete
for three attempts, and a second rejection ends a run. Two faults let a worker
die, and the worker that takes over die too.

Deadlock is checked for `rebalance`; elsewhere a behaviour may end because the
bounds are used up or because nobody calls, and the configurations say so.

**Fairness.** Only what the program or its host repeats is fair; commands,
cancellations, faults and a person's decisions are not.

- `membership`: the application calls tick on a timer and time passes.
- `rebalance`: every tick runs a pass.
- `entity`: Tokio runs every spawned task, an actor finishes the message it handles,
  sleeps end, and a handoff that has set `Transferring` goes on to passivate (the
  same function does both). Deliveries and calls are not fair.
- `inbox`: the host restarts an instance and calls the dispatch loop while something
  is due; the dispatcher answers. `EffectsSettle` is about a single instance: two
  that dispatch for ever can invalidate each other's settle, and sharding gives a
  workflow one owner.
- `choreography`: a settle pass is repeated (on commands, on recovery, on a timer)
  and goes on. Nothing else is fair: not the creation or the end of an entity, and not
  the transport. What a deployment must add is a hypothesis of `OwedSettles` for the
  exchange in question (`Timely`): one that is delivered again and again is again and
  again served while its sender waits. It rests on timing and not on a loop of the
  code: two entities whose passes wait for each other must not stay in step for ever.
  The target must be able to decide (`Answerable`): it exists, and a registration it may
  have no room for finds it terminal. The exchange then has an outcome in the end or is
  withdrawn, whatever happens to the others.
- `agent_work`: both entities' settle passes and the dispatcher are driven.
- `effect_dispatch`: flush, registration, claims and the fence are re-driven, a
  worker that is not stopped takes its next step, an abandoned lease lapses.

## 4. Proofs

All constants are arbitrary within the named assumptions of the modules; the
bounds (`MaxRevision` and the like) only restrict guards, so they are arbitrary
as well.

- **`ClusterProofs`, the membership table**. Every operation is shown to be a *good step* of the
  table: revisions do not decrease, changed records get distinct revisions above
  the old table revision, and terminal states stay. `RankIsNumbering` (the rank
  of a node in a finite set numbers it 1 to its cardinality) gives `Restamp`;
  good steps compose, which covers discovery followed by promotion. Theorems:
  `TypeCorrect`, `RevisionsAreDistinct`, `DownIsFinal`, `RevisionsFindChanges`.
- **`ClusterProofs`, the passes of a coordinator**, for any finite set of nodes, number of shards, cap and
  threshold and both strategies. The strategies are loops, modelled as recursive
  functions, so the proofs are inductions over the rounds of a loop. The library's
  induction theorems take a predicate as a parameter, which the provers cannot
  instantiate; `Induction`, `GreatestNat` and `Rounds` take a set of numbers in
  its place and rest on the library's theorem that such a set has a least element.
  `Rounds` shows that a loop has a run, which its recursive function then denotes.
  `OrphansAllocated` then says that after the allocation every shard has a
  routable owner, `ModuloPass` and `LeastPass` that a rebalance pass moves at most
  the cap and only to routable nodes. The invariant is `NoOrphans` with the
  types; the cap is a property of one pass from such a state. Theorems:
  `OrphanFree`, `MovesBounded`.
- **`StoreProofs`, the coordinators' row and lease**. `RevisionsAgree` is not inductive: nothing in it
  says that a write cannot reuse a revision for another map. `RevisionInv` adds
  that the set of maps ever stored has one map per revision and none beyond the
  store's, that the maps of first regions come from it (a later region's does, or is an
  exception the property names), and that a pending write's new revision is
  just above the revision it is conditional on. It holds although the
  in-memory coordinator may be ahead of, and different from, the store. For
  fencing, `FenceInv` bounds every token and the stored token by the lease's until
  the variable `leasing` says that a runtime has released the lease; after a
  release the bound fails (section 3). Theorems: `CoordinationTyped`, `RevisionInvariant`,
  `RevisionAgreement`, `PublishedDurable`, `FenceInvariant`, `HolderKeepsWriting`,
  `TakeoverFences`.
- **`StoreProofs`, the durable inbox**. A compare-and-set that is accepted edits exactly the
  stored state (`CachedIsStored`), so it is enough that each call is a good edit:
  it removes no entry, adds no second entry for a key, and reopens nothing
  finished. A dispatch loop holds a decision across an await, so `Inv` also says
  (`LoopInv`) that a loop only holds effects its own record still shows as open.
  Cached records behind the store hold only entries the store still has, which
  covers duplicates answered from an old record. `TruthInv` adds that stored and
  cached states are truthful about what was sent, and that an attempt that is over
  is counted. Theorems: `InboxInvariant`, `TypeCorrect`, `CacheIsSound`,
  `StaleFlagIsRight`, `AcceptedSurvives`, `KeysStayUnique`, `FinishedIsFinal`,
  `MarkedFirst`, `OutboxTruthful`.
- **`EntityRouteProofs`**, for every mailbox capacity and number of messages and
  calls, from `RouteAssumption` alone. None of the properties is inductive:
  `HandledInOrder` needs to know what waits in a mailbox and behind a stop,
  `PassivationLosesNothing` that a stop is the last envelope a user message could
  be lost to. `IInv` says that whatever is alive is in the slot (`RegistryInv`),
  that the accepted messages are exactly those in the mailbox and the held queue,
  each in order, the mailbox before the held ones and both behind all that was
  handled (`MessagesInv`), that until something else may cost messages no user
  message is behind a stop (`LossInv`), and that a shard that left holds nothing
  (`AwayInv`). The lemmas before it treat queues as sequences, one for each way a
  step changes them. Theorems: `Inductive`, `NeverOrphaned`, `InOrder`,
  `NeverMislaid`, `PassivationIsLossless`, `LeftStaysEmpty`.
- **`AgentChoreographyProofs`**, for any entities, number of hosts per entity,
  exchange graph, log capacity and number of faults. A write is accepted only from
  a host whose record is the stored one (`Current`), so `accept` on another host
  sees the log or conflicts. The inductive invariant `IInv` adds to the properties
  that the journal agrees with the history (`Journals`), that an operation which
  caused a transition is in its receiver's log or was pushed out of it
  (`Remembered`), that old cached records say nothing that was not so
  (`CachedTruth`), and that a reply under way was decided (`Flow`). That an entity has
  ended is never undone, and an ended one owes no registration, which is why a
  withdrawn exchange does not come back. `AnsweredAlike`
  needs one more invariant, `Decided`, on top of `IInv`. Theorems: `Inductive`,
  `TypeCorrect`, `AppliedOnce`, `AnsweredAlike`, `TransitionOwes`, `NeverDropped`,
  and `ImplementsSaga`: every step is a step of `ExchangeSaga` or leaves it as it is.
- **`AgentRunProofs`, `AgentMoneyProofs` and `AgentWorkProofs`**, for any budget,
  limits, number of attempts and amount of forgetting, proposals included.
  `AgentRunProofs` is about single records: one lemma for each transition
  of a run says that it keeps the run's own invariant (`RunInv`), leaves an
  outstanding proposal alone (`StepOK`) and spends within the run's allocation
  (`BudgetInv`), and one for each operation of the ledger what it does to the sum of
  the escrows. Sums are over finite sets of any size; `SumWithout` (taking one element
  out takes its term out) is what they rest on, proved from the fold's recursive
  function by the same kind of induction as the rebalance loops.
  `AgentInvariants` ties the entities together. `IInv` has what a pending exchange
  says about its initiator (`OwedInv`), what an answer says about its receiver
  (`AnsweredInv`), that a run which can still act holds an escrow (`EscrowInv`), and
  that an accepted result has reached its run, is on its way, or was forgotten and is
  judged again (`OutcomeInv`).
  `MoneyInv` is about amounts. `EscrowConserved` and `BooksAgree` speak of the two
  ledgers and not of the exchanges between them, where the budget is while it moves;
  `MoneyInv` adds that a live run holds its escrow or waits, parked, for the one top-up
  the ledger is ahead by (`LiveBook`), that a run owes only its next top-up and an
  answer to that one is the ledger's last grant, that a pending settlement reports no
  more than the run consumed, and that the task was charged only for runs whose
  escrow is no longer open (`ChargeInv`). A redelivered or forgotten exchange then
  finds a sequence number already granted, an escrow already settled or one already
  gone. `AgentMoneyProofs` shows that every step keeps `MoneyInv`, `AgentWorkProofs`
  that every step keeps `IInv`. TLC finds both to hold in the instance of
  `agent_work`. `SweepIsIdle` shows that the sweep of a requested cancellation
  in the settle pass (`settle_requested_cancellation`) finds nothing
  left to advance, which is why the model has no action for it. Theorems:
  `Inductive`, `ResultsAgree`, `CancelledHasNoWork`, `SweepIsIdle`, `BooksInductive`,
  `BudgetConserved`, `LedgersAgree`.
- **`EffectDispatchProofs`**, for any finite set of workers and any number of
  attempts, faults and overrun leases. `ExecutedAtMostOnce` bounds what was executed
  and says nothing of the invocations still to come, so it is not inductive.
  `CountInv` counts both: a pass that lost its claim weighs 1 while it will invoke
  the target without asking again whether the effect was executed, the pass under
  the live claim and the claims after it weigh what they may still add (2 at most:
  one that has marked the row, beside a row that was opened again), and the
  executions plus these weights stay within `1 + overrun + respent`. `SpentInv` then
  says that an exhausted row, and every claim that read one, has counted an attempt:
  the grant of a `NonIdempotent` effect covers no other, so `respent` is 0. `PassInv`
  says which steps a worker can have left, `RowInv` what the row says of them. One
  lemma per step shows that the weights pay for it; the passes that lost their claim
  are counted by a numbering (`Room`), which needs no theorem about cardinalities.
  `WordIsTrue` and `ResolvedStaysPut` are about a run whose workers keep to their
  leases, and follow from `WordInv`. `Form` says what the steps a claim's pass has
  left tell of the effect: a pass that may still invoke is alone with it (`Alone`: the
  run has no word, no worker is at the fence, a withdrawn row is one the fence does not
  cover), and an attempt that relies on nothing having been executed is right to
  (`Untouched`: a further attempt of an `Idempotent` effect does not, and parks where
  another would be refused); a pass that invokes nothing more delivers only words that are true and
  writes the row only after the run was told (`Settling`); a pass whose claim is gone
  has only that left. A worker at the fence is there for a run that is winding down,
  and the row admits claims until the run is told (`FencerInv`). What each status of
  the row says is `RowFacts`. The word is then true because `deliver` takes it from
  such a pass, and the target is not invoked after it because `invoke` is a step of a
  pass that is alone. TLC finds `WordInv` to hold in the instance of `effect_dispatch`.
  Theorems: `Inductive`, `SpentInductive`, `AtMostOnce`, `WordInductive`, `WordHolds`,
  `ResolvedUntouched`.

Only model-checked: every liveness property (fairness is out of the prover's
reach), and `SubscriberCatchesUp` of `ClusterFacade`. What a subscriber is told
depends on what `JoinCommand` makes of a list of seeds of any length and on the order
in which a set of members of any size is replayed to it; both are computed by
recursion over data, and what they compute for every input is an induction that the
installed provers cannot carry out.

## 5. Not modelled, and the plan

Left out of the modelled parts: graceful handoff of a leaving node by the
runtime, several entity types in one runtime call, custom strategies and failure
detectors, `compact` of a workflow, store `delete`, death watch, supervision and
children of actors, calls of the route outside a Tokio runtime, entity names;
of agents: approval and authorization waits, suspension, delegation and fan-in,
goals, teams, handoff between agents, human-owned tasks, compensation, worker
capacities and rate limits, policy and credential decisions (which are outcomes).
Left out altogether: pure data, codecs and wording, SQL, operating-system and
network I/O, and the parts below, in the order planned.

1. `ShardRegion`: owner cache, buffer, pausing and flush of `routing.rs`, first on
   its own (order, loss and bounds of buffered messages), then composed with
   `EntityRoute` for a whole handoff.
2. `ActorRuntime`: mailbox, supervision with backoff, children, death watch,
   timers; then an abstract mailbox specification that it implements, which
   `EntityRoute`'s incarnations are an instance of.
3. `CoordinatedShutdown` with the system's stop tasks and the k8s drain: phase
   order, timeouts, a spawn racing the stop.
4. `SelfFence`, with its hysteresis; composition with membership.
5. `EventSourced`: persist, apply, snapshot and recovery over a journal with
   faults; the durable actor as a client of the same store as `DurableInbox`.
6. Further entities of the agent layer over the choreography: delegation to child
   tasks (the same ledger one level up), wakes, teams; `AgentWork` shown to
   implement `ExchangeSaga` as well.
7. Remote request/reply correlation, bounded streams, process supervision, the
   graph scheduler and timers of the agent workflow.

Risks known in the modelled crates that these models do not reach: renewal and
release of several types' leases stop at the first error (`runtime.rs:647`); a
remembered entity that is never told anything gets no idle timer (`local.rs:705`);
two entities' actor names may collide (`local.rs:1022`); the owner cache of a region
accepts a snapshot older than its own (`routing.rs:614`).
