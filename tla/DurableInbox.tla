----------------------------- MODULE DurableInbox -----------------------------
(***************************************************************************)
(* The durable inbox and outbox of rakka-workflow: several DurableInbox    *)
(* instances (an instance that lost its shard and its successor, or two    *)
(* dispatchers) over one workflow record in a DurableStateStore.           *)
(*                                                                         *)
(* An instance is used through &mut self, so its calls do not overlap.  A  *)
(* mutating call computes the next state from the instance's cached record *)
(* and compare-and-sets it: one step of the model.  dispatch_due_outbox    *)
(* awaits the dispatcher between two of them, and other instances run.     *)
(*                                                                         *)
(* Commands are their message ids; payloads and texts are left out.  An    *)
(* outbox entry's next_retry_at (scheduled_at at first) is represented by  *)
(* ripe[o], the number of its waiting periods that have passed.            *)
(***************************************************************************)
EXTENDS Integers

CONSTANTS
    Workers,      \* DurableInbox instances
    Commands,     \* inbox message ids
    Effects,      \* outbox message ids (integers: dispatched in id order)
    KeyOf,        \* deduplication key of each command and effect, or NoKey
    NoKey,
    MaxAttempts,  \* RetryPolicy::max_attempts
    Settings      \* the deployments considered, see setting

ASSUME WorkflowAssumption == Effects \subseteq Int /\ MaxAttempts \in Nat

VARIABLES
    setting,  \* the workers, commands and effects there are, the store's faults ("refused":
              \* no effect, "lost": the reply is lost), and bounds on crashes and revisions
    store,    \* the stored record: revision and WorkflowState
    record,   \* per instance: its cached record
    up,       \* the instances that have recovered a record
    stale,    \* per instance: DurableInbox::stale
    due,      \* per instance: the entries dispatch_due_outbox has still to dispatch
    pc,       \* per instance: idle, or the step its first due entry is at
    result,   \* per instance: what the dispatcher answered
    ripe,     \* per effect: waiting periods that have passed
    sent,     \* per effect: calls of the dispatcher
    acked,    \* commands a caller was told are in the inbox
    crashes

loopVars == <<due, pc, result>>
vars == <<store, record, up, stale, loopVars, ripe, sent, acked, crashes, setting>>

InboxStatuses == {"Absent", "Pending", "Processing", "Completed", "Failed"}

OutboxStatuses ==
    {"Absent", "Pending", "Dispatching", "Dispatched", "Failed", "Exhausted", "Cancelled"}

WorkflowStates ==
    [inbox : [Commands -> InboxStatuses],
     outbox : [Effects -> [status : OutboxStatuses, attempts : Nat]]]

EmptyState ==
    [inbox |-> [m \in Commands |-> "Absent"],
     outbox |-> [o \in Effects |-> [status |-> "Absent", attempts |-> 0]]]

State(w) == record[w].state

Init ==
    /\ setting \in Settings
    /\ store = [rev |-> 0, state |-> EmptyState]
    /\ record = [w \in Workers |-> [rev |-> 0, state |-> EmptyState]]
    /\ up = {}
    /\ stale = [w \in Workers |-> FALSE]
    /\ due = [w \in Workers |-> {}]
    /\ pc = [w \in Workers |-> "idle"]
    /\ result = [w \in Workers |-> "none"]
    /\ ripe = [o \in Effects |-> 0]
    /\ sent = [o \in Effects |-> 0]
    /\ acked = {}
    /\ crashes = 0

Ready(w) == w \in up /\ pc[w] = "idle"

------------------------------------------------------------------------------
(* The store *)

\* The revision the caller expects is its cached record's.
CasAccepts(w) == record[w].rev = store.rev /\ store.rev < setting.revisions

Put(next) == store' = [rev |-> store.rev + 1, state |-> next]

\* The outcomes of compare_and_set: the record it returns is cached.
Saved(w, next) ==
    /\ CasAccepts(w)
    /\ Put(next)
    /\ record' = [record EXCEPT ![w] = [rev |-> store.rev + 1, state |-> next]]
    /\ UNCHANGED stale

\* Any conflict marks the instance stale.
Conflict(w) ==
    /\ record[w].rev # store.rev
    /\ stale' = [stale EXCEPT ![w] = TRUE]
    /\ UNCHANGED <<store, record>>

\* Another error: the write was refused, or it happened and the reply was lost.
StoreFault(w, next) ==
    /\ \/ "refused" \in setting.faults /\ UNCHANGED store
       \/ "lost" \in setting.faults /\ CasAccepts(w) /\ Put(next)
    /\ UNCHANGED <<record, stale>>

NotSaved(w, next) == Conflict(w) \/ StoreFault(w, next)

\* A call that is over after its compare_and_set.
Call(w, next) ==
    /\ Saved(w, next) \/ NotSaved(w, next)
    /\ UNCHANGED <<up, loopVars, ripe, sent, acked, crashes, setting>>

Recover(w) ==
    /\ w \in setting.workers
    /\ pc[w] = "idle"
    /\ up' = up \cup {w}
    /\ record' = [record EXCEPT ![w] = store]
    /\ stale' = [stale EXCEPT ![w] = FALSE]
    /\ UNCHANGED <<store, loopVars, ripe, sent, acked, crashes, setting>>

\* The process ends: a new instance has no record until it recovers.
Crash(w) ==
    /\ w \in up
    /\ crashes < setting.crashes
    /\ crashes' = crashes + 1
    /\ up' = up \ {w}
    /\ stale' = [stale EXCEPT ![w] = FALSE]
    /\ due' = [due EXCEPT ![w] = {}]
    /\ pc' = [pc EXCEPT ![w] = "idle"]
    /\ result' = [result EXCEPT ![w] = "none"]
    /\ UNCHANGED <<store, record, ripe, sent, acked, setting>>

------------------------------------------------------------------------------
(* The inbox *)

DuplicatesById(s, m) == {k \in Commands : s.inbox[k] # "Absent" /\ k = m}

\* The entry a command duplicates, by message id or else by deduplication key.
Duplicates(s, m) ==
    {k \in Commands : s.inbox[k] # "Absent"
                      /\ (k = m \/ (KeyOf[k] = KeyOf[m] /\ KeyOf[m] # NoKey))}

Insert(s, m) == [s EXCEPT !.inbox[m] = "Pending"]

\* accept: the caller is told the command is in the inbox only when it is a duplicate
\* of an entry in the cached record, or once it has been persisted.
AcceptAcksEarly(w, m) ==
    /\ Ready(w)
    /\ Duplicates(State(w), m) = {}
    /\ Saved(w, Insert(State(w), m)) \/ NotSaved(w, Insert(State(w), m))
    /\ acked' = acked \cup {m}
    /\ UNCHANGED <<up, loopVars, ripe, sent, crashes, setting>>

Accept(w, m) ==
    LET found == Duplicates(State(w), m)
        next == Insert(State(w), m)
    IN  /\ Ready(w)
        /\ \/ /\ found # {}
              /\ acked' = acked \cup found
              /\ UNCHANGED <<store, record, stale>>
           \/ found = {} /\ Saved(w, next) /\ acked' = acked \cup {m}
           \/ found = {} /\ NotSaved(w, next) /\ UNCHANGED acked
        /\ UNCHANGED <<up, loopVars, ripe, sent, crashes, setting>>

\* transition_inbox checks that the entry exists, not its status.
TransitionInbox(w, m, status) ==
    /\ Ready(w)
    /\ State(w).inbox[m] # "Absent"
    /\ Call(w, [State(w) EXCEPT !.inbox[m] = status])

------------------------------------------------------------------------------
(* The outbox *)

SetEntry(s, o, status, attempts) ==
    [s EXCEPT !.outbox[o] = [status |-> status, attempts |-> attempts]]

SetStatus(s, o, status) == SetEntry(s, o, status, s.outbox[o].attempts)

ScheduleOutbox(w, o) ==
    /\ Ready(w)
    /\ o \in setting.effects
    /\ \A p \in Effects : State(w).outbox[p].status # "Absent"
                            => p # o /\ (KeyOf[p] # KeyOf[o] \/ KeyOf[o] = NoKey)
    /\ Call(w, SetEntry(State(w), o, "Pending", 0))

ForgetsInFlight(s, o) ==
    s.outbox[o].status \in {"Pending", "Failed"} /\ ripe[o] > s.outbox[o].attempts

IsDue(s, o) ==
    \/ s.outbox[o].status \in {"Pending", "Failed"} /\ ripe[o] > s.outbox[o].attempts
    \/ s.outbox[o].status = "Dispatching"

\* scheduled_at or next_retry_at is reached.
BecomesDue(o) ==
    /\ store.state.outbox[o].status \in {"Pending", "Failed"}
    /\ ripe' = [ripe EXCEPT ![o] = store.state.outbox[o].attempts + 1]
    /\ UNCHANGED <<store, record, up, stale, loopVars, sent, acked, crashes, setting>>

CancelAnyStatus(w, o) ==
    /\ Ready(w)
    /\ State(w).outbox[o].status \notin {"Absent", "Cancelled"}
    /\ Call(w, SetStatus(State(w), o, "Cancelled"))

\* record_outbox_cancelled does nothing for an entry that is not cancellable.
Cancel(w, o) ==
    /\ Ready(w)
    /\ State(w).outbox[o].status \in {"Pending", "Dispatching", "Failed"}
    /\ Call(w, SetStatus(State(w), o, "Cancelled"))

\* record_outbox_exhausted admits every status (repeating it would only count another
\* attempt: bounded here to one).
Exhaust(w, o) ==
    /\ Ready(w)
    /\ State(w).outbox[o].status \notin {"Absent", "Exhausted"}
    /\ Call(w, SetEntry(State(w), o, "Exhausted", State(w).outbox[o].attempts + 1))

\* OutboxEntry::record_failure
RecordFailure(s, o) ==
    LET attempts == s.outbox[o].attempts + 1
    IN  SetEntry(s, o, IF attempts >= MaxAttempts THEN "Exhausted" ELSE "Failed", attempts)

Settled(w, o) ==
    IF result[w] = "success" THEN SetStatus(State(w), o, "Dispatched")
    ELSE RecordFailure(State(w), o)

------------------------------------------------------------------------------
(* dispatch_due_outbox *)

\* The loop is at this step of entry o: entries are dispatched in id order.
At(w, step, o) ==
    /\ w \in up
    /\ pc[w] = step
    /\ o \in due[w]
    /\ \A p \in due[w] : o <= p

Goto(w, step, left) ==
    /\ pc' = [pc EXCEPT ![w] = step]
    /\ due' = [due EXCEPT ![w] = left]

\* An error ends the loop.
Leave(w) == Goto(w, "idle", {}) /\ result' = [result EXCEPT ![w] = "none"]

DispatchDue(w) ==
    LET entries == {o \in Effects : IsDue(State(w), o)}
    IN  /\ Ready(w)
        /\ entries # {}
        /\ Goto(w, "mark", entries)
        /\ UNCHANGED <<store, record, up, stale, result, ripe, sent, acked, crashes, setting>>

MarksDispatched(w, o) ==
    LET next == SetStatus(State(w), o, "Dispatched")
    IN  /\ At(w, "mark", o)
        /\ \/ Saved(w, next) /\ Goto(w, "send", due[w]) /\ UNCHANGED result
           \/ NotSaved(w, next) /\ Leave(w)
        /\ UNCHANGED <<up, ripe, sent, acked, crashes, setting>>

SendsUnmarked(w, o) ==
    /\ At(w, "mark", o)
    /\ Goto(w, "send", due[w])
    /\ UNCHANGED <<store, record, up, stale, result, ripe, sent, acked, crashes, setting>>

MarkDispatching(w, o) ==
    LET next == SetStatus(State(w), o, "Dispatching")
    IN  /\ At(w, "mark", o)
        /\ \/ Saved(w, next) /\ Goto(w, "send", due[w]) /\ UNCHANGED result
           \/ NotSaved(w, next) /\ Leave(w)
        /\ UNCHANGED <<up, ripe, sent, acked, crashes, setting>>

\* The dispatcher is called and answers; Timeout is recorded as Failure is.
Dispatch(w, o) ==
    /\ At(w, "send", o)
    /\ \E answer \in {"success", "failure"} : result' = [result EXCEPT ![w] = answer]
    /\ sent' = [sent EXCEPT ![o] = @ + 1]
    /\ Goto(w, "settle", due[w])
    /\ UNCHANGED <<store, record, up, stale, ripe, acked, crashes, setting>>

Settle(w, o) ==
    LET next == Settled(w, o)
        left == due[w] \ {o}
    IN  /\ At(w, "settle", o)
        /\ \/ /\ Saved(w, next)
              /\ Goto(w, IF left = {} THEN "idle" ELSE "mark", left)
              /\ result' = [result EXCEPT ![w] = "none"]
           \/ NotSaved(w, next) /\ Leave(w)
        /\ UNCHANGED <<up, ripe, sent, acked, crashes, setting>>

------------------------------------------------------------------------------
Inbox(w) ==
    \E m \in Commands \cap setting.commands :
        \/ Accept(w, m)
        \/ \E status \in InboxStatuses \ {"Absent"} : TransitionInbox(w, m, status)

Outbox(w) == \E o \in Effects : ScheduleOutbox(w, o) \/ Cancel(w, o) \/ Exhaust(w, o)

Dispatcher(w) ==
    \/ DispatchDue(w)
    \/ \E o \in Effects : MarkDispatching(w, o) \/ Dispatch(w, o) \/ Settle(w, o)

Next ==
    \/ \E w \in Workers : Recover(w) \/ Crash(w) \/ Inbox(w) \/ Outbox(w) \/ Dispatcher(w)
    \/ \E o \in Effects : BecomesDue(o)

Spec == Init /\ [][Next]_vars

\* The host keeps the dispatcher running: it recovers an instance that has no record or
\* whose record is behind the store, and calls dispatch_due_outbox while entries are due.
FairSpec ==
    /\ Spec
    /\ \A w \in Workers :
        /\ WF_vars(Recover(w) /\ (w \notin up \/ record[w].rev # store.rev))
        /\ WF_vars(Dispatcher(w))
    /\ \A o \in Effects : WF_vars(BecomesDue(o))

------------------------------------------------------------------------------
Records == [rev : Nat, state : WorkflowStates]

\* The stored record, the cached ones and the dispatch loops are well formed.
TypeOK ==
    /\ store \in Records
    /\ record \in [Workers -> Records]
    /\ up \subseteq Workers
    /\ stale \in [Workers -> BOOLEAN]
    /\ due \in [Workers -> SUBSET Effects]
    /\ pc \in [Workers -> {"idle", "mark", "send", "settle"}]
    /\ result \in [Workers -> {"none", "success", "failure"}]
    /\ ripe \in [Effects -> Nat]
    /\ sent \in [Effects -> Nat]
    /\ acked \subseteq Commands
    /\ crashes \in Nat

\* No instance is ahead of the store, and one at the store's revision has the store's
\* state: a call whose compare-and-set is accepted was computed from what it replaces.
CachedIsStored ==
    \A w \in Workers :
        /\ record[w].rev <= store.rev
        /\ record[w].rev = store.rev => record[w].state = store.state

\* "A stale inbox ... every such call keeps failing ... because its cached revision is
\* behind the store."
StaleIsBehind == \A w \in Workers : stale[w] => record[w].rev < store.rev

\* "Commands are persisted before being considered accepted", and they stay: also a
\* duplicate answered from a record that is behind the store is in the store.
AcceptedIsDurable == \A m \in acked : store.state.inbox[m] # "Absent"

\* Two commands with one deduplication key never both become work, whichever instances
\* accept them.
OneEntryPerKey ==
    \A m, k \in Commands :
        m # k /\ store.state.inbox[m] # "Absent" /\ store.state.inbox[k] # "Absent"
            => KeyOf[m] = NoKey \/ KeyOf[m] # KeyOf[k]

\* A finished effect stays finished: an instance that was overtaken cannot cancel an
\* effect that was dispatched ("never rewritten as unsent"), nor dispatch one that was
\* cancelled or exhausted.  Only record_outbox_exhausted may overrule, by design.
FinishedStays ==
    [][\A o \in Effects :
          LET before == store.state.outbox[o].status
              after == store'.state.outbox[o].status
          IN  before \in {"Dispatched", "Cancelled", "Exhausted"}
                => after \in {before, "Exhausted"}]_vars

\* What the outbox says about an effect is true of it: a dispatched effect was handed to
\* the dispatcher, and one that waits for a retry once for each attempt on record.
OutboxIsTruthful ==
    \A o \in Effects : LET e == store.state.outbox[o]
                       IN  /\ e.status = "Dispatched" => sent[o] > 0
                           /\ e.status \in {"Pending", "Failed"} => e.attempts <= sent[o]

\* "Dispatching is persisted before an external side effect starts": what a worker is
\* about to perform is durable work, and a restart finds it.
MarkedBeforeSent ==
    \A w \in Workers, o \in Effects :
        At(w, "send", o) \/ At(w, "settle", o)
            => store.state.outbox[o].status \notin {"Absent", "Pending"}

\* One dispatcher that crashes finitely often settles every effect: it is dispatched,
\* exhausted or cancelled.
EffectsSettle ==
    \A o \in Effects : (\E w \in Workers : setting.workers = {w}) /\ store.state.outbox[o].status # "Absent"
        ~> store.state.outbox[o].status \in {"Dispatched", "Exhausted", "Cancelled"}
==============================================================================
