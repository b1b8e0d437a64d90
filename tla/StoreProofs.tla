----------------------------- MODULE StoreProofs -----------------------------
(***************************************************************************)
(* Proofs about the two records that several processes write by compare-   *)
(* and-set.                                                                *)
(*                                                                         *)
(* About a workflow's record (DurableInbox), for any number of instances,  *)
(* commands and effects, any retry budget and any store faults and         *)
(* crashes. A write is a compare-and-set of a state computed from a cached *)
(* record, so the argument is the same for every call: CachedIsStored      *)
(* makes an accepted write an edit of the stored state, and the edit is a  *)
(* good one (GoodEdit).                                                    *)
(*                                                                         *)
(* About a coordinator's row (ShardCoordination), for any number of        *)
(* runtimes and whatever strategy they reconcile by: type correctness,     *)
(* that a revision stands for one ownership map, and that fencing tokens   *)
(* order the holders of a lease until one of them releases it.             *)
(***************************************************************************)
EXTENDS DurableInbox, ShardCoordination, TLAPS

(***************************************************************************)
(* The durable inbox and outbox.                                           *)
(***************************************************************************)
Open == {"Pending", "Dispatching", "Failed"}
Finished == {"Dispatched", "Cancelled", "Exhausted"}
Unmarked == {"Absent", "Pending"}

KeyOnce(s) ==
    \A m, k \in Commands :
        m # k /\ s.inbox[m] # "Absent" /\ s.inbox[k] # "Absent"
            => KeyOf[m] = NoKey \/ KeyOf[m] # KeyOf[k]

\* A finished effect stays so, and one that was marked is never again as if it had not been.
EffectKept(s, t, o) ==
    /\ s.outbox[o].status \in Finished => t.outbox[o].status \in {s.outbox[o].status, "Exhausted"}
    /\ s.outbox[o].status \notin Unmarked => t.outbox[o].status \notin Unmarked

\* An edit keeps every command, adds none with a key in use, and reopens no effect.
GoodEdit(s, t) ==
    /\ t \in WorkflowStates
    /\ \A m \in Commands : s.inbox[m] # "Absent" => t.inbox[m] # "Absent"
    /\ KeyOnce(s) => KeyOnce(t)
    /\ \A o \in Effects : EffectKept(s, t, o)

\* The outcome of a compare-and-set that offers next.
Cas(w, next) == Saved(w, next) \/ NotSaved(w, next)

------------------------------------------------------------------------------
\* The edits of the calls.

\* A status of an existing entry, or a new entry, is written by transition_inbox and accept.
LEMMA InboxEdit ==
    ASSUME NEW s \in WorkflowStates, NEW m \in Commands, NEW status \in InboxStatuses \ {"Absent"},
           s.inbox[m] # "Absent" \/ Duplicates(s, m) = {}
    PROVE  GoodEdit(s, [s EXCEPT !.inbox[m] = status])
<1> DEFINE t == [s EXCEPT !.inbox[m] = status]
<1>1. /\ t \in WorkflowStates
      /\ t.outbox = s.outbox
      /\ \A k \in Commands : t.inbox[k] = IF k = m THEN status ELSE s.inbox[k]
  BY DEF WorkflowStates
<1>2. \A o \in Effects : EffectKept(s, t, o)
  BY <1>1, Zenon DEF EffectKept
<1>3. KeyOnce(s) => KeyOnce(t)
  BY <1>1 DEF KeyOnce, Duplicates
<1> QED BY <1>1, <1>2, <1>3 DEF GoodEdit

\* A new record for an effect whose status is not a finished one, or Exhausted for any.
LEMMA OutboxEdit ==
    ASSUME NEW s \in WorkflowStates, NEW o \in Effects,
           NEW status \in OutboxStatuses, NEW attempts \in Nat,
           s.outbox[o].status \notin Finished \/ status = "Exhausted",
           s.outbox[o].status \in Unmarked \/ status \notin Unmarked
    PROVE  LET t == SetEntry(s, o, status, attempts)
           IN  /\ GoodEdit(s, t)
               /\ t.outbox[o].status = status
               /\ \A p \in Effects \ {o} : t.outbox[p] = s.outbox[p]
<1> DEFINE t == SetEntry(s, o, status, attempts)
<1>1. /\ t \in WorkflowStates
      /\ t.inbox = s.inbox
      /\ t.outbox[o].status = status
      /\ \A p \in Effects \ {o} : t.outbox[p] = s.outbox[p]
  BY Zenon DEF WorkflowStates, SetEntry
<1>2. \A p \in Effects : EffectKept(s, t, p)
  BY <1>1 DEF EffectKept, Finished, Unmarked
<1>3. KeyOnce(s) => KeyOnce(t)
  BY <1>1, Zenon DEF KeyOnce
<1> QED BY <1>1, <1>2, <1>3 DEF GoodEdit

------------------------------------------------------------------------------
\* What a compare-and-set leaves behind.

\* A dispatch loop only holds effects that its own record still shows as open.
LoopInv ==
    \A w \in Workers :
        /\ pc[w] = "idle" => due[w] = {}
        /\ \A o \in due[w] : State(w).outbox[o].status \in Open

\* What an instance has seen in the inbox is in the stored one.
InboxKept ==
    \A w \in Workers : \A m \in Commands :
        State(w).inbox[m] # "Absent" => store.state.inbox[m] # "Absent"

StoreInv == CachedIsStored /\ StaleIsBehind /\ InboxKept /\ OneEntryPerKey

Inv == TypeOK /\ StoreInv /\ AcceptedIsDurable /\ LoopInv

StoreType ==
    /\ store \in Records
    /\ record \in [Workers -> Records]
    /\ stale \in [Workers -> BOOLEAN]

\* The store moves by good edits and never loses a command or reopens an effect.
Grows ==
    /\ \A m \in Commands : store.state.inbox[m] # "Absent" => store'.state.inbox[m] # "Absent"
    /\ \A o \in Effects : EffectKept(store.state, store'.state, o)

\* A compare-and-set keeps the store invariant, whatever its outcome.
LEMMA CasStep ==
    ASSUME StoreType, StoreInv, NEW w \in Workers, NEW next, GoodEdit(State(w), next), Cas(w, next)
    PROVE  StoreType' /\ StoreInv' /\ Grows
<1>1. CASE UNCHANGED store
  <2>0. ~ Put(next)
    <3>1. store'.rev = store.rev /\ store.rev \in Nat
      BY <1>1 DEF StoreType, Records
    <3> QED BY <3>1 DEF Put
  <2>1. StoreType' /\ UNCHANGED record
    BY Zenon, <1>1, <2>0 DEF Cas, Saved, NotSaved, Conflict, StoreFault, StoreType
  <2>2. \A v \in Workers : stale'[v] => stale[v] \/ record[v].rev # store.rev
    BY <2>0 DEF Cas, Saved, NotSaved, Conflict, StoreFault, StoreType
  <2>3. StaleIsBehind'
    <3> SUFFICES ASSUME NEW v \in Workers, stale'[v] PROVE record[v].rev < store.rev
      BY <1>1, <2>1 DEF StaleIsBehind
    <3>1. CASE stale[v]
      BY <3>1 DEF StoreInv, StaleIsBehind
    <3>2. CASE record[v].rev # store.rev
      <4>1. record[v].rev \in Nat /\ store.rev \in Nat /\ record[v].rev <= store.rev
        BY Zenon DEF StoreInv, CachedIsStored, StoreType, Records
      <4> QED BY <3>2, <4>1
    <3> QED BY <2>2, <3>1, <3>2
  <2>4. CachedIsStored' /\ InboxKept' /\ OneEntryPerKey' /\ Grows
    BY <1>1, <2>1 DEF StoreInv, CachedIsStored, InboxKept, OneEntryPerKey, Grows, State, EffectKept
  <2> QED BY <2>1, <2>3, <2>4 DEF StoreInv
<1>2. CASE CasAccepts(w) /\ Put(next)
  <2>1. State(w) = store.state /\ store' = [rev |-> store.rev + 1, state |-> next]
    BY <1>2 DEF CasAccepts, Put, StoreInv, CachedIsStored, State
  <2>2. store' \in Records
    BY <2>1 DEF StoreType, Records, GoodEdit
  <2>3. /\ UNCHANGED stale
        /\ record' \in [Workers -> Records]
        /\ \A v \in Workers : record'[v] = record[v] \/ (v = w /\ record'[v] = store')
    BY <1>2, <2>1, <2>2
       DEF Cas, Saved, NotSaved, Conflict, StoreFault, CasAccepts, StoreType, Records
  <2>4. Grows
    BY <2>1 DEF Grows, GoodEdit
  <2>5. OneEntryPerKey'
    BY <2>1, Zenon DEF StoreInv, OneEntryPerKey, GoodEdit, KeyOnce
  <2>6. CachedIsStored' /\ StaleIsBehind'
    <3>1. /\ store'.rev = store.rev + 1 /\ store.rev \in Nat
          /\ \A v \in Workers : record[v].rev \in Nat /\ record[v].rev <= store.rev
      BY <2>1 DEF StoreInv, CachedIsStored, StoreType, Records
    <3>2. ~ stale[w]
      BY <1>2, <3>1 DEF StoreInv, StaleIsBehind, CasAccepts
    <3> QED BY <2>3, <3>1, <3>2 DEF StoreInv, CachedIsStored, StaleIsBehind
  <2>7. InboxKept'
    BY <2>3, <2>4, Zenon DEF StoreInv, InboxKept, Grows, State
  <2> QED BY <2>2, <2>3, <2>4, <2>5, <2>6, <2>7 DEF StoreInv, StoreType
<1> QED BY <1>1, <1>2 DEF Cas, Saved, NotSaved, Conflict, StoreFault

\* A call keeps the invariant: its edit is good, and the loop is not running.
LEMMA CallStep ==
    ASSUME Inv, NEW w \in Workers, NEW next, GoodEdit(State(w), next), Call(w, next), pc[w] = "idle"
    PROVE  Inv' /\ Grows
<1>1. StoreType' /\ StoreInv' /\ Grows
  BY CasStep DEF Inv, TypeOK, StoreType, Call, Cas
<1>2. TypeOK'
  BY Zenon, <1>1 DEF Inv, TypeOK, StoreType, Call, loopVars
<1>3. AcceptedIsDurable'
  BY <1>1 DEF Inv, TypeOK, AcceptedIsDurable, Grows, Call
<1>4. LoopInv'
  <2>1. \A v \in Workers : v # w => record'[v] = record[v]
    BY DEF Call, Saved, NotSaved, Conflict, StoreFault, Inv, TypeOK
  <2> QED BY Zenon, <2>1 DEF Call, loopVars, Inv, LoopInv, State
<1> QED BY <1>1, <1>2, <1>3, <1>4 DEF Inv

------------------------------------------------------------------------------
\* A cached record holds a well-formed state.
LEMMA StateType ==
    ASSUME TypeOK, NEW w \in Workers
    PROVE  State(w) \in WorkflowStates
BY DEF TypeOK, Records, State

\* accept keeps the invariant: what it acknowledges is in the store.
LEMMA AcceptStep ==
    ASSUME Inv, NEW w \in Workers, NEW m \in Commands, Accept(w, m)
    PROVE  Inv' /\ Grows
<1> DEFINE found == Duplicates(State(w), m)
           next == Insert(State(w), m)
<1>1. CASE found # {} /\ acked' = acked \cup found /\ UNCHANGED <<store, record, stale>>
  <2>1. \A k \in found : store.state.inbox[k] # "Absent"
    BY DEF Inv, StoreInv, InboxKept, Duplicates
  <2>2. found \subseteq Commands
    BY Zenon DEF Duplicates
  <2>3. TypeOK' /\ AcceptedIsDurable'
    BY Zenon, <1>1, <2>1, <2>2 DEF Inv, TypeOK, AcceptedIsDurable, Accept, loopVars
  <2>4. StoreInv'
    BY Zenon, <1>1 DEF Inv, StoreInv, CachedIsStored, StaleIsBehind, InboxKept, OneEntryPerKey, State
  <2>5. LoopInv'
    BY Zenon, <1>1 DEF Inv, LoopInv, State, Accept, loopVars
  <2>6. Grows
    BY <1>1 DEF Grows, EffectKept
  <2> QED BY Zenon, <2>3, <2>4, <2>5, <2>6 DEF Inv
<1>2. CASE found = {} /\ Cas(w, next) /\ acked' \subseteq acked \cup (IF Saved(w, next) THEN {m} ELSE {})
  <2>1. State(w) \in WorkflowStates
    BY StateType DEF Inv
  <2>2. GoodEdit(State(w), next) /\ next.inbox[m] = "Pending"
    BY Zenon, <1>2, <2>1, InboxEdit DEF Insert, InboxStatuses, WorkflowStates
  <2>3. StoreType' /\ StoreInv' /\ Grows
    BY Zenon, <1>2, <2>2, CasStep DEF Inv, TypeOK, StoreType
  <2>4. Saved(w, next) => store'.state.inbox[m] # "Absent"
    BY <2>2 DEF Saved, Put
  <2>5. TypeOK'
    BY Zenon, <1>2, <2>3 DEF Inv, TypeOK, StoreType, Accept, loopVars
  <2>6. AcceptedIsDurable'
    BY Zenon, <1>2, <2>3, <2>4 DEF Inv, TypeOK, AcceptedIsDurable, Grows
  <2>7. \A v \in Workers : v # w => record'[v] = record[v]
    BY Zenon, <1>2 DEF Cas, Saved, NotSaved, Conflict, StoreFault, Inv, TypeOK
  <2>8. LoopInv'
    BY Zenon, <2>7 DEF Inv, LoopInv, State, Accept, Ready, loopVars
  <2> QED BY <2>3, <2>5, <2>6, <2>8 DEF Inv
<1> QED BY <1>1, <1>2 DEF Accept, Cas

\* One step of the dispatch loop that writes: the record is edited, the loop goes on or
\* is left, and what remains due is still open in the instance's record.
LEMMA LoopStep ==
    ASSUME Inv, NEW w \in Workers, NEW next, NEW step \in {"idle", "mark", "send", "settle"},
           NEW left \in SUBSET due[w],
           GoodEdit(State(w), next), Cas(w, next),
           step = "idle" => left = {},
           \A o \in left : next.outbox[o].status \in Open,
           \/ Saved(w, next) /\ Goto(w, step, left)
           \/ NotSaved(w, next) /\ Goto(w, "idle", {}),
           result' \in [Workers -> {"none", "success", "failure"}],
           UNCHANGED <<up, ripe, sent, acked, crashes>>
    PROVE  Inv' /\ Grows
<1>1. StoreType' /\ StoreInv' /\ Grows
  BY CasStep DEF Inv, TypeOK, StoreType
<1>2. TypeOK'
  <2>1. /\ due \in [Workers -> SUBSET Effects] /\ left \in SUBSET Effects
        /\ pc \in [Workers -> {"idle", "mark", "send", "settle"}]
    BY Zenon DEF Inv, TypeOK
  <2>2. /\ due' \in [Workers -> SUBSET Effects]
        /\ pc' \in [Workers -> {"idle", "mark", "send", "settle"}]
    BY <2>1 DEF Goto
  <2> QED BY Zenon, <1>1, <2>2 DEF Inv, TypeOK, StoreType
<1>3. AcceptedIsDurable'
  BY <1>1 DEF Inv, TypeOK, AcceptedIsDurable, Grows
<1>4. LoopInv'
  <2>1. \A v \in Workers : v # w => record'[v] = record[v] /\ due'[v] = due[v] /\ pc'[v] = pc[v]
    BY DEF Saved, NotSaved, Conflict, StoreFault, Inv, TypeOK, Goto
  <2>2. Saved(w, next) => record'[w].state = next
    BY DEF Saved, Inv, TypeOK
  <2>3. \/ Saved(w, next) /\ due'[w] = left /\ pc'[w] = step
        \/ due'[w] = {}
    BY Zenon DEF Goto, Inv, TypeOK
  <2> QED BY Zenon, <2>1, <2>2, <2>3 DEF Inv, LoopInv, State
<1> QED BY Zenon, <1>1, <1>2, <1>3, <1>4 DEF Inv

\* Steps that leave the store alone, and may refresh or drop a record.
LEMMA QuietStep ==
    ASSUME Inv, UNCHANGED <<store, acked>>, TypeOK', StaleIsBehind', LoopInv',
           \A v \in Workers : record'[v] = record[v] \/ record'[v] = store
    PROVE  Inv' /\ Grows
<1>1. CachedIsStored'
  BY DEF Inv, TypeOK, Records, StoreInv, CachedIsStored
<1>2. InboxKept' /\ OneEntryPerKey' /\ AcceptedIsDurable'
  BY DEF Inv, StoreInv, InboxKept, OneEntryPerKey, AcceptedIsDurable, State
<1>3. Grows
  BY Zenon DEF Grows, EffectKept
<1> QED BY Zenon, <1>1, <1>2, <1>3 DEF Inv, StoreInv

\* Every step keeps the invariant and moves the store by a good edit.
LEMMA NextStep ==
    ASSUME Inv, Next
    PROVE  Inv' /\ Grows
<1>1. ASSUME NEW w \in Workers, Recover(w)
      PROVE  Inv' /\ Grows
  <2>1. TypeOK'
    BY Zenon, <1>1 DEF Recover, loopVars, Inv, TypeOK
  <2>2. StaleIsBehind'
    BY Zenon, <1>1 DEF Recover, Inv, TypeOK, StoreInv, StaleIsBehind
  <2>3. LoopInv'
    BY Zenon, <1>1 DEF Recover, loopVars, Inv, TypeOK, LoopInv, State
  <2>4. \A v \in Workers : record'[v] = record[v] \/ record'[v] = store
    BY <1>1 DEF Recover, Inv, TypeOK
  <2> QED BY Zenon, <1>1, <2>1, <2>2, <2>3, <2>4, QuietStep DEF Recover
<1>2. ASSUME NEW w \in Workers, Crash(w)
      PROVE  Inv' /\ Grows
  <2>1. TypeOK'
    BY <1>2 DEF Crash, Inv, TypeOK
  <2>2. StaleIsBehind'
    BY Zenon, <1>2 DEF Crash, Inv, TypeOK, StoreInv, StaleIsBehind
  <2>3. LoopInv'
    BY <1>2 DEF Crash, Inv, TypeOK, LoopInv, State
  <2> QED BY Zenon, <1>2, <2>1, <2>2, <2>3, QuietStep DEF Crash
<1>3. ASSUME NEW w \in Workers, NEW m \in Commands, NEW status \in InboxStatuses \ {"Absent"},
             TransitionInbox(w, m, status)
      PROVE  Inv' /\ Grows
  <2>1. GoodEdit(State(w), [State(w) EXCEPT !.inbox[m] = status])
    BY Zenon, <1>3, StateType, InboxEdit DEF TransitionInbox, Inv
  <2> QED BY <1>3, <2>1, CallStep DEF TransitionInbox, Ready
<1>4. ASSUME NEW w \in Workers, NEW o \in Effects, ScheduleOutbox(w, o)
      PROVE  Inv' /\ Grows
  <2>1. State(w) \in WorkflowStates /\ State(w).outbox[o].status = "Absent"
    BY Zenon, <1>4, StateType DEF Inv, ScheduleOutbox
  <2>2. GoodEdit(State(w), SetEntry(State(w), o, "Pending", 0))
    BY <2>1, OutboxEdit DEF OutboxStatuses, Finished, Unmarked
  <2> QED BY Zenon, <1>4, <2>2, CallStep DEF ScheduleOutbox, Ready
<1>5. ASSUME NEW w \in Workers, NEW o \in Effects, Cancel(w, o)
      PROVE  Inv' /\ Grows
  <2>1. /\ State(w) \in WorkflowStates
        /\ State(w).outbox[o].status \notin Finished
        /\ State(w).outbox[o].attempts \in Nat
    BY Zenon, <1>5, StateType DEF Inv, Cancel, Finished, WorkflowStates
  <2>2. GoodEdit(State(w), SetStatus(State(w), o, "Cancelled"))
    BY <2>1, OutboxEdit DEF OutboxStatuses, SetStatus, Unmarked
  <2> QED BY <1>5, <2>2, CallStep DEF Cancel, Ready
<1>6. ASSUME NEW w \in Workers, NEW o \in Effects, Exhaust(w, o)
      PROVE  Inv' /\ Grows
  <2>1. State(w) \in WorkflowStates /\ State(w).outbox[o].attempts + 1 \in Nat
    BY StateType DEF Inv, WorkflowStates
  <2>2. GoodEdit(State(w), SetEntry(State(w), o, "Exhausted", State(w).outbox[o].attempts + 1))
    BY <2>1, OutboxEdit DEF OutboxStatuses, Unmarked
  <2> QED BY <1>6, <2>2, CallStep DEF Exhaust, Ready
<1>7. ASSUME NEW w \in Workers, DispatchDue(w)
      PROVE  Inv' /\ Grows
  <2>1. TypeOK' /\ StaleIsBehind'
    BY Zenon, <1>7 DEF DispatchDue, Goto, Inv, TypeOK, StoreInv, StaleIsBehind
  <2>2. LoopInv'
    BY <1>7 DEF DispatchDue, Goto, IsDue, Inv, TypeOK, LoopInv, State, Open
  <2> QED BY <1>7, <2>1, <2>2, QuietStep DEF DispatchDue
<1>8. ASSUME NEW w \in Workers, NEW o \in Effects, Dispatch(w, o)
      PROVE  Inv' /\ Grows
  <2>1. TypeOK'
    BY <1>8, WorkflowAssumption DEF Dispatch, Goto, Inv, TypeOK
  <2>2. StaleIsBehind' /\ LoopInv'
    BY Zenon, <1>8 DEF Dispatch, Goto, Inv, TypeOK, StoreInv, StaleIsBehind, LoopInv, State
  <2> QED BY Zenon, <1>8, <2>1, <2>2, QuietStep DEF Dispatch
<1>9. ASSUME NEW w \in Workers, NEW o \in Effects, MarkDispatching(w, o)
      PROVE  Inv' /\ Grows
  <2> DEFINE next == SetStatus(State(w), o, "Dispatching")
  <2>1. /\ State(w) \in WorkflowStates
        /\ State(w).outbox[o].attempts \in Nat
        /\ \A p \in due[w] : State(w).outbox[p].status \in Open /\ p \in Effects
        /\ o \in due[w]
    BY Zenon, <1>9, StateType DEF Inv, TypeOK, LoopInv, MarkDispatching, At, WorkflowStates
  <2>2. /\ GoodEdit(State(w), next)
        /\ \A p \in due[w] : next.outbox[p].status \in Open
    BY <2>1, OutboxEdit DEF OutboxStatuses, SetStatus, Open, Finished, Unmarked
  <2>3. result' \in [Workers -> {"none", "success", "failure"}]
    BY <1>9 DEF MarkDispatching, Leave, Inv, TypeOK
  <2>4. /\ Cas(w, next)
        /\ \/ Saved(w, next) /\ Goto(w, "send", due[w])
           \/ NotSaved(w, next) /\ Goto(w, "idle", {})
        /\ UNCHANGED <<up, ripe, sent, acked, crashes>>
    BY Zenon, <1>9 DEF MarkDispatching, Leave, Cas
  <2> HIDE DEF next
  <2> QED BY Zenon, <2>2, <2>3, <2>4, LoopStep
<1>10. ASSUME NEW w \in Workers, NEW o \in Effects, Settle(w, o)
       PROVE  Inv' /\ Grows
  <2> DEFINE next == Settled(w, o)
             left == due[w] \ {o}
             step == IF left = {} THEN "idle" ELSE "mark"
  <2>1. /\ State(w) \in WorkflowStates
        /\ State(w).outbox[o].attempts \in Nat
        /\ \A p \in due[w] : State(w).outbox[p].status \in Open /\ p \in Effects
        /\ o \in due[w]
    BY Zenon, <1>10, StateType DEF Inv, TypeOK, LoopInv, Settle, At, WorkflowStates
  <2>2. PICK status \in OutboxStatuses \ Unmarked, attempts \in Nat :
            next = SetEntry(State(w), o, status, attempts)
    BY <2>1 DEF Settled, SetStatus, RecordFailure, OutboxStatuses, Unmarked
  <2>3. /\ GoodEdit(State(w), next)
        /\ \A p \in left : next.outbox[p].status \in Open
    BY <2>1, <2>2, OutboxEdit DEF Open, Finished
  <2>4. result' \in [Workers -> {"none", "success", "failure"}]
    BY Zenon, <1>10 DEF Settle, Leave, Inv, TypeOK
  <2>5. /\ Cas(w, next)
        /\ \/ Saved(w, next) /\ Goto(w, step, left)
           \/ NotSaved(w, next) /\ Goto(w, "idle", {})
        /\ UNCHANGED <<up, ripe, sent, acked, crashes>>
    BY Zenon, <1>10 DEF Settle, Leave, Cas
  <2>6. step \in {"idle", "mark", "send", "settle"} /\ (step = "idle" => left = {})
    BY Zenon
  <2> HIDE DEF next, step
  <2> QED BY Zenon, <2>3, <2>4, <2>5, <2>6, LoopStep
<1>11. ASSUME NEW o \in Effects, BecomesDue(o)
       PROVE  Inv' /\ Grows
  <2>1. store.state.outbox[o].attempts + 1 \in Nat
    BY DEF Inv, TypeOK, Records, WorkflowStates
  <2>2. TypeOK'
    BY Zenon, <1>11, <2>1 DEF BecomesDue, loopVars, Inv, TypeOK
  <2>3. StaleIsBehind' /\ LoopInv'
    BY <1>11 DEF BecomesDue, loopVars, Inv, StoreInv, StaleIsBehind, LoopInv, State
  <2> QED BY Zenon, <1>11, <2>2, <2>3, QuietStep DEF BecomesDue
<1> QED
  BY Zenon, <1>1, <1>2, <1>3, <1>4, <1>5, <1>6, <1>7, <1>8, <1>9, <1>10, <1>11, AcceptStep
     DEF Next, Inbox, Outbox, Dispatcher

------------------------------------------------------------------------------
\* The invariant holds of an empty workflow.
LEMMA InitInv == Init => Inv
<1> SUFFICES ASSUME Init PROVE Inv
  OBVIOUS
<1>1. EmptyState \in WorkflowStates /\ \A m \in Commands : EmptyState.inbox[m] = "Absent"
  BY DEF EmptyState, WorkflowStates, InboxStatuses, OutboxStatuses
<1>2. TypeOK
  BY Zenon, <1>1 DEF Init, TypeOK, Records
<1>3. StoreInv /\ AcceptedIsDurable /\ LoopInv
  BY <1>1 DEF Init, StoreInv, CachedIsStored, StaleIsBehind, InboxKept, OneEntryPerKey,
              AcceptedIsDurable, LoopInv, State
<1> QED BY <1>2, <1>3 DEF Inv

\* And in a step that changes nothing.
LEMMA Stutter ==
    ASSUME Inv, UNCHANGED vars
    PROVE  Inv' /\ Grows
<1>1. UNCHANGED <<store, record, up, stale, due, pc, result, ripe, sent, acked, crashes>>
  BY Zenon DEF vars, loopVars
<1>2. TypeOK' /\ StaleIsBehind' /\ LoopInv'
  BY <1>1 DEF Inv, TypeOK, StoreInv, StaleIsBehind, LoopInv, State
<1> QED BY Zenon, <1>1, <1>2, QuietStep

\* The inductive invariant: cached records are sound, and dispatch loops hold open effects.
THEOREM InboxInvariant == Spec => []Inv
<1>1. Inv /\ [Next]_vars => Inv'
  BY NextStep, Stutter
<1> QED BY InitInv, <1>1, PTL DEF Spec

\* The record, the instances and their dispatch loops keep their types.
THEOREM TypeCorrect == Spec => []TypeOK
<1>1. Inv => TypeOK
  BY DEF Inv
<1> QED BY <1>1, InboxInvariant, PTL

\* A compare-and-set that is accepted was computed from the state it replaces.
THEOREM CacheIsSound == Spec => []CachedIsStored
<1>1. Inv => CachedIsStored
  BY DEF Inv, StoreInv
<1> QED BY <1>1, InboxInvariant, PTL

\* is_stale() is only true of an instance whose cached revision is behind the store.
THEOREM StaleFlagIsRight == Spec => []StaleIsBehind
<1>1. Inv => StaleIsBehind
  BY DEF Inv, StoreInv
<1> QED BY <1>1, InboxInvariant, PTL

\* A command a caller was told is accepted, or a duplicate, is in the stored inbox for
\* good, whatever faults and crashes follow.
THEOREM AcceptedSurvives == Spec => []AcceptedIsDurable
<1>1. Inv => AcceptedIsDurable
  BY DEF Inv
<1> QED BY <1>1, InboxInvariant, PTL

\* At most one command per deduplication key becomes work, across instances.
THEOREM KeysStayUnique == Spec => []OneEntryPerKey
<1>1. Inv => OneEntryPerKey
  BY DEF Inv, StoreInv
<1> QED BY <1>1, InboxInvariant, PTL

\* No instance reopens a finished effect.
THEOREM FinishedIsFinal == Spec => FinishedStays
<1>1. Inv /\ [Next]_vars =>
        [\A o \in Effects :
            LET before == store.state.outbox[o].status
                after == store'.state.outbox[o].status
            IN  before \in {"Dispatched", "Cancelled", "Exhausted"}
                  => after \in {before, "Exhausted"}]_vars
  <2> SUFFICES ASSUME Inv, [Next]_vars, NEW o \in Effects
               PROVE  EffectKept(store.state, store'.state, o)
    BY Zenon DEF EffectKept, Finished
  <2> QED BY Zenon, NextStep, Stutter DEF Grows
<1> QED BY <1>1, InboxInvariant, PTL DEF Spec, FinishedStays

------------------------------------------------------------------------------
\* An effect a step begins to send was marked in it, and no other step unmarks one.
LEMMA MarkedStep ==
    ASSUME Inv, MarkedBeforeSent, [Next]_vars
    PROVE  MarkedBeforeSent'
<1>1. Grows
  BY NextStep, Stutter
<1> SUFFICES ASSUME NEW v \in Workers, NEW p \in Effects, At(v, "send", p)' \/ At(v, "settle", p)'
             PROVE  store'.state.outbox[p].status \notin {"Absent", "Pending"}
  BY Zenon DEF MarkedBeforeSent
<1>2. CASE At(v, "send", p) \/ At(v, "settle", p)
  BY Zenon, <1>1, <1>2 DEF MarkedBeforeSent, Grows, EffectKept, Unmarked
<1>3. CASE ~ (At(v, "send", p) \/ At(v, "settle", p))
  <2>1. PICK w \in Workers, o \in Effects : MarkDispatching(w, o)
    <3>1. ASSUME NEW w \in Workers, NEW o \in Effects, Dispatch(w, o) \/ Settle(w, o) PROVE FALSE
      <4>1. /\ \A u \in Workers : u # w => pc'[u] = pc[u] /\ due'[u] = due[u]
            /\ up' = up /\ pc[w] \in {"send", "settle"}
        BY Zenon, <3>1 DEF Dispatch, Settle, Goto, Leave, At, Inv, TypeOK
      <4>2. v = w
        BY Zenon, <1>3, <4>1 DEF At
      <4>3. CASE Dispatch(w, o)
        <5>1. due'[w] = due[w] /\ pc[w] = "send"
          BY Zenon, <4>3 DEF Dispatch, Goto, At, Inv, TypeOK
        <5> QED BY Zenon, <1>3, <4>1, <4>2, <5>1 DEF At
      <4>4. CASE Settle(w, o)
        <5>1. pc'[w] \in {"idle", "mark"}
          BY Zenon, <4>4 DEF Settle, Goto, Leave, Inv, TypeOK
        <5> QED BY Zenon, <4>2, <5>1 DEF At
      <4> QED BY Zenon, <3>1, <4>3, <4>4
    <3>2. ASSUME NEW w \in Workers, Recover(w) \/ Crash(w) \/ DispatchDue(w) PROVE FALSE
      BY Zenon, <1>3, <3>2 DEF Recover, Crash, DispatchDue, Goto, At, loopVars, Inv, TypeOK
    <3>3. ~ UNCHANGED <<up, due, pc>>
      BY <1>3 DEF At
    <3>4. ASSUME NEW w \in Workers, Inbox(w) \/ Outbox(w) PROVE FALSE
      BY Zenon, <3>3, <3>4 DEF Inbox, Outbox, Accept, TransitionInbox, ScheduleOutbox, Cancel, Exhaust,
                        Call, loopVars
    <3>5. ASSUME NEW o \in Effects, BecomesDue(o) PROVE FALSE
      BY Zenon, <3>3, <3>5 DEF BecomesDue, loopVars
    <3>6. Next
      BY <3>3 DEF vars, loopVars
    <3> QED BY Zenon, <3>1, <3>2, <3>4, <3>5, <3>6 DEF Next, Dispatcher
  <2>2. State(w) \in WorkflowStates
    BY Zenon, StateType DEF Inv
  <2>3. Saved(w, SetStatus(State(w), o, "Dispatching")) /\ v = w /\ p = o
    BY <1>3, <2>1, WorkflowAssumption DEF MarkDispatching, Goto, Leave, At, Inv, TypeOK
  <2>4. store'.state.outbox[o].status = "Dispatching"
    BY <2>2, <2>3 DEF Saved, Put, SetStatus, SetEntry, WorkflowStates
  <2> QED BY <2>3, <2>4
<1> QED BY <1>2, <1>3

\* Whatever a dispatcher is about to perform, or has performed and not settled, is
\* durably marked.
THEOREM MarkedFirst == Spec => []MarkedBeforeSent
<1>1. Init => MarkedBeforeSent
  BY DEF Init, MarkedBeforeSent, At
<1>2. Inv /\ MarkedBeforeSent /\ [Next]_vars => MarkedBeforeSent'
  BY MarkedStep
<1> QED BY <1>1, <1>2, InboxInvariant, PTL DEF Spec

------------------------------------------------------------------------------
\* What a state says of its effects, given how often each was handed to the dispatcher.
Told(s, calls) ==
    \A o \in Effects :
        /\ s.outbox[o].status = "Dispatched" => calls[o] > 0
        /\ s.outbox[o].status \in Open => s.outbox[o].attempts <= calls[o]

\* Stored and cached states are truthful, and an attempt that is over is counted.
TruthInv ==
    /\ Told(store.state, sent)
    /\ \A w \in Workers : Told(State(w), sent)
    /\ \A w \in Workers, o \in Effects :
          At(w, "settle", o) => State(w).outbox[o].attempts < sent[o]

\* A truthful entry keeps a state truthful.
LEMMA ToldEntry ==
    ASSUME NEW s \in WorkflowStates, NEW calls, Told(s, calls), NEW o \in Effects,
           NEW status \in OutboxStatuses, NEW attempts \in Nat,
           status = "Dispatched" => calls[o] > 0,
           status \in Open => attempts <= calls[o]
    PROVE  Told(SetEntry(s, o, status, attempts), calls)
<1> DEFINE t == SetEntry(s, o, status, attempts)
<1>1. /\ t.outbox[o] = [status |-> status, attempts |-> attempts]
      /\ \A p \in Effects \ {o} : t.outbox[p] = s.outbox[p]
  BY Zenon DEF WorkflowStates, SetEntry
<1> HIDE DEF t
<1>2. Told(t, calls)
  BY <1>1 DEF Told
<1> QED BY <1>2 DEF t

\* A compare-and-set of a truthful state, by an instance that is not settling after it.
LEMMA TruthfulCas ==
    ASSUME Inv, TruthInv, NEW w \in Workers, NEW next, Told(next, sent), Cas(w, next),
           UNCHANGED sent, pc'[w] # "settle",
           \A v \in Workers \ {w}, o \in Effects : At(v, "settle", o)' => At(v, "settle", o)
    PROVE  TruthInv'
<1>1. /\ store'.state = store.state \/ store'.state = next
      /\ \A v \in Workers : record'[v] = record[v] \/ (v = w /\ record'[v].state = next)
  BY DEF Cas, Saved, NotSaved, Conflict, StoreFault, Put, Inv, TypeOK
<1>2. Told(store.state, sent)' /\ \A v \in Workers : Told(State(v), sent)'
  BY <1>1, Zenon DEF TruthInv, State, Told
<1>3. ASSUME NEW v \in Workers, NEW o \in Effects, At(v, "settle", o)'
      PROVE  State(v)'.outbox[o].attempts < sent'[o]
  <2>1. v # w
    BY Zenon, <1>3 DEF At
  <2> QED BY Zenon, <1>1, <1>3, <2>1 DEF TruthInv, State
<1> QED BY Zenon, <1>2, <1>3 DEF TruthInv

\* The calls outside the dispatch loop.
LEMMA TruthfulCall ==
    ASSUME Inv, TruthInv, NEW w \in Workers, NEW next, Told(next, sent), Call(w, next), Ready(w)
    PROVE  TruthInv'
<1>1. Cas(w, next) /\ UNCHANGED sent /\ pc'[w] # "settle"
  BY Zenon DEF Call, Cas, Ready, loopVars
<1>2. \A v \in Workers, o \in Effects : At(v, "settle", o)' => At(v, "settle", o)
  BY DEF Call, loopVars, At
<1> QED BY Zenon, <1>1, <1>2, TruthfulCas

\* Every step keeps what the records say of the effects true.
LEMMA TruthStep ==
    ASSUME Inv, TruthInv, Next
    PROVE  TruthInv'
<1> USE DEF OutboxStatuses
<1>0. ASSUME NEW w \in Workers
      PROVE  /\ State(w) \in WorkflowStates /\ Told(State(w), sent)
             /\ \A o \in Effects : State(w).outbox[o].attempts \in Nat /\ sent[o] \in Nat
  BY Zenon, StateType DEF Inv, TypeOK, TruthInv, WorkflowStates
<1>1. ASSUME UNCHANGED <<store, sent>>,
             \A v \in Workers : record'[v] = record[v] \/ record'[v] = store,
             \A v \in Workers, o \in Effects :
                At(v, "settle", o)' => At(v, "settle", o) /\ record'[v] = record[v]
      PROVE  TruthInv'
  <2>1. Told(store.state, sent)' /\ \A v \in Workers : Told(State(v), sent)'
    BY <1>1, Zenon DEF TruthInv, State, Told
  <2> QED BY <1>1, <2>1 DEF TruthInv, State
<1>2. ASSUME NEW w \in Workers, Recover(w) \/ Crash(w) \/ DispatchDue(w)
      PROVE  TruthInv'
  <2>1. /\ UNCHANGED <<store, sent>>
        /\ \A v \in Workers : record'[v] = record[v] \/ record'[v] = store
    BY Zenon, <1>2 DEF Recover, Crash, DispatchDue, Inv, TypeOK
  <2>2. ASSUME NEW v \in Workers, NEW o \in Effects, At(v, "settle", o)'
        PROVE  At(v, "settle", o) /\ record'[v] = record[v]
    <3>1. CASE v = w
      BY Zenon, <1>2, <2>2, <3>1 DEF Recover, Crash, DispatchDue, Goto, Ready, At, loopVars, Inv, TypeOK
    <3>2. CASE v # w
      BY Zenon, <1>2, <2>2, <3>2 DEF Recover, Crash, DispatchDue, Goto, Ready, At, loopVars, Inv, TypeOK
    <3> QED BY Zenon, <3>1, <3>2
  <2> QED BY Zenon, <1>1, <2>1, <2>2
<1>3. ASSUME NEW o \in Effects, BecomesDue(o)
      PROVE  TruthInv'
  BY <1>1, <1>3 DEF BecomesDue, At, loopVars
<1>4. ASSUME NEW w \in Workers, NEW m \in Commands, NEW status
      PROVE  Told([State(w) EXCEPT !.inbox[m] = status], sent)
  <2>1. [State(w) EXCEPT !.inbox[m] = status].outbox = State(w).outbox
    BY <1>0 DEF WorkflowStates
  <2> QED BY <1>0, <2>1 DEF Told
<1>5. ASSUME NEW w \in Workers, Inbox(w)
      PROVE  TruthInv'
  <2>1. ASSUME NEW m \in Commands, NEW status, TransitionInbox(w, m, status)
        PROVE  TruthInv'
    BY Zenon, <1>4, <2>1, TruthfulCall DEF TransitionInbox
  <2>2. ASSUME NEW m \in Commands, Accept(w, m)
        PROVE  TruthInv'
    <3>1. UNCHANGED <<sent, up, due, pc>> /\ pc'[w] # "settle"
      BY <2>2 DEF Accept, Ready, loopVars
    <3>2. \A v \in Workers, o \in Effects : At(v, "settle", o)' => At(v, "settle", o)
      BY Zenon, <3>1 DEF At
    <3>3. CASE UNCHANGED <<store, record>>
      BY <1>1, <3>1, <3>2, <3>3
    <3>4. CASE Cas(w, Insert(State(w), m))
      BY Zenon, <1>4, <3>1, <3>2, <3>4, TruthfulCas DEF Insert
    <3> QED BY Zenon, <2>2, <3>3, <3>4 DEF Accept, Cas
  <2> QED BY <1>5, <2>1, <2>2 DEF Inbox
<1>6. ASSUME NEW w \in Workers, NEW o \in Effects, ScheduleOutbox(w, o) \/ Cancel(w, o) \/ Exhaust(w, o)
      PROVE  TruthInv'
  <2>1. Told(SetEntry(State(w), o, "Pending", 0), sent)
    BY <1>0, ToldEntry
  <2>2. Told(SetStatus(State(w), o, "Cancelled"), sent)
    BY Zenon, <1>0, ToldEntry DEF SetStatus, Open
  <2>3. Told(SetEntry(State(w), o, "Exhausted", State(w).outbox[o].attempts + 1), sent)
    BY <1>0, ToldEntry DEF Open
  <2> QED BY Zenon, <1>6, <2>1, <2>2, <2>3, TruthfulCall DEF ScheduleOutbox, Cancel, Exhaust
<1>7. ASSUME NEW w \in Workers, NEW o \in Effects, MarkDispatching(w, o)
      PROVE  TruthInv'
  <2>1. State(w).outbox[o].status \in Open
    BY Zenon, <1>7 DEF MarkDispatching, At, Inv, LoopInv
  <2>2. Told(SetStatus(State(w), o, "Dispatching"), sent)
    <3>1. State(w).outbox[o].attempts <= sent[o]
      BY <1>0, <2>1 DEF Told
    <3> QED BY Zenon, <1>0, <3>1, ToldEntry DEF SetStatus
  <2>3. /\ Cas(w, SetStatus(State(w), o, "Dispatching")) /\ UNCHANGED sent /\ pc'[w] # "settle"
        /\ \A v \in Workers \ {w}, p \in Effects : At(v, "settle", p)' => At(v, "settle", p)
    BY Zenon, <1>7 DEF MarkDispatching, Cas, Goto, Leave, At, Inv, TypeOK
  <2> QED BY Zenon, <2>2, <2>3, TruthfulCas
<1>8. ASSUME NEW w \in Workers, NEW o \in Effects, Dispatch(w, o)
      PROVE  TruthInv'
  <2>1. /\ UNCHANGED <<store, record, up, due>> /\ At(w, "send", o)
        /\ sent' = [sent EXCEPT ![o] = @ + 1] /\ pc' = [pc EXCEPT ![w] = "settle"]
    BY <1>8 DEF Dispatch, Goto, Inv, TypeOK
  <2>2. \A p \in Effects : sent[p] \in Nat /\ sent'[p] = IF p = o THEN sent[p] + 1 ELSE sent[p]
    BY Zenon, <2>1 DEF Inv, TypeOK
  <2>3. ASSUME NEW s \in WorkflowStates, Told(s, sent) PROVE Told(s, sent')
    <3>1. \A p \in Effects : s.outbox[p].attempts \in Nat
      BY <2>3 DEF WorkflowStates
    <3> QED BY <2>2, <2>3, <3>1 DEF Told
  <2>4. Told(store.state, sent)' /\ \A v \in Workers : Told(State(v), sent)'
    <3>1. store.state \in WorkflowStates
      BY Zenon DEF Inv, TypeOK, Records
    <3> QED BY Zenon, <1>0, <2>1, <2>3, <3>1 DEF TruthInv, State
  <2>5. ASSUME NEW v \in Workers, NEW p \in Effects, At(v, "settle", p)'
        PROVE  State(v)'.outbox[p].attempts < sent'[p]
    <3>0. State(v)' = State(v) /\ State(v).outbox[p].attempts \in Nat
      BY Zenon, <1>0, <2>1 DEF State
    <3>1. CASE v = w
      <4>1. p = o
        BY <2>1, <2>5, <3>1, WorkflowAssumption DEF At, Inv, TypeOK
      <4>2. State(w).outbox[o].status \in Open
        BY <2>1 DEF At, Inv, LoopInv
      <4>3. State(w).outbox[o].attempts <= sent[o]
        BY Zenon, <1>0, <4>2 DEF Told
      <4> QED BY <2>2, <3>0, <3>1, <4>1, <4>3
    <3>2. CASE v # w
      <4>1. At(v, "settle", p)
        BY <2>1, <2>5, <3>2 DEF At, Inv, TypeOK
      <4> QED BY <2>2, <3>0, <4>1 DEF TruthInv
    <3> QED BY <3>1, <3>2
  <2> QED BY Zenon, <2>4, <2>5 DEF TruthInv
<1>9. ASSUME NEW w \in Workers, NEW o \in Effects, Settle(w, o)
      PROVE  TruthInv'
  <2>1. State(w).outbox[o].attempts < sent[o]
    BY Zenon, <1>9 DEF Settle, TruthInv
  <2>2. Told(Settled(w, o), sent)
    <3>1. Told(SetStatus(State(w), o, "Dispatched"), sent)
      BY <1>0, <2>1, ToldEntry DEF SetStatus, Open
    <3>2. Told(RecordFailure(State(w), o), sent)
      <4>1. /\ State(w).outbox[o].attempts + 1 \in Nat
            /\ State(w).outbox[o].attempts + 1 <= sent[o]
        BY <1>0, <2>1
      <4> QED BY Zenon, <1>0, <4>1, ToldEntry DEF RecordFailure
    <3> QED BY Zenon, <3>1, <3>2 DEF Settled
  <2>3. /\ Cas(w, Settled(w, o)) /\ UNCHANGED sent /\ pc'[w] # "settle"
        /\ \A v \in Workers \ {w}, p \in Effects : At(v, "settle", p)' => At(v, "settle", p)
    BY <1>9 DEF Settle, Cas, Goto, Leave, At, Inv, TypeOK
  <2> QED BY Zenon, <2>2, <2>3, TruthfulCas
<1> QED BY Zenon, <1>2, <1>3, <1>5, <1>6, <1>7, <1>8, <1>9 DEF Next, Outbox, Dispatcher

\* What the outbox says of an effect is true of it, for any number of instances.
THEOREM OutboxTruthful == Spec => []OutboxIsTruthful
<1>1. Init => TruthInv
  BY DEF Init, EmptyState, TruthInv, Told, State, At, Open
<1>2. Inv /\ TruthInv /\ UNCHANGED vars => TruthInv'
  BY Zenon DEF TruthInv, Told, State, At, vars, loopVars
<1>3. Inv /\ TruthInv /\ [Next]_vars => TruthInv'
  BY Zenon, <1>2, TruthStep
<1>4. TruthInv => OutboxIsTruthful
  BY Zenon DEF TruthInv, Told, OutboxIsTruthful, Open
<1> QED BY <1>1, <1>3, <1>4, InboxInvariant, PTL DEF Spec

(***************************************************************************)
(* The coordinators' row and lease.                                        *)
(***************************************************************************)
\* What ShardCoordinator::reconcile returns is a snapshot, one revision ahead if it is
\* not the one it was given.
LEMMA ReconciledType ==
    ASSUME CoordinationTypeOK, NEW n \in Nodes, NEW base \in Snapshots
    PROVE  /\ Reconciled(n, base) \in Snapshots
           /\ Reconciled(n, base) # base => Reconciled(n, base).rev = base.rev + 1
  <1>1. view[n] \in Views
    BY Zenon DEF CoordinationTypeOK
  <1>2. Reconcile(view[n], base.own) \in OwnerMaps
    BY Zenon, <1>1, CoordinationAssumption DEF Snapshots
  <1> QED
    BY <1>2 DEF Reconciled, Snapshots

\* The initial values of the per-runtime variables are well typed.
LEMMA InitialValues ==
    /\ Fresh \in Snapshots
    /\ NoJob \in [register : BOOLEAN, base : Snapshots, next : Snapshots]
    /\ NoToken \in [fence : Nat, fresh : BOOLEAN]
    /\ NoLease \in [holder : Nodes \cup {0}, fence : Nat, live : BOOLEAN]
    /\ NoJob.register = FALSE
  BY Zenon, CoordinationAssumption DEF Fresh, NoJob, NoToken, NoLease, Snapshots

\* ensure_coordinator_leadership followed by the in-place reconcile keeps the
\* coordinators and calls well typed.
LEMMA ProceedType ==
    ASSUME CoordinationTypeOK, NEW n \in Nodes, Proceed(n)
    PROVE  /\ coord' \in [Nodes -> Snapshots]
           /\ at' \in [Nodes -> {"idle", "lead", "load", "persist"}]
           /\ job' \in [Nodes -> [register : BOOLEAN, base : Snapshots, next : Snapshots]]
  <1> DEFINE next == Reconciled(n, coord[n])
  <1>1. coord[n] \in Snapshots
    BY Zenon DEF CoordinationTypeOK
  <1>2. next \in Snapshots
    BY Zenon, <1>1, ReconciledType
  <1>3. [register |-> FALSE, base |-> coord[n], next |-> next]
            \in [register : BOOLEAN, base : Snapshots, next : Snapshots]
    BY <1>1, <1>2
  <1> HIDE DEF next
  <1>4. /\ at' \in [Nodes -> {"idle", "lead", "load", "persist"}]
        /\ \/ UNCHANGED <<coord, job>>
           \/ /\ coord' = [coord EXCEPT ![n] = next]
              /\ job' = [job EXCEPT ![n] = [register |-> FALSE, base |-> coord[n], next |-> next]]
    BY Zenon DEF Proceed, CoordinationTypeOK, next
  <1>5. coord' \in [Nodes -> Snapshots]
    BY Zenon, <1>2, <1>4 DEF CoordinationTypeOK
  <1>6. job' \in [Nodes -> [register : BOOLEAN, base : Snapshots, next : Snapshots]]
    BY Zenon, <1>3, <1>4 DEF CoordinationTypeOK
  <1> QED
    BY <1>4, <1>5, <1>6

\* A call that ends with an error keeps the types too.
LEMMA FailType ==
    ASSUME CoordinationTypeOK, NEW n \in Nodes, Fail(n)
    PROVE  /\ coord' \in [Nodes -> Snapshots]
           /\ at' \in [Nodes -> {"idle", "lead", "load", "persist"}]
           /\ job' \in [Nodes -> [register : BOOLEAN, base : Snapshots, next : Snapshots]]
  BY InitialValues DEF Fail, CoordinationTypeOK

\* What a compare-and-set stores is a row, and what it records is a snapshot.
LEMMA WriteType ==
    ASSUME CoordinationTypeOK, NEW n \in Nodes, WriteStore(n)
    PROVE  /\ row' \in [rev : Nat, own : OwnerMaps, fence : Nat]
           /\ written' \subseteq Snapshots
  <1>1. job[n].next \in Snapshots /\ Fence(n) \in Nat
    BY Zenon DEF CoordinationTypeOK, Fence
  <1>2. job[n].next.rev \in Nat /\ job[n].next.own \in OwnerMaps
    BY <1>1 DEF Snapshots
  <1>3. row' \in [rev : Nat, own : OwnerMaps, fence : Nat]
    BY Zenon, <1>1, <1>2 DEF WriteStore
  <1>4. written' \subseteq Snapshots
    BY Zenon, <1>1 DEF WriteStore, CoordinationTypeOK
  <1> QED
    BY Zenon, <1>3, <1>4

\* A lease record that a backend grants is well typed.
LEMMA GrantType ==
    ASSUME CoordinationTypeOK, NEW n \in Nodes
    PROVE  /\ Grant(n) \in [holder : Nodes \cup {0}, fence : Nat, live : BOOLEAN]
           /\ Grant(n).fence \in Nat
           /\ lease.fence <= Grant(n).fence
           /\ Grant(n).holder = n
           /\ lease.holder # n => Grant(n).fence > lease.fence
  <1>1. lease.fence \in Nat
    BY Zenon DEF CoordinationTypeOK
  <1> QED
    BY <1>1 DEF Grant

\* Every step keeps the runtimes, the lease record and the store row well formed.
THEOREM CoordinationTyped == CoordinationSpec => []CoordinationTypeOK
  <1>1. CoordinationInit => CoordinationTypeOK
    BY InitialValues, CoordinationAssumption DEF CoordinationInit, CoordinationTypeOK
  <1>2. CoordinationTypeOK /\ [CoordinationNext]_coordinationVars => CoordinationTypeOK'
    <2> SUFFICES ASSUME CoordinationTypeOK, [CoordinationNext]_coordinationVars
                 PROVE  CoordinationTypeOK'
      OBVIOUS
    <2> USE InitialValues
    <2>1. ASSUME NEW n \in Nodes, CoordinationCall(n) PROVE CoordinationTypeOK'
      <3>1. ASSUME NEW R \in Views, MembershipCall(n, R) PROVE CoordinationTypeOK'
        BY <3>1 DEF CoordinationTypeOK, MembershipCall
      <3>2. CASE RegisterRegion(n)
        BY Zenon, <3>2 DEF CoordinationTypeOK, RegisterRegion
      <3>3. CASE RegisterAnotherRegion(n)
        BY <3>3 DEF CoordinationTypeOK, RegisterAnotherRegion
      <3> QED
        BY Zenon, <2>1, <3>1, <3>2, <3>3 DEF CoordinationCall
    <2>2. ASSUME NEW n \in Nodes, Lead(n) PROVE CoordinationTypeOK'
      <3>1. CASE LeadWithoutLease(n)
        BY Zenon, <3>1, ProceedType DEF CoordinationTypeOK, LeadWithoutLease
      <3>2. CASE RenewSucceeds(n)
        BY Zenon, <3>2, ProceedType DEF CoordinationTypeOK, RenewSucceeds
      <3>3. CASE RenewLost(n)
        BY Zenon, <3>3, FailType DEF CoordinationTypeOK, RenewLost
      <3>4. CASE AcquireSucceeds(n)
        <4>1. [fence |-> Grant(n).fence, fresh |-> TRUE] \in [fence : Nat, fresh : BOOLEAN]
          BY Zenon, GrantType
        <4>2. token' \in [Nodes -> [fence : Nat, fresh : BOOLEAN]]
          BY Zenon, <3>4, <4>1 DEF CoordinationTypeOK, AcquireSucceeds
        <4> QED
          BY <3>4, <4>2, ProceedType, GrantType DEF CoordinationTypeOK, AcquireSucceeds
      <3>5. CASE AcquireRejected(n)
        BY Zenon, <3>5, FailType DEF CoordinationTypeOK, AcquireRejected
      <3>6. CASE AcquireLost(n)
        BY Zenon, <3>6, FailType, GrantType DEF CoordinationTypeOK, AcquireLost
      <3> QED
        BY Zenon, <2>2, <3>1, <3>2, <3>3, <3>4, <3>5, <3>6 DEF Lead
    <2>3. ASSUME NEW n \in Nodes, Write(n) PROVE CoordinationTypeOK'
      <3>1. CASE Load(n)
        <4>1. Stored \in Snapshots
          BY DEF CoordinationTypeOK, Stored, Snapshots
        <4>2. Reconciled(n, Stored) \in Snapshots
          BY Zenon, <4>1, ReconciledType
        <4>3. [register |-> TRUE, base |-> Stored, next |-> Reconciled(n, Stored)]
                 \in [register : BOOLEAN, base : Snapshots, next : Snapshots]
          BY Zenon, <4>1, <4>2
        <4>4. CASE Reconciled(n, Stored) = Stored
          <5>1. /\ regions' = [regions EXCEPT ![n] = 1]
                /\ coord' = [coord EXCEPT ![n] = Stored]
                /\ cache' = [cache EXCEPT ![n] = Stored]
                /\ at' = [at EXCEPT ![n] = "idle"]
                /\ job' = [job EXCEPT ![n] = NoJob]
                /\ UNCHANGED <<view, token, late, lease, row, written, leasing>>
            BY Zenon, <3>1, <4>4 DEF Load
          <5>2. coord' \in [Nodes -> Snapshots] /\ cache' \in [Nodes -> Snapshots]
            BY Zenon, <4>1, <5>1 DEF CoordinationTypeOK
          <5> QED
            BY <5>1, <5>2 DEF CoordinationTypeOK
        <4>5. CASE Reconciled(n, Stored) # Stored
          <5>1. job' \in [Nodes -> [register : BOOLEAN, base : Snapshots, next : Snapshots]]
            BY ZenonT(30), <3>1, <4>3, <4>5 DEF CoordinationTypeOK, Load
          <5>2. /\ at' = [at EXCEPT ![n] = "persist"]
                /\ UNCHANGED <<regions, coord, cache, view, token, late, lease, row, written, leasing>>
            BY Zenon, <3>1, <4>5 DEF Load
          <5> QED
            BY <5>1, <5>2 DEF CoordinationTypeOK
        <4> QED
          BY Zenon, <4>4, <4>5
      <3>2. CASE Persist(n)
        <4>1. job[n].next \in Snapshots
          BY Zenon DEF CoordinationTypeOK
        <4>2. coord' \in [Nodes -> Snapshots] /\ cache' \in [Nodes -> Snapshots]
          BY Zenon, <3>2, <4>1 DEF CoordinationTypeOK, Persist
        <4>3. late' \in [Nodes -> Snapshots] /\ regions' \in [Nodes -> 0..2]
          BY <3>2, <4>1 DEF CoordinationTypeOK, Persist
        <4>4. job' \in [Nodes -> [register : BOOLEAN, base : Snapshots, next : Snapshots]]
          BY Zenon, <3>2 DEF CoordinationTypeOK, Persist
        <4> QED
          BY Zenon, <3>2, <4>2, <4>3, <4>4, WriteType DEF CoordinationTypeOK, Persist
      <3>3. CASE PersistRejected(n)
        BY Zenon, <3>3, FailType DEF CoordinationTypeOK, PersistRejected
      <3>4. CASE RowFault(n)
        <4>1. row' \in [rev : Nat, own : OwnerMaps, fence : Nat] /\ written' \subseteq Snapshots
          BY <3>4, WriteType DEF CoordinationTypeOK, RowFault
        <4> QED
          BY Zenon, <3>4, <4>1, FailType DEF CoordinationTypeOK, RowFault
      <3> QED
        BY <2>3, <3>1, <3>2, <3>3, <3>4 DEF Write
    <2>4. ASSUME NEW n \in Nodes, LeaseStep(n) PROVE CoordinationTypeOK'
      <3>1. CASE RenewLeases(n)
        BY <3>1 DEF CoordinationTypeOK, RenewLeases
      <3>2. CASE TokenExpires(n)
        BY Zenon, <3>2 DEF CoordinationTypeOK, TokenExpires
      <3>3. CASE ReleaseLease(n)
        BY <3>3 DEF CoordinationTypeOK, ReleaseLease
      <3> QED
        BY Zenon, <2>4, <3>1, <3>2, <3>3 DEF LeaseStep
    <2>5. CASE LeaseExpires
      BY Zenon, <2>5 DEF CoordinationTypeOK, LeaseExpires, runtimeVars
    <2>6. CASE UNCHANGED coordinationVars
      BY Zenon, <2>6 DEF CoordinationTypeOK, coordinationVars
    <2> QED
      BY <2>1, <2>2, <2>3, <2>4, <2>5, <2>6 DEF CoordinationNext
  <1> QED
    BY <1>1, <1>2, PTL DEF CoordinationSpec

------------------------------------------------------------------------------
(***************************************************************************)
(* A write is planned one revision above the one it expects, so every      *)
(* accepted write is the first of its revision: that is what makes the     *)
(* published snapshots agree.                                              *)
(***************************************************************************)
RevisionInv ==
    /\ Stored \in written
    /\ \A s \in written : s.rev <= row.rev
    /\ \A s, t \in written : s.rev = t.rev => s = t
    /\ \A n \in Nodes : cache[n] \in written
    /\ \A n \in Nodes : at[n] = "persist" => job[n].next.rev = job[n].base.rev + 1

\* An accepted compare-and-set adds a snapshot with a revision above all the others.
LEMMA AcceptedWrite ==
    ASSUME CoordinationTypeOK, RevisionInv, NEW n \in Nodes, at[n] = "persist", RowAccepts(n),
           WriteStore(n)
    PROVE  /\ Stored' \in written'
           /\ \A s \in written' : s.rev <= row'.rev
           /\ \A s, t \in written' : s.rev = t.rev => s = t
           /\ \A m \in Nodes : cache[m] \in written'
           /\ job[n].next \in written'
  <1>1. /\ job[n].next \in Snapshots
        /\ row.rev \in Nat
        /\ \A s \in written : s.rev \in Nat
    BY DEF CoordinationTypeOK, Snapshots
  <1>2. job[n].next.rev = row.rev + 1
    BY Zenon DEF RevisionInv, RowAccepts
  <1>3. /\ row'.rev = job[n].next.rev
        /\ row'.own = job[n].next.own
        /\ written' = written \cup {job[n].next}
    BY Zenon DEF WriteStore
  <1>4. Stored' = job[n].next
    BY Zenon, <1>1, <1>3 DEF Stored, Snapshots
  <1>5. \A s \in written : s.rev < job[n].next.rev
    <2>1. \A s \in written : s.rev <= row.rev
      BY Zenon DEF RevisionInv
    <2> QED
      BY <1>1, <1>2, <2>1
  <1>6. \A s \in written' : s.rev <= row'.rev
    BY <1>1, <1>2, <1>3, <1>5
  <1>7. \A s, t \in written' : s.rev = t.rev => s = t
    BY <1>1, <1>2, <1>3, <1>5 DEF RevisionInv
  <1> QED
    BY Zenon, <1>3, <1>4, <1>6, <1>7 DEF RevisionInv

\* Leading never changes what is published, and plans one revision ahead.
LEMMA ProceedRevision ==
    ASSUME CoordinationTypeOK, RevisionInv, NEW n \in Nodes, Proceed(n)
    PROVE  \A m \in Nodes : at'[m] = "persist" => job'[m].next.rev = job'[m].base.rev + 1
  <1> DEFINE next == Reconciled(n, coord[n])
  <1>1. coord[n] \in Snapshots
    BY Zenon DEF CoordinationTypeOK
  <1>2. next # coord[n] => next.rev = coord[n].rev + 1
    BY Zenon, <1>1, ReconciledType
  <1> HIDE DEF next
  <1>3. \/ /\ at' = [at EXCEPT ![n] = "load"] \/ at' = [at EXCEPT ![n] = "idle"]
           /\ job' = job
        \/ /\ next # coord[n]
           /\ at' = [at EXCEPT ![n] = "persist"]
           /\ job' = [job EXCEPT ![n] = [register |-> FALSE, base |-> coord[n], next |-> next]]
    BY Zenon DEF Proceed, next
  <1>4. /\ at \in [Nodes -> {"idle", "lead", "load", "persist"}]
        /\ job \in [Nodes -> [register : BOOLEAN, base : Snapshots, next : Snapshots]]
    BY Zenon DEF CoordinationTypeOK
  <1>5. \A m \in Nodes : at[m] = "persist" => job[m].next.rev = job[m].base.rev + 1
    BY DEF RevisionInv
  <1> QED
    BY <1>2, <1>3, <1>4, <1>5

\* A call that ends leaves no write planned.
LEMMA FailRevision ==
    ASSUME CoordinationTypeOK, RevisionInv, NEW n \in Nodes, Fail(n)
    PROVE  \A m \in Nodes : at'[m] = "persist" => job'[m].next.rev = job'[m].base.rev + 1
  BY Zenon DEF Fail, CoordinationTypeOK, RevisionInv

\* Each step keeps every revision written at most once and every publication durable.
LEMMA RevisionStep ==
    CoordinationTypeOK /\ RevisionInv /\ [CoordinationNext]_coordinationVars => RevisionInv'
  <1> SUFFICES ASSUME CoordinationTypeOK, RevisionInv, [CoordinationNext]_coordinationVars
               PROVE  RevisionInv'
    OBVIOUS
  <1>1. ASSUME NEW n \in Nodes, CoordinationCall(n) PROVE RevisionInv'
    <2>1. ASSUME NEW R \in Views, MembershipCall(n, R) PROVE RevisionInv'
      BY <2>1 DEF CoordinationTypeOK, RevisionInv, MembershipCall, Stored
    <2>2. CASE RegisterRegion(n)
      BY Zenon, <2>2 DEF CoordinationTypeOK, RevisionInv, RegisterRegion, Stored
    <2>3. CASE RegisterAnotherRegion(n)
      BY Zenon, <2>3 DEF CoordinationTypeOK, RevisionInv, RegisterAnotherRegion, Stored
    <2> QED
      BY Zenon, <1>1, <2>1, <2>2, <2>3 DEF CoordinationCall
  <1>2. ASSUME NEW n \in Nodes, Lead(n) PROVE RevisionInv'
    <2>1. (Proceed(n) \/ Fail(n)) /\ UNCHANGED <<cache, row, written>>
      BY Zenon, <1>2 DEF Lead, LeadWithoutLease, RenewSucceeds, RenewLost, AcquireSucceeds,
             AcquireLost, AcquireRejected
    <2> QED
      BY Zenon, <2>1, ProceedRevision, FailRevision DEF RevisionInv, Stored
  <1>3. CASE \E n \in Nodes : Load(n)
    <2> PICK n \in Nodes : Load(n)
      BY Zenon, <1>3
    <2>1. Stored \in Snapshots
      BY DEF CoordinationTypeOK, Stored, Snapshots
    <2>2. Reconciled(n, Stored) # Stored => Reconciled(n, Stored).rev = Stored.rev + 1
      BY Zenon, <2>1, ReconciledType
    <2>3. CASE Reconciled(n, Stored) = Stored
      <3>1. /\ cache' = [cache EXCEPT ![n] = Stored]
            /\ at' = [at EXCEPT ![n] = "idle"]
            /\ job' = [job EXCEPT ![n] = NoJob]
            /\ UNCHANGED <<row, written>>
        BY Zenon, <2>3 DEF Load
      <3> QED
        BY Zenon, <3>1 DEF CoordinationTypeOK, RevisionInv, Stored
    <2>4. CASE Reconciled(n, Stored) # Stored
      <3>1. /\ at' = [at EXCEPT ![n] = "persist"]
            /\ job' = [job EXCEPT ![n] = [register |-> TRUE, base |-> Stored,
                                         next |-> Reconciled(n, Stored)]]
            /\ UNCHANGED <<cache, row, written>>
        BY Zenon, <2>4 DEF Load
      <3>2. \A m \in Nodes : at'[m] = "persist" => job'[m].next.rev = job'[m].base.rev + 1
        BY Zenon, <2>2, <2>4, <3>1 DEF CoordinationTypeOK, RevisionInv
      <3> QED
        BY Zenon, <3>1, <3>2 DEF RevisionInv, Stored
    <2> QED
      BY <2>3, <2>4
  <1>4. CASE \E n \in Nodes : Persist(n)
    <2> PICK n \in Nodes : Persist(n)
      BY <1>4
    <2>1. /\ at[n] = "persist" /\ RowAccepts(n) /\ WriteStore(n)
          /\ cache' = [cache EXCEPT ![n] = job[n].next]
          /\ at' = [at EXCEPT ![n] = "idle"]
          /\ job' = [job EXCEPT ![n] = NoJob]
      BY Zenon DEF Persist
    <2>2. \A m \in Nodes : cache'[m] \in written'
      BY Zenon, <2>1, AcceptedWrite DEF CoordinationTypeOK
    <2>3. \A m \in Nodes : at'[m] = "persist" => job'[m].next.rev = job'[m].base.rev + 1
      BY Zenon, <2>1 DEF CoordinationTypeOK, RevisionInv
    <2> QED
      BY Zenon, <2>1, <2>2, <2>3, AcceptedWrite DEF RevisionInv
  <1>5. CASE \E n \in Nodes : PersistRejected(n) \/ RowFault(n)
    <2> PICK n \in Nodes : PersistRejected(n) \/ RowFault(n)
      BY <1>5
    <2>1. /\ Fail(n) /\ UNCHANGED cache
          /\ \/ UNCHANGED <<row, written>>
             \/ at[n] = "persist" /\ RowAccepts(n) /\ WriteStore(n)
      BY Zenon DEF PersistRejected, RowFault
    <2>2. CASE UNCHANGED <<row, written>>
      BY Zenon, <2>1, <2>2, FailRevision DEF RevisionInv, Stored
    <2>3. CASE at[n] = "persist" /\ RowAccepts(n) /\ WriteStore(n)
      BY Zenon, <2>1, <2>3, FailRevision, AcceptedWrite DEF RevisionInv
    <2> QED
      BY Zenon, <2>1, <2>2, <2>3
  <1>6. ASSUME UNCHANGED <<at, job, cache, row, written>> PROVE RevisionInv'
    BY Zenon, <1>6 DEF RevisionInv, Stored
  <1>7. (LeaseExpires \/ \E n \in Nodes : LeaseStep(n))
            => UNCHANGED <<at, job, cache, row, written>>
    BY Zenon DEF LeaseExpires, LeaseStep, RenewLeases, TokenExpires, ReleaseLease, runtimeVars
  <1>8. UNCHANGED coordinationVars => UNCHANGED <<at, job, cache, row, written>>
    BY DEF coordinationVars
  <1> QED
    BY Zenon, <1>1, <1>2, <1>3, <1>4, <1>5, <1>6, <1>7, <1>8 DEF CoordinationNext, Write

\* The strengthened invariant holds in every reachable state.
THEOREM RevisionInvariant == CoordinationSpec => []RevisionInv
  <1>1. CoordinationInit => RevisionInv
    BY DEF CoordinationInit, RevisionInv, Stored, Fresh
  <1> QED
    BY <1>1, RevisionStep, CoordinationTyped, PTL DEF CoordinationSpec

\* Two regions of any runtimes that report one owner revision route every shard alike,
\* unless one of them was given a map that was never stored.
THEOREM RevisionAgreement == CoordinationSpec => []RevisionsAgree
  <1>1. ASSUME RevisionInv PROVE RevisionsAgree
    <2>1. ASSUME NEW s \in Routed PROVE s \in written \cup NeverStored
      BY Zenon, <1>1, <2>1 DEF RevisionInv, Routed, NeverStored
    <2>2. \A s, t \in written : s.rev = t.rev => s = t
      BY Zenon, <1>1 DEF RevisionInv
    <2>3. ASSUME NEW s \in Routed, NEW t \in Routed, s.rev = t.rev
          PROVE  s = t \/ {s, t} \cap NeverStored # {}
      BY Zenon, <2>1, <2>2, <2>3
    <2> QED
      BY Zenon, <2>3 DEF RevisionsAgree
  <1> QED
    BY <1>1, RevisionInvariant, PTL

\* What reconciliation publishes was written to the store first.
THEOREM PublishedDurable == CoordinationSpec => []PublishedWasDurable
  <1>1. RevisionInv => PublishedWasDurable
    BY Zenon DEF RevisionInv, PublishedWasDurable
  <1> QED
    BY <1>1, RevisionInvariant, PTL

------------------------------------------------------------------------------
(***************************************************************************)
(* Until a runtime releases the lease its record's fencing token never     *)
(* falls, so it bounds every token a runtime holds and the one stored.     *)
(***************************************************************************)
Bounded ==
    /\ row.fence <= lease.fence
    /\ \A n \in Nodes : token[n].fence <= lease.fence

FenceInv == leasing # "released" => Bounded

LEMMA StillBelow == \A a, b, c \in Nat : a <= b /\ b <= c => a <= c
  OBVIOUS

\* A lease that is still kept after a step was kept before it and not released by it.
LEMMA StillKept ==
    ASSUME [CoordinationNext]_coordinationVars, leasing' # "released"
    PROVE  leasing # "released" /\ leasing' = leasing
  <1>1. ASSUME NEW n \in Nodes, CoordinationCall(n) PROVE leasing' = leasing
    BY Zenon, <1>1 DEF CoordinationCall, MembershipCall, RegisterRegion, RegisterAnotherRegion
  <1>2. ASSUME NEW n \in Nodes, Lead(n) PROVE leasing' = leasing
    BY Zenon, <1>2 DEF Lead, LeadWithoutLease, RenewSucceeds, RenewLost, AcquireSucceeds,
           AcquireLost, AcquireRejected
  <1>3. ASSUME NEW n \in Nodes, Write(n) PROVE leasing' = leasing
    BY Zenon, <1>3 DEF Write, Load, Persist, PersistRejected, RowFault
  <1>4. ASSUME NEW n \in Nodes, LeaseStep(n) PROVE leasing' = leasing
    BY <1>4 DEF LeaseStep, RenewLeases, TokenExpires, ReleaseLease
  <1>5. CASE LeaseExpires
    BY Zenon, <1>5 DEF LeaseExpires
  <1>6. CASE UNCHANGED coordinationVars
    BY Zenon, <1>6 DEF coordinationVars
  <1> QED
    BY Zenon, <1>1, <1>2, <1>3, <1>4, <1>5, <1>6 DEF CoordinationNext

\* Each step but a release keeps the bound.
LEMMA FenceStep ==
    CoordinationTypeOK /\ FenceInv /\ [CoordinationNext]_coordinationVars => FenceInv'
  <1> SUFFICES ASSUME CoordinationTypeOK, FenceInv, [CoordinationNext]_coordinationVars,
                      leasing' # "released"
               PROVE  Bounded'
    BY Zenon DEF FenceInv
  <1>0. Bounded
    BY StillKept DEF FenceInv
  <1>1. ASSUME UNCHANGED <<token, lease.fence, row.fence>> PROVE Bounded'
    BY Zenon, <1>0, <1>1 DEF Bounded
  <1>2. ASSUME NEW n \in Nodes, token' = [token EXCEPT ![n] = NoToken],
               UNCHANGED <<lease, row>>
        PROVE  Bounded'
    BY <1>0, <1>2 DEF CoordinationTypeOK, Bounded, NoToken
  <1>3. ASSUME NEW n \in Nodes, CoordinationCall(n) PROVE Bounded'
    BY Zenon, <1>3, <1>1 DEF CoordinationCall, MembershipCall, RegisterRegion, RegisterAnotherRegion
  <1>4. ASSUME NEW n \in Nodes, Lead(n) PROVE Bounded'
    <2>1. CASE AcquireSucceeds(n)
      <3>1. /\ lease' = Grant(n)
            /\ token' = [token EXCEPT ![n] = [fence |-> Grant(n).fence, fresh |-> TRUE]]
            /\ row' = row
        BY <2>1 DEF AcquireSucceeds
      <3>2. lease.fence <= lease'.fence /\ lease'.fence \in Nat
        BY Zenon, <3>1, GrantType
      <3>3. \A m \in Nodes : token'[m].fence \in {token[m].fence, lease'.fence}
        BY Zenon, <3>1 DEF CoordinationTypeOK
      <3>4. lease.fence \in Nat /\ row.fence \in Nat /\ \A m \in Nodes : token[m].fence \in Nat
        BY DEF CoordinationTypeOK
      <3> QED
        BY <1>0, <3>1, <3>2, <3>3, <3>4 DEF Bounded
    <2>2. CASE RenewLost(n)
      BY Zenon, <2>2, <1>2 DEF RenewLost
    <2>3. CASE LeadWithoutLease(n) \/ RenewSucceeds(n) \/ AcquireRejected(n)
      BY Zenon, <2>3, <1>1 DEF LeadWithoutLease, RenewSucceeds, AcquireRejected
    <2>4. CASE AcquireLost(n)
      <3>1. lease' = Grant(n) /\ UNCHANGED <<token, row>>
        BY <2>4 DEF AcquireLost
      <3>2. lease.fence <= lease'.fence /\ lease'.fence \in Nat
        BY Zenon, <3>1, GrantType
      <3>3. lease.fence \in Nat /\ row.fence \in Nat /\ \A m \in Nodes : token[m].fence \in Nat
        BY DEF CoordinationTypeOK
      <3> QED
        BY Zenon, <1>0, <3>1, <3>2, <3>3, StillBelow DEF Bounded
    <2> QED
      BY Zenon, <1>4, <2>1, <2>2, <2>3, <2>4 DEF Lead
  <1>5. ASSUME NEW n \in Nodes, Write(n) PROVE Bounded'
    <2>1. UNCHANGED <<token, lease>> /\ (UNCHANGED row \/ WriteStore(n))
      BY Zenon, <1>5 DEF Write, Load, Persist, PersistRejected, RowFault
    <2>2. WriteStore(n) => row'.fence \in {0, token[n].fence}
      BY DEF WriteStore, Fence
    <2>3. lease.fence \in Nat
      BY Zenon DEF CoordinationTypeOK
    <2>4. CASE UNCHANGED row
      BY Zenon, <1>1, <2>1, <2>4
    <2>5. CASE WriteStore(n)
      <3>1. 0 <= lease.fence
        BY <2>3
      <3>2. row'.fence <= lease.fence
        BY Zenon, <1>0, <2>2, <2>5, <3>1 DEF Bounded
      <3> QED
        BY Zenon, <1>0, <2>1, <3>2 DEF Bounded
    <2> QED
      BY Zenon, <2>1, <2>4, <2>5
  <1>6. ASSUME NEW n \in Nodes, LeaseStep(n) PROVE Bounded'
    <2>1. CASE RenewLeases(n)
      BY Zenon, <2>1, <1>2 DEF RenewLeases
    <2>2. CASE TokenExpires(n)
      BY <1>0, <2>2 DEF CoordinationTypeOK, Bounded, TokenExpires
    <2>3. CASE ReleaseLease(n)
      BY Zenon, <2>3, <1>2, StillKept DEF ReleaseLease
    <2> QED
      BY <1>6, <2>1, <2>2, <2>3 DEF LeaseStep
  <1>7. CASE LeaseExpires
    <2>1. lease'.fence = lease.fence /\ UNCHANGED <<token, row>>
      BY <1>7 DEF LeaseExpires, runtimeVars, CoordinationTypeOK
    <2> QED
      BY <2>1, <1>1
  <1>8. CASE UNCHANGED coordinationVars
    BY Zenon, <1>8, <1>1 DEF coordinationVars
  <1> QED
    BY Zenon, <1>3, <1>4, <1>5, <1>6, <1>7, <1>8 DEF CoordinationNext

\* The bound holds in every state before a release.
THEOREM FenceInvariant == CoordinationSpec => []FenceInv
  <1>1. CoordinationInit => FenceInv
    BY DEF CoordinationInit, FenceInv, Bounded, NoToken, NoLease
  <1> QED
    BY <1>1, FenceStep, CoordinationTyped, PTL DEF CoordinationSpec

\* The holder of a lease that nobody released is never fenced out by the store.
THEOREM HolderKeepsWriting == CoordinationSpec => []HolderNotFencedOut
  <1>1. FenceInv => HolderNotFencedOut
    BY DEF FenceInv, Bounded, HolderNotFencedOut
  <1> QED
    BY <1>1, FenceInvariant, PTL

\* A takeover of a lease that nobody released gets a token above every token in use.
THEOREM TakeoverFences == CoordinationSpec => FencedTakeover
  <1> DEFINE Takeover == leasing # "released" /\ lease'.holder \notin {0, lease.holder}
                          => \A n \in Nodes : lease'.fence > token[n].fence
  <1>1. CoordinationTypeOK /\ FenceInv /\ [CoordinationNext]_coordinationVars => [Takeover]_coordinationVars
    <2> SUFFICES ASSUME CoordinationTypeOK, FenceInv, [CoordinationNext]_coordinationVars, leasing # "released",
                        lease'.holder \notin {0, lease.holder}
                 PROVE  \A n \in Nodes : lease'.fence > token[n].fence
      OBVIOUS
    <2>1. lease' # lease
      OBVIOUS
    <2>2. ~LeaseExpires
      BY Zenon DEF LeaseExpires, CoordinationTypeOK
    <2>3. PICK m \in Nodes : AcquireSucceeds(m) \/ AcquireLost(m)
      <3>1. PICK m \in Nodes : CoordinationCall(m) \/ Lead(m) \/ Write(m) \/ LeaseStep(m)
        BY <2>1, <2>2 DEF CoordinationNext, coordinationVars
      <3>2. ~CoordinationCall(m)
        BY Zenon, <2>1 DEF CoordinationCall, MembershipCall, RegisterRegion, RegisterAnotherRegion
      <3>3. ~Write(m)
        BY <2>1 DEF Write, Load, Persist, PersistRejected, RowFault
      <3>4. ~LeaseStep(m)
        BY <2>1 DEF LeaseStep, RenewLeases, TokenExpires, ReleaseLease, NoLease
      <3>5. Lead(m) => AcquireSucceeds(m) \/ AcquireLost(m)
        BY Zenon, <2>1 DEF Lead, LeadWithoutLease, RenewSucceeds, RenewLost, AcquireRejected
      <3> QED
        BY Zenon, <3>1, <3>2, <3>3, <3>4, <3>5
    <2>4. lease' = Grant(m)
      BY Zenon, <2>3 DEF AcquireSucceeds, AcquireLost
    <2>5. lease'.holder = m /\ lease.holder # m
      BY <2>4, GrantType
    <2>6. lease'.fence > lease.fence /\ lease'.fence \in Nat
      BY Zenon, <2>4, <2>5, GrantType
    <2>7. lease.fence \in Nat /\ \A n \in Nodes : token[n].fence \in Nat
      BY DEF CoordinationTypeOK
    <2> QED
      BY <2>6, <2>7 DEF FenceInv, Bounded
  <1> QED
    BY <1>1, FenceInvariant, CoordinationTyped, PTL DEF CoordinationSpec, FencedTakeover
==============================================================================
