-------------------------- MODULE AgentChoreography --------------------------
(***************************************************************************)
(* The inter-entity choreography of rakka-agent: the exchange journal that *)
(* is part of every entity's durable record, the hosts that serve an       *)
(* entity (one of them may have lost its shard and not know it), and the   *)
(* drive that re-sends what an entity owes until it is settled.            *)
(*                                                                         *)
(* A host is used by one actor, so its calls do not overlap; every change  *)
(* is computed from its cached record and compare-and-set.  A revision is  *)
(* only ever compared for equality, so a cached record carries fresh: has  *)
(* anyone written the entity since it was loaded?                          *)
(*                                                                         *)
(* What a participant does with an exchange is its result and the          *)
(* exchanges it owes in turn; payloads and timestamps are left out.        *)
(***************************************************************************)
EXTENDS Naturals, Sequences, FiniteSets

CONSTANTS
    Entities,
    Hosts,
    EntityOf,         \* the entity each host serves
    Ops,              \* operation ids of the exchanges
    From, To,         \* initiator and target of each exchange
    Roots,            \* exchanges a command initiates
    Verdicts,         \* the results its target may give each exchange
    OwesOnApply,      \* exchanges the target owes once it has accepted one
    OwesOnSettle,     \* exchanges the initiator owes once one was accepted
    Registrations,    \* roots that register a task with one it depends on
    EndsOnApply,      \* exchanges whose acceptance ends the target
    EndsOnSettle,     \* exchanges whose acceptance, once settled, ends the initiator
    LogCapacities,    \* values of AGENT_EXCHANGE_LOG_CAPACITY to consider
    PendingCapacity,  \* AGENT_EXCHANGE_PENDING_CAPACITY
    MaxFaults         \* bound: crashes, lost envelopes, replies and acknowledgements

ASSUME ChoreographyAssumption ==
    /\ EntityOf \in [Hosts -> Entities]
    /\ From \in [Ops -> Entities] /\ To \in [Ops -> Entities]
    /\ Roots \subseteq Ops /\ "idle" \notin Ops
    /\ Verdicts \in [Ops -> SUBSET {"accepted", "rejected"}]
    /\ OwesOnApply \in [Ops -> SUBSET Ops] /\ OwesOnSettle \in [Ops -> SUBSET Ops]
    /\ \A o \in Ops : /\ \A p \in OwesOnApply[o] : From[p] = To[o]
                      /\ \A p \in OwesOnSettle[o] : From[p] = From[o]
                      /\ Registrations \cap (OwesOnApply[o] \cup OwesOnSettle[o]) = {}
    /\ Registrations \subseteq Roots
    /\ EndsOnApply \subseteq Ops /\ EndsOnSettle \subseteq Ops
    /\ LogCapacities \subseteq Nat \ {0}
    /\ PendingCapacity \in Nat /\ MaxFaults \in Nat

VARIABLES
    capacity,  \* AGENT_EXCHANGE_LOG_CAPACITY; never changes
    store,     \* per entity: its durable record
    cache,     \* per host: the record it recovered and whether it is current
    pass,      \* per host: exchanges its settle pass has yet to deliver
    call,      \* per host: the exchange its pass is delivering, or Idle
    answer,    \* per host: the reply to that delivery, or NoAnswer
    net,       \* envelopes in flight
    faults,    \* faults so far
    owed,      \* exchanges ever recorded as pending
    decided,   \* per exchange: results a receiver persisted
    outcome,   \* per exchange: results its initiator persisted
    applied,   \* per exchange: transitions it caused, counted up to 2
    evicted    \* exchanges that have left their receiver's applied log

history == <<owed, decided, outcome, applied, evicted>>
vars == <<capacity, store, cache, pass, call, answer, net, faults, history>>

Results == {"accepted", "rejected"}

Idle == "idle"
NoAnswer == "none"
NoRecord == [fresh |-> FALSE]

\* A pending exchange's last_failure_code, or that it is not pending.
Codes == {"absent", "new", "failed", "refused"}

EmptyRecord ==
    [created |-> FALSE,
     ended |-> FALSE,
     commands |-> {},
     pending |-> [o \in Ops |-> "absent"],
     settled |-> <<>>,
     applied |-> <<>>]

Init ==
    /\ capacity \in LogCapacities
    /\ store = [e \in Entities |-> EmptyRecord]
    /\ cache = [h \in Hosts |-> NoRecord]
    /\ pass = [h \in Hosts |-> {}]
    /\ call = [h \in Hosts |-> Idle]
    /\ answer = [h \in Hosts |-> NoAnswer]
    /\ net = {}
    /\ faults = 0
    /\ owed = {}
    /\ decided = [o \in Ops |-> {}]
    /\ outcome = [o \in Ops |-> {}]
    /\ applied = [o \in Ops |-> 0]
    /\ evicted = {}

------------------------------------------------------------------------------
(* The journal *)

Pending(rec) == {o \in Ops : rec.pending[o] # "absent"}

Settled(rec) == {rec.settled[i] : i \in DOMAIN rec.settled}

AppliedOps(rec) == {rec.applied[i].op : i \in DOMAIN rec.applied}

\* An operation is pushed only when the log does not hold it: there is one entry.
AppliedResult(rec, o) ==
    LET found == CHOOSE i \in DOMAIN rec.applied : rec.applied[i].op = o
    IN  rec.applied[found].result

HasInitiated(rec, o) == o \in Pending(rec) \cup Settled(rec)

\* The resolved logs are rings: the oldest entry makes room.
PushResolved(log, x) ==
    IF Len(log) < capacity THEN Append(log, x) ELSE Append(Tail(log), x)

\* journal.initiate for each exchange of S: a pending or settled one is left alone.
Owe(rec, S) ==
    [rec EXCEPT !.pending =
        [o \in Ops |-> IF o \in S /\ ~HasInitiated(rec, o) THEN "new" ELSE @[o]]]

\* terminate: a terminal entity has no use for an answer to its registrations, and
\* withdraws them in the same write.
Ended(rec) ==
    [rec EXCEPT !.ended = TRUE,
                !.pending = [o \in Ops |-> IF o \in Registrations THEN "absent" ELSE @[o]]]

FitsPending(rec) == Cardinality(Pending(rec)) =< PendingCapacity

------------------------------------------------------------------------------
(* The host *)

Recovered(h) == cache[h] # NoRecord

\* The host is between two messages of its mailbox.
Free(h) == call[h] = Idle /\ pass[h] = {}

Record(h) == cache[h].record

Fault ==
    /\ faults < MaxFaults
    /\ faults' = faults + 1

Loaded(h) == [cache EXCEPT ![h] = [fresh |-> TRUE, record |-> store[EntityOf[h]]]]

\* ensure_recovered: a host without a record loads it before it serves a message.
Recover(h) ==
    /\ Free(h) /\ ~Recovered(h)
    /\ cache' = Loaded(h)
    /\ UNCHANGED <<capacity, store, pass, call, answer, net, faults, history>>

\* Everyone else who has loaded the record is now behind.
Overtaken(h) ==
    [g \in Hosts |-> IF g # h /\ EntityOf[g] = EntityOf[h] /\ Recovered(g)
                     THEN [cache[g] EXCEPT !.fresh = FALSE]
                     ELSE cache[g]]

WritesAnyway(h, next) ==
    /\ store' = [store EXCEPT ![EntityOf[h]] = next]
    /\ cache' = [Overtaken(h) EXCEPT ![h] = [fresh |-> TRUE, record |-> next]]

\* compare_and_set succeeds and returns the persisted record.
Persisted(h, next) ==
    /\ cache[h].fresh
    /\ store' = [store EXCEPT ![EntityOf[h]] = next]
    /\ cache' = [Overtaken(h) EXCEPT ![h] = [fresh |-> TRUE, record |-> next]]

\* A revision conflict drops the cached record.
Conflict(h) ==
    /\ ~cache[h].fresh
    /\ cache' = [cache EXCEPT ![h] = NoRecord]
    /\ UNCHANGED store

\* The write took place and its acknowledgement was lost: the host keeps the
\* record it had, whose revision is now behind.
AckLost(h, next) ==
    /\ cache[h].fresh
    /\ Fault
    /\ store' = [store EXCEPT ![EntityOf[h]] = next]
    /\ cache' = [Overtaken(h) EXCEPT ![h].fresh = FALSE]

\* One compare_and_set that takes place, and one that does not.
Write(h, next) == (Persisted(h, next) /\ UNCHANGED faults) \/ AckLost(h, next)

Overruled(h) == Conflict(h) /\ UNCHANGED faults

\* The process ends; a delivery it was waiting for goes unanswered.
Crash(h) ==
    /\ Recovered(h)
    /\ Fault
    /\ cache' = [cache EXCEPT ![h] = NoRecord]
    /\ pass' = [pass EXCEPT ![h] = {}]
    /\ call' = [call EXCEPT ![h] = Idle]
    /\ answer' = [answer EXCEPT ![h] = NoAnswer]
    /\ UNCHANGED <<capacity, store, net, history>>

NewlyOwed(e, next) == Pending(next) \ Pending(store[e])

\* A command's transition: create the entity, or initiate a root exchange.  A
\* repeated command is answered from the record.
Create(h) ==
    /\ Free(h) /\ Recovered(h) /\ ~Record(h).created
    /\ LET next == [Record(h) EXCEPT !.created = TRUE]
       IN  Write(h, next) \/ Overruled(h)
    /\ UNCHANGED <<capacity, pass, call, answer, net, history>>

\* A command, or the entity's own pass, makes it terminal.
End(h) ==
    /\ Free(h) /\ Recovered(h) /\ Record(h).created /\ ~Record(h).ended
    /\ Write(h, Ended(Record(h))) \/ Overruled(h)
    /\ UNCHANGED <<capacity, pass, call, answer, net, history>>

\* A terminal task registers nothing.
Initiate(h, o) ==
    /\ Free(h) /\ Recovered(h) /\ Record(h).created
    /\ Record(h).ended => o \notin Registrations
    /\ o \in Roots /\ From[o] = EntityOf[h]
    /\ o \notin Record(h).commands
    /\ LET next == Owe([Record(h) EXCEPT !.commands = @ \cup {o}], {o})
       IN  /\ FitsPending(next)
           /\ \/ Write(h, next) /\ owed' = owed \cup {o}
              \/ Overruled(h) /\ UNCHANGED owed
    /\ UNCHANGED <<capacity, pass, call, answer, net, decided, outcome, applied, evicted>>

------------------------------------------------------------------------------
(* The drive *)

StartPassOnNew(h) ==
    /\ Free(h)
    /\ cache' = Loaded(h)
    /\ pass' = [pass EXCEPT ![h] =
                 {o \in Ops : store[EntityOf[h]].pending[o] = "new"}]
    /\ UNCHANGED <<capacity, store, call, answer, net, faults, history>>

\* settle_side_effects loads the record again and takes what it owes.
StartPass(h) ==
    /\ Free(h)
    /\ cache' = Loaded(h)
    /\ pass' = [pass EXCEPT ![h] = Pending(store[EntityOf[h]])]
    /\ UNCHANGED <<capacity, store, call, answer, net, faults, history>>

\* drive_pending_exchanges delivers one outstanding exchange and waits for the
\* reply; meanwhile the host serves nobody.
Deliver(h, o) ==
    /\ call[h] = Idle /\ o \in pass[h]
    /\ net' = net \cup {o}
    /\ call' = [call EXCEPT ![h] = o]
    /\ UNCHANGED <<capacity, store, cache, pass, answer, faults, history>>

\* The pass goes on to its next exchange, or is given up after an error.
EndCall(h, error) ==
    /\ call' = [call EXCEPT ![h] = Idle]
    /\ answer' = [answer EXCEPT ![h] = NoAnswer]
    /\ pass' = [pass EXCEPT ![h] = IF error THEN {} ELSE @ \ {call[h]}]

\* This step wrote, and the write failed or went unacknowledged.
WriteFailed(h) == cache'[h] # cache[h] /\ ~cache'[h].fresh

\* A failure is written only when its code changes.
MarkPending(h, code) ==
    LET o == call[h]
        next == [Record(h) EXCEPT !.pending[o] = code]
    IN  IF o \in Pending(Record(h)) /\ Record(h).pending[o] # code
        THEN Write(h, next) \/ Overruled(h)
        ELSE UNCHANGED <<store, cache, faults>>

\* The delivery fails, or its reply does not come in time.
DeliveryFails(h) ==
    /\ call[h] # Idle /\ answer[h] = NoAnswer
    /\ MarkPending(h, "failed")
    /\ EndCall(h, WriteFailed(h))
    /\ UNCHANGED <<capacity, net, history>>

\* An envelope is lost on its way.
Lose(o) ==
    /\ o \in net
    /\ Fault
    /\ net' = net \ {o}
    /\ UNCHANGED <<capacity, store, cache, pass, call, answer, history>>

\* A copy of an envelope arrives late: the exchange has been decided from another one.
Repeat(o) ==
    /\ o \in owed \ net
    /\ decided[o] # {}
    /\ Fault
    /\ net' = net \cup {o}
    /\ UNCHANGED <<capacity, store, cache, pass, call, answer, history>>

SettledRecordOwesNothing(rec, o, r) ==
    [rec EXCEPT !.pending[o] = "absent", !.settled = PushResolved(@, o)]

\* settle: the journal first, then the participant's consequence, in one write.
SettledRecord(rec, o, r) ==
    LET resolved == [rec EXCEPT !.pending[o] = "absent", !.settled = PushResolved(@, o)]
    IN  Owe(IF r = "accepted" /\ o \in EndsOnSettle THEN Ended(resolved) ELSE resolved,
            IF r = "accepted" THEN OwesOnSettle[o] ELSE {})

\* The outcome and its consequence are one write; a full pending log refuses it.
Settle(h) ==
    LET o == call[h]
        r == answer[h]
        next == SettledRecord(Record(h), o, r)
        known == o \in Pending(Record(h)) \ Settled(Record(h))
    IN  /\ r \in Results
        /\ IF known /\ FitsPending(next)
           THEN \/ /\ Write(h, next)
                   /\ owed' = owed \cup NewlyOwed(EntityOf[h], next)
                   /\ outcome' = [outcome EXCEPT ![o] = @ \cup {r}]
                \/ Overruled(h) /\ UNCHANGED <<owed, outcome>>
           ELSE UNCHANGED <<store, cache, faults, owed, outcome>>
        /\ EndCall(h, WriteFailed(h) \/ (known /\ ~FitsPending(next)))
        /\ UNCHANGED <<capacity, net, decided, applied, evicted>>

SettlesRefusal(h) ==
    LET next == SettledRecord(Record(h), call[h], "rejected")
    IN  /\ answer[h] = "unable"
        /\ \/ Write(h, next) /\ outcome' = [outcome EXCEPT ![call[h]] = @ \cup {"rejected"}]
           \/ Overruled(h) /\ UNCHANGED outcome
        /\ EndCall(h, WriteFailed(h))
        /\ UNCHANGED <<capacity, net, owed, decided, applied, evicted>>

\* An unsettleable refusal leaves the exchange outstanding, with its code.
KeepOutstanding(h) ==
    /\ answer[h] = "unable"
    /\ IF call[h] \in Settled(Record(h))
       THEN UNCHANGED <<store, cache, faults>>
       ELSE MarkPending(h, "refused")
    /\ EndCall(h, WriteFailed(h))
    /\ UNCHANGED <<capacity, net, history>>

------------------------------------------------------------------------------
(* The receiver *)

\* The reply reaches a host that waits for it; a host that gave up or crashed
\* meanwhile does not get it, and a reply may be lost.
Answer(o, r) ==
    \/ /\ \E h \in Hosts : /\ call[h] = o /\ answer[h] = NoAnswer
                           /\ answer' = [answer EXCEPT ![h] = r]
       /\ UNCHANGED faults
    \/ (\A h \in Hosts : call[h] # o \/ answer[h] # NoAnswer) /\ UNCHANGED <<answer, faults>>
    \/ Fault /\ UNCHANGED answer

\* The host has taken the envelope from its mailbox.
Takes(h, o) ==
    /\ Free(h) /\ Recovered(h)
    /\ o \in net /\ To[o] = EntityOf[h]
    /\ net' = net \ {o}

RefusesDuplicate(h, o) ==
    /\ Takes(h, o)
    /\ o \in AppliedOps(Record(h))
    /\ Answer(o, "rejected")
    /\ UNCHANGED <<capacity, store, cache, pass, call, history>>

\* A known operation is answered from the applied log, without a transition.
Replay(h, o) ==
    /\ Takes(h, o)
    /\ o \in AppliedOps(Record(h))
    /\ Answer(o, AppliedResult(Record(h), o))
    /\ UNCHANGED <<capacity, store, cache, pass, call, history>>

\* An entity that does not exist yet is unable to answer, and records nothing; a
\* task that has no room for one more dependent is, until it is terminal.
Unable(h, o) ==
    /\ Takes(h, o)
    /\ o \notin AppliedOps(Record(h))
    /\ ~Record(h).created \/ (o \in Registrations /\ ~Record(h).ended)
    /\ Answer(o, "unable")
    /\ UNCHANGED <<capacity, store, cache, pass, call, history>>

AppliedRecordUnlogged(rec, o, r) ==
    Owe(IF r = "accepted" /\ o \in EndsOnApply THEN Ended(rec) ELSE rec,
        IF r = "accepted" THEN OwesOnApply[o] ELSE {})

\* The transition, its result and what it owes.
AppliedRecord(rec, o, r) ==
    LET resolved == [rec EXCEPT !.applied = PushResolved(@, [op |-> o, result |-> r])]
    IN  Owe(IF r = "accepted" /\ o \in EndsOnApply THEN Ended(resolved) ELSE resolved,
            IF r = "accepted" THEN OwesOnApply[o] ELSE {})

\* A new operation: transition, result and what it owes are one write, and the
\* reply is sent after it.
Apply(h, o, r) ==
    LET e == EntityOf[h]
        next == AppliedRecord(Record(h), o, r)
    IN  /\ Takes(h, o)
        /\ o \notin AppliedOps(Record(h)) /\ Record(h).created
        /\ IF FitsPending(next)
           THEN \/ /\ \/ Persisted(h, next) /\ Answer(o, r)
                      \/ AckLost(h, next) /\ UNCHANGED answer
                   /\ owed' = owed \cup NewlyOwed(e, next)
                   /\ decided' = [decided EXCEPT ![o] = @ \cup {r}]
                   /\ applied' = [applied EXCEPT ![o] = IF @ < 2 THEN @ + 1 ELSE @]
                   /\ evicted' = evicted \cup (AppliedOps(store[e]) \ AppliedOps(next))
                \/ Overruled(h) /\ UNCHANGED <<answer, owed, decided, applied, evicted>>
           ELSE UNCHANGED <<store, cache, answer, faults, owed, decided, applied, evicted>>
        /\ UNCHANGED <<capacity, pass, call, outcome>>

Next ==
    \/ \E h \in Hosts :
        \/ Recover(h) \/ Crash(h) \/ Create(h) \/ End(h) \/ StartPass(h)
        \/ DeliveryFails(h) \/ Settle(h) \/ KeepOutstanding(h)
        \/ \E o \in Ops :
            \/ Initiate(h, o) \/ Deliver(h, o)
            \/ Replay(h, o) \/ Unable(h, o)
            \/ \E r \in Verdicts[o] : Apply(h, o, r)
    \/ \E o \in Ops : Lose(o) \/ Repeat(o)

\* A host makes the next step of a settle pass.
Drive(h) ==
    \/ StartPass(h) \/ DeliveryFails(h) \/ Settle(h) \/ KeepOutstanding(h)
    \/ \E o \in Ops : Deliver(h, o)

\* A host serves an envelope while its sender still waits for the reply.
ServeInTime(o) ==
    /\ \E h \in Hosts : Replay(h, o) \/ Unable(h, o) \/ \E r \in Verdicts[o] : Apply(h, o, r)
    /\ answer' # answer

\* A host is swept again and again, and a pass that has begun goes on.
Fairness == \A h \in Hosts : WF_vars(Drive(h))

Spec == Init /\ [][Next]_vars

FairSpec == Spec /\ Fairness

------------------------------------------------------------------------------
(* Properties *)

Records ==
    [created : BOOLEAN, ended : BOOLEAN, commands : SUBSET Roots, pending : [Ops -> Codes], settled : Seq(Ops),
     applied : Seq([op : Ops, result : Results])]

\* Every variable has its type, and the resolved logs stay within their capacity.
TypeOK ==
    /\ capacity \in LogCapacities
    /\ store \in [Entities -> Records]
    /\ cache \in [Hosts -> {NoRecord} \cup [fresh : BOOLEAN, record : Records]]
    /\ pass \in [Hosts -> SUBSET Ops] /\ call \in [Hosts -> Ops \cup {Idle}]
    /\ answer \in [Hosts -> Results \cup {"unable", NoAnswer}]
    /\ net \subseteq Ops /\ faults \in 0..MaxFaults
    /\ owed \subseteq Ops /\ evicted \subseteq Ops
    /\ decided \in [Ops -> SUBSET Results] /\ outcome \in [Ops -> SUBSET Results]
    /\ applied \in [Ops -> 0..2]
    /\ \A e \in Entities : Len(store[e].applied) =< capacity /\ Len(store[e].settled) =< capacity

\* However often an envelope is delivered, and whichever host takes it, it causes
\* one transition; only an operation that has left the applied log can cause
\* another ("the ring is the fast path; the fence is the guarantee").
OneTransition == \A o \in Ops : applied[o] = 2 => o \in evicted

\* A reply never gives the initiator another result than the one the receiver
\* decided, while the receiver's log remembers it.
OneResult ==
    \A o \in Ops : o \notin evicted =>
        /\ \A r, s \in decided[o] : r = s
        /\ \A h \in Hosts : call[h] = o /\ answer[h] \in Results => answer[h] \in decided[o]

\* What an exchange makes its receiver owe is recorded with the transition: no
\* crash, conflict or lost acknowledgement separates the two.
NothingForgotten ==
    \A o \in Ops :
        /\ "accepted" \in decided[o] => OwesOnApply[o] \subseteq owed
        /\ "accepted" \in outcome[o] => OwesOnSettle[o] \subseteq owed

\* The initiator has withdrawn an exchange: a registration of an entity that ended.
Withdrawn(o) == o \in Registrations /\ store[From[o]].ended

\* An exchange is owed until it is settled: it is pending, or it has an outcome, or
\* it is a registration its initiator withdrew when it ended; and a withdrawn
\* registration holds no slot and is not owed again, whatever late write or reply
\* follows.
OwedUntilSettled ==
    /\ \A o \in owed : o \in Pending(store[From[o]]) \/ outcome[o] # {} \/ Withdrawn(o)
    /\ \A e \in Entities : store[e].ended => Pending(store[e]) \cap Registrations = {}

\* The hosts implement the saga: see ExchangeSaga.
Saga == INSTANCE ExchangeSaga

SagaSpec == Saga!Spec

(***************************************************************************)
(* What a deployment must provide and the code cannot: an exchange that is *)
(* delivered again and again is, again and again, served while its sender  *)
(* waits.  A host in a pass serves nobody, so two entities that owe each   *)
(* other an exchange can time out on each other; but their sweeps do not   *)
(* stay in step forever, the target has a route, and not every reply comes *)
(* too late.                                                               *)
(***************************************************************************)
Timely(o) ==
    []<><<\E h \in Hosts : Deliver(h, o)>>_vars => []<><<ServeInTime(o)>>_vars

\* The target can decide the exchange, now and from now on: it exists and, for a
\* registration it may have no room for, it is terminal.
Answerable(o) ==
    /\ store[To[o]].created
    /\ o \in Registrations => store[To[o]].ended

\* An exchange whose delivery is timely and whose target can decide it is settled in
\* the end, or withdrawn, whatever was lost, repeated or restarted on the way, and
\* whatever else is never answered.
OwedSettles ==
    \A o \in Ops :
        Timely(o) => ((o \in owed /\ Answerable(o)) ~> (outcome[o] # {} \/ Withdrawn(o)))
==============================================================================
