----------------------- MODULE AgentChoreographyProofs -----------------------
(***************************************************************************)
(* Proofs about AgentChoreography for any number of entities, of hosts     *)
(* that believe they serve one, of exchanges and of faults.                *)
(*                                                                         *)
(* A host edits the record it has cached.  Current makes an accepted write *)
(* an edit of the stored record, and every edit keeps Journals: what is    *)
(* pending is owed, what is settled has an outcome, and what was applied   *)
(* is remembered until it is evicted.  Owing says what an edit may take    *)
(* from the pending log.                                                   *)
(***************************************************************************)
EXTENDS AgentChoreography, TLAPS

CacheValues == {NoRecord} \cup [fresh : BOOLEAN, record : Records]

Elements(log) == {log[i] : i \in DOMAIN log}

\* A host whose revision is current holds the stored record.
Current == \A h \in Hosts : cache[h].fresh => cache[h].record = store[EntityOf[h]]

\* A record's applied log holds results that were decided.
Truthful(rec) == \A x \in Elements(rec.applied) : x.result \in decided[x.op]

\* What an entity's journal says of the exchanges it owes and owed.
Journal(e) ==
    /\ Pending(store[e]) \subseteq {o \in owed : From[o] = e}
    /\ Settled(store[e]) \subseteq {o \in owed : outcome[o] # {}}
    /\ Truthful(store[e])

Journals == \A e \in Entities : Journal(e)

CachedTruth == \A h \in Hosts : Recovered(h) => Truthful(cache[h].record)

\* Whatever is being delivered is owed by the entity that delivers it, and a
\* reply on its way back was decided.
Flow ==
    /\ net \subseteq owed
    /\ \A h \in Hosts :
        /\ pass[h] \subseteq {o \in owed : From[o] = EntityOf[h]}
        /\ call[h] # Idle => call[h] \in pass[h]
        /\ answer[h] # NoAnswer => call[h] # Idle
        /\ answer[h] \in Results => answer[h] \in decided[call[h]]

\* A host in a pass holds a record.
Held == \A h \in Hosts : pass[h] # {} => Recovered(h)

\* An operation that caused a transition is in its target's log or was evicted.
Remembered ==
    \A o \in Ops : applied[o] # 0 => o \in AppliedOps(store[To[o]]) \cup evicted

\* The part of the type invariant about everything but the records.
FlowType ==
    /\ pass \in [Hosts -> SUBSET Ops] /\ call \in [Hosts -> Ops \cup {Idle}]
    /\ answer \in [Hosts -> Results \cup {"unable", NoAnswer}]
    /\ net \subseteq Ops /\ faults \in 0..MaxFaults
    /\ owed \subseteq Ops /\ evicted \subseteq Ops
    /\ decided \in [Ops -> SUBSET Results] /\ outcome \in [Ops -> SUBSET Results]
    /\ applied \in [Ops -> 0..2]

RecordsOK ==
    /\ capacity \in LogCapacities
    /\ store \in [Entities -> Records]
    /\ cache \in [Hosts -> CacheValues]
    /\ \A e \in Entities : Len(store[e].applied) =< capacity /\ Len(store[e].settled) =< capacity
    /\ Current /\ Journals /\ CachedTruth

IInv ==
    /\ FlowType /\ RecordsOK /\ Flow /\ Held
    /\ Remembered /\ OneTransition /\ OwedUntilSettled /\ NothingForgotten

\* The history of the exchanges only grows.
Kept ==
    /\ owed \subseteq owed' /\ capacity' = capacity
    /\ \A o \in Ops : decided[o] \subseteq decided'[o] /\ outcome[o] \subseteq outcome'[o]

\* Nobody loses its record but a host whose write failed.
KeepsRecords(h) ==
    /\ \A g \in Hosts \ {h} : Recovered(g) => Recovered(g)'
    /\ Recovered(h)' \/ WriteFailed(h)

\* What the step's write leaves in the journal of the host's entity.
JournalEdit(h, next) ==
    /\ next \in Records
    /\ Len(next.applied) =< capacity /\ Len(next.settled) =< capacity
    /\ Pending(next) \subseteq {o \in owed' : From[o] = EntityOf[h]}
    /\ Settled(next) \subseteq {o \in owed' : outcome'[o] # {}}
    /\ \A x \in Elements(next.applied) : x.result \in decided'[x.op]

\* A record of a terminal entity owes no registration.
Moot(rec) == rec.ended => Pending(rec) \cap Registrations = {}

\* What one record had pending, a later one still has, or has withdrawn.
Carries(rec, next, S) ==
    /\ rec.ended => next.ended
    /\ Moot(rec) => Moot(next)
    /\ \A p \in S : p \in Pending(next) \/ (p \in Registrations /\ next.ended)

\* What the step's write leaves of the exchanges the entity owed.
Owing(e, next) ==
    /\ store[e].ended => next.ended
    /\ Moot(next)
    /\ \A o \in Pending(store[e]) :
            o \in Pending(next) \/ outcome'[o] # {} \/ (o \in Registrations /\ next.ended)
    /\ \A o \in owed' \ owed : From[o] = e /\ o \in Pending(next)

------------------------------------------------------------------------------
(* The edits of a record *)

\* A position before the last one has a successor.
LEMMA Below ==
    ASSUME NEW n \in Nat, NEW i \in 1..n, i # n
    PROVE  i \in 1..n - 1 /\ i + 1 \in 1..n
OBVIOUS

\* A push keeps the newest entry, adds no other, and respects the capacity.
LEMMA PushFacts ==
    ASSUME NEW S, NEW log \in Seq(S), NEW x \in S, capacity \in Nat \ {0}
    PROVE  /\ PushResolved(log, x) \in Seq(S)
           /\ Elements(PushResolved(log, x)) \subseteq Elements(log) \cup {x}
           /\ x \in Elements(PushResolved(log, x))
           /\ Len(log) =< capacity => Len(PushResolved(log, x)) =< capacity
<1>1. CASE Len(log) < capacity
  <2>1. PushResolved(log, x) = Append(log, x)
    BY <1>1 DEF PushResolved
  <2>2. /\ Append(log, x) \in Seq(S)
        /\ Len(Append(log, x)) = Len(log) + 1
        /\ \A i \in 1..Len(log) : Append(log, x)[i] = log[i]
        /\ Append(log, x)[Len(log) + 1] = x
    OBVIOUS
  <2> QED BY <1>1, <2>1, <2>2 DEF Elements
<1>2. CASE ~(Len(log) < capacity)
  <2>1. PushResolved(log, x) = Append(Tail(log), x) /\ log # <<>>
    BY <1>2 DEF PushResolved
  <2>2. /\ Tail(log) \in Seq(S) /\ Len(Tail(log)) = Len(log) - 1
        /\ \A i \in 1..Len(log) - 1 : Tail(log)[i] = log[i + 1]
    BY <2>1
  <2>3. /\ Append(Tail(log), x) \in Seq(S)
        /\ Len(Append(Tail(log), x)) = Len(log)
        /\ \A i \in 1..Len(log) - 1 : Append(Tail(log), x)[i] = Tail(log)[i]
        /\ Append(Tail(log), x)[Len(log)] = x
    BY <2>2
  <2>4. Len(log) \in Nat \ {0} /\ DOMAIN log = 1..Len(log)
    BY <1>2
  <2>5. DOMAIN Append(Tail(log), x) = 1..Len(log)
    BY <2>3
  <2>6. ASSUME NEW i \in 1..Len(log) PROVE Append(Tail(log), x)[i] \in Elements(log) \cup {x}
    <3>1. CASE i = Len(log)
      BY <3>1, <2>3
    <3>2. CASE i # Len(log)
      <4>1. i \in 1..Len(log) - 1 /\ i + 1 \in 1..Len(log)
        BY Zenon, <3>2, <2>4, Below
      <4>2. Append(Tail(log), x)[i] = log[i + 1]
        BY <4>1, <2>2, <2>3
      <4> QED BY <4>1, <4>2, <2>4 DEF Elements
    <3> QED BY <3>1, <3>2
  <2>7. x \in Elements(Append(Tail(log), x))
    BY <2>3, <2>4, <2>5 DEF Elements
  <2>8. Elements(Append(Tail(log), x)) \subseteq Elements(log) \cup {x}
    BY <2>5, <2>6 DEF Elements
  <2> QED BY <2>1, <2>3, <2>7, <2>8
<1> QED BY <1>1, <1>2

\* Owing exchanges adds the ones that were never initiated, and nothing else.
LEMMA OweFacts ==
    ASSUME NEW rec \in Records, NEW S \in SUBSET Ops
    PROVE  /\ Owe(rec, S) \in Records
           /\ Owe(rec, S).applied = rec.applied /\ Owe(rec, S).settled = rec.settled
           /\ Owe(rec, S).ended = rec.ended
           /\ Pending(Owe(rec, S)) = Pending(rec) \cup {o \in S : ~HasInitiated(rec, o)}
<1>1. /\ Owe(rec, S) \in Records
      /\ Owe(rec, S).applied = rec.applied /\ Owe(rec, S).settled = rec.settled
      /\ Owe(rec, S).ended = rec.ended
      /\ \A o \in Ops : Owe(rec, S).pending[o] =
            IF o \in S /\ ~HasInitiated(rec, o) THEN "new" ELSE rec.pending[o]
  BY Zenon DEF Owe, Records, Codes
<1> QED BY <1>1 DEF Pending

\* Ending an entity withdraws its registrations, and nothing else.
LEMMA EndedFacts ==
    ASSUME NEW rec \in Records
    PROVE  /\ Ended(rec) \in Records /\ Ended(rec).ended
           /\ Ended(rec).applied = rec.applied /\ Ended(rec).settled = rec.settled
           /\ Pending(Ended(rec)) = Pending(rec) \ Registrations
<1>1. /\ Ended(rec) \in Records /\ Ended(rec).ended
      /\ Ended(rec).applied = rec.applied /\ Ended(rec).settled = rec.settled
      /\ \A o \in Ops : Ended(rec).pending[o] =
            IF o \in Registrations THEN "absent" ELSE rec.pending[o]
  BY Zenon DEF Ended, Records, Codes
<1> QED BY <1>1 DEF Pending

\* The last edit of a transition: the entity ends or does not, and owes more.
LEMMA EndOweFacts ==
    ASSUME NEW rec \in Records, NEW S \in SUBSET Ops, S \cap Registrations = {}, NEW mid,
           mid = rec \/ mid = Ended(rec)
    PROVE  LET next == Owe(mid, S)
           IN  /\ next \in Records /\ next.applied = rec.applied /\ next.settled = rec.settled
               /\ Carries(rec, next, Pending(rec))
               /\ Pending(next) \subseteq Pending(rec) \cup S
               /\ S \subseteq Pending(next) \cup Settled(rec)
<1> DEFINE next == Owe(mid, S)
<1>1. /\ mid \in Records /\ mid.applied = rec.applied /\ mid.settled = rec.settled
      /\ rec.ended => mid.ended
      /\ Pending(mid) \subseteq Pending(rec)
      /\ \A p \in Pending(rec) : p \in Pending(mid) \/ (p \in Registrations /\ mid.ended)
      /\ Moot(rec) => Moot(mid)
  <2>1. CASE mid = rec
    BY Zenon, <2>1
  <2>2. CASE mid = Ended(rec)
    BY Zenon, <2>2, EndedFacts DEF Moot
  <2> QED BY Zenon, <2>1, <2>2
<1>2. /\ next \in Records /\ next.applied = mid.applied /\ next.settled = mid.settled
      /\ next.ended = mid.ended
      /\ Pending(next) = Pending(mid) \cup {p \in S : ~HasInitiated(mid, p)}
  BY Zenon, <1>1, OweFacts
<1> HIDE DEF next
<1>3. Settled(mid) = Settled(rec)
  BY <1>1 DEF Settled
<1>4. S \subseteq Pending(next) \cup Settled(rec)
  BY Zenon, <1>2, <1>3 DEF HasInitiated
<1>5. Moot(rec) => Moot(next)
  BY Zenon, <1>1, <1>2 DEF Moot
<1>6. Carries(rec, next, Pending(rec))
  BY Zenon, <1>1, <1>2, <1>5 DEF Carries
<1>7. Pending(next) \subseteq Pending(rec) \cup S
  BY Zenon, <1>1, <1>2
<1> QED BY Zenon, <1>1, <1>2, <1>4, <1>6, <1>7 DEF next

\* Settling moves one exchange to the settled log and owes its consequence.
LEMMA SettledFacts ==
    ASSUME NEW rec \in Records, NEW o \in Ops, NEW r, capacity \in Nat \ {0}
    PROVE  LET next == SettledRecord(rec, o, r)
           IN  /\ next \in Records /\ next.applied = rec.applied
               /\ Settled(next) \subseteq Settled(rec) \cup {o}
               /\ Len(rec.settled) =< capacity => Len(next.settled) =< capacity
               /\ Carries(rec, next, Pending(rec) \ {o})
               /\ Pending(next) \subseteq Pending(rec) \cup OwesOnSettle[o]
               /\ r = "accepted" => OwesOnSettle[o] \subseteq Pending(next) \cup Settled(next)
<1> DEFINE mid == [rec EXCEPT !.pending[o] = "absent", !.settled = PushResolved(@, o)]
           fin == IF r = "accepted" /\ o \in EndsOnSettle THEN Ended(mid) ELSE mid
           S == IF r = "accepted" THEN OwesOnSettle[o] ELSE {}
           next == SettledRecord(rec, o, r)
<1>1. rec.settled \in Seq(Ops)
  BY DEF Records
<1>2. /\ PushResolved(rec.settled, o) \in Seq(Ops)
      /\ Elements(PushResolved(rec.settled, o)) \subseteq Elements(rec.settled) \cup {o}
      /\ Len(rec.settled) =< capacity => Len(PushResolved(rec.settled, o)) =< capacity
  BY ZenonT(30), <1>1, PushFacts
<1>3. /\ mid \in Records /\ mid.applied = rec.applied /\ mid.ended = rec.ended
      /\ mid.settled = PushResolved(rec.settled, o)
      /\ \A p \in Ops : mid.pending[p] = IF p = o THEN "absent" ELSE rec.pending[p]
  BY Zenon, <1>2 DEF Records, Codes
<1>4. S \in SUBSET Ops /\ S \subseteq OwesOnSettle[o] /\ S \cap Registrations = {}
  BY ChoreographyAssumption
<1>5. next = Owe(fin, S) /\ (fin = mid \/ fin = Ended(mid))
  BY Zenon DEF SettledRecord
<1> HIDE DEF mid, fin, S, next
<1>6. /\ next \in Records /\ next.applied = mid.applied /\ next.settled = mid.settled
      /\ Carries(mid, next, Pending(mid))
      /\ Pending(next) \subseteq Pending(mid) \cup S
      /\ S \subseteq Pending(next) \cup Settled(mid)
  BY Zenon, <1>3, <1>4, <1>5, EndOweFacts
<1>7. Pending(mid) = Pending(rec) \ {o}
  BY <1>3 DEF Pending
<1>8. Settled(next) = Settled(mid) /\ Settled(next) \subseteq Settled(rec) \cup {o}
  <2>1. /\ Settled(next) = Elements(next.settled) /\ Settled(mid) = Elements(mid.settled)
        /\ Settled(rec) = Elements(rec.settled)
    BY Zenon DEF Settled, Elements
  <2> QED BY Zenon, <1>2, <1>3, <1>6, <2>1
<1>9. Carries(rec, next, Pending(rec) \ {o})
  BY Zenon, <1>3, <1>6, <1>7 DEF Carries, Moot
<1>10. /\ Pending(next) \subseteq Pending(rec) \cup OwesOnSettle[o]
       /\ r = "accepted" => OwesOnSettle[o] \subseteq Pending(next) \cup Settled(next)
  BY Zenon, <1>4, <1>6, <1>7, <1>8 DEF S
<1>11. Len(rec.settled) =< capacity => Len(next.settled) =< capacity
  BY Zenon, <1>2, <1>3, <1>6
<1> QED BY Zenon, <1>3, <1>6, <1>8, <1>9, <1>10, <1>11 DEF next

\* Applying records the result and owes what follows from it.
LEMMA AppliedFacts ==
    ASSUME NEW rec \in Records, NEW o \in Ops, NEW r \in Results, capacity \in Nat \ {0}
    PROVE  LET next == AppliedRecord(rec, o, r)
           IN  /\ next \in Records /\ next.settled = rec.settled
               /\ Elements(next.applied) \subseteq Elements(rec.applied) \cup {[op |-> o, result |-> r]}
               /\ [op |-> o, result |-> r] \in Elements(next.applied)
               /\ Len(rec.applied) =< capacity => Len(next.applied) =< capacity
               /\ Carries(rec, next, Pending(rec))
               /\ Pending(next) \subseteq Pending(rec) \cup OwesOnApply[o]
               /\ r = "accepted" => OwesOnApply[o] \subseteq Pending(next) \cup Settled(rec)
<1> DEFINE x == [op |-> o, result |-> r]
           mid == [rec EXCEPT !.applied = PushResolved(@, x)]
           fin == IF r = "accepted" /\ o \in EndsOnApply THEN Ended(mid) ELSE mid
           S == IF r = "accepted" THEN OwesOnApply[o] ELSE {}
           next == AppliedRecord(rec, o, r)
<1>1. rec.applied \in Seq([op : Ops, result : Results]) /\ x \in [op : Ops, result : Results]
  BY DEF Records
<1>2. /\ PushResolved(rec.applied, x) \in Seq([op : Ops, result : Results])
      /\ Elements(PushResolved(rec.applied, x)) \subseteq Elements(rec.applied) \cup {x}
      /\ x \in Elements(PushResolved(rec.applied, x))
      /\ Len(rec.applied) =< capacity => Len(PushResolved(rec.applied, x)) =< capacity
  <2> DEFINE E == [op : Ops, result : Results]
  <2> HIDE DEF x, E
  <2>1. rec.applied \in Seq(E) /\ x \in E
    BY <1>1 DEF E
  <2>2. /\ PushResolved(rec.applied, x) \in Seq(E)
        /\ Elements(PushResolved(rec.applied, x)) \subseteq Elements(rec.applied) \cup {x}
        /\ x \in Elements(PushResolved(rec.applied, x))
        /\ Len(rec.applied) =< capacity => Len(PushResolved(rec.applied, x)) =< capacity
    BY Zenon, <2>1, PushFacts
  <2> QED BY <2>2 DEF E
<1>3. /\ mid \in Records /\ mid.settled = rec.settled /\ mid.pending = rec.pending
      /\ mid.ended = rec.ended
      /\ mid.applied = PushResolved(rec.applied, x)
  BY Zenon, <1>2 DEF Records
<1>4. S \in SUBSET Ops /\ S \subseteq OwesOnApply[o] /\ S \cap Registrations = {}
  BY ChoreographyAssumption
<1>5. next = Owe(fin, S) /\ (fin = mid \/ fin = Ended(mid))
  BY Zenon DEF AppliedRecord
<1> HIDE DEF mid, fin, S, next, x
<1>6. /\ next \in Records /\ next.applied = mid.applied /\ next.settled = mid.settled
      /\ Carries(mid, next, Pending(mid))
      /\ Pending(next) \subseteq Pending(mid) \cup S
      /\ S \subseteq Pending(next) \cup Settled(mid)
  BY Zenon, <1>3, <1>4, <1>5, EndOweFacts
<1>7. Pending(mid) = Pending(rec) /\ Settled(mid) = Settled(rec)
  BY <1>3 DEF Pending, Settled
<1>8. /\ Carries(rec, next, Pending(rec))
      /\ Pending(next) \subseteq Pending(rec) \cup OwesOnApply[o]
      /\ r = "accepted" => OwesOnApply[o] \subseteq Pending(next) \cup Settled(rec)
  BY Zenon, <1>3, <1>4, <1>6, <1>7 DEF Carries, Moot, S
<1>9. /\ next \in Records /\ next.settled = rec.settled
      /\ Elements(next.applied) \subseteq Elements(rec.applied) \cup {x}
      /\ x \in Elements(next.applied)
      /\ Len(rec.applied) =< capacity => Len(next.applied) =< capacity
      /\ Carries(rec, next, Pending(rec))
      /\ Pending(next) \subseteq Pending(rec) \cup OwesOnApply[o]
      /\ r = "accepted" => OwesOnApply[o] \subseteq Pending(next) \cup Settled(rec)
  BY Zenon, <1>2, <1>3, <1>6, <1>8
<1> QED BY <1>9 DEF next, x

------------------------------------------------------------------------------
(* A compare-and-set *)

\* A write that took place edited the stored record; whoever still holds an
\* older one knows that it is behind, or will find out.
LEMMA WriteFacts ==
    ASSUME RecordsOK, NEW h \in Hosts, Recovered(h), NEW next \in Records,
           Persisted(h, next) \/ AckLost(h, next)
    PROVE  /\ store' = [store EXCEPT ![EntityOf[h]] = next]
           /\ store' \in [Entities -> Records]
           /\ Record(h) = store[EntityOf[h]]
           /\ cache' \in [Hosts -> CacheValues]
           /\ Current'
           /\ \A g \in Hosts : Recovered(g)' =>
                cache'[g].record = next \/ (Recovered(g) /\ cache'[g].record = cache[g].record)
           /\ \A g \in Hosts : Recovered(g) => Recovered(g)'
<1>1. /\ cache \in [Hosts -> CacheValues] /\ store \in [Entities -> Records]
      /\ EntityOf[h] \in Entities
  BY ChoreographyAssumption DEF RecordsOK
<1>2. cache[h] \in [fresh : BOOLEAN, record : Records] /\ cache[h].fresh
  BY <1>1 DEF Recovered, CacheValues, NoRecord, Persisted, AckLost
<1>3. Record(h) = store[EntityOf[h]]
  BY <1>2 DEF RecordsOK, Current, Record
<1>4. store' = [store EXCEPT ![EntityOf[h]] = next] /\ store' \in [Entities -> Records]
  BY <1>1 DEF Persisted, AckLost
<1> DEFINE over == Overtaken(h)
<1>5. /\ over \in [Hosts -> CacheValues]
      /\ over[h] = cache[h]
      /\ \A g \in Hosts \ {h} :
            /\ EntityOf[g] = EntityOf[h] => ~over[g].fresh
            /\ EntityOf[g] # EntityOf[h] => over[g] = cache[g]
            /\ over[g] # NoRecord => cache[g] # NoRecord /\ over[g].record = cache[g].record
            /\ cache[g] # NoRecord => over[g] # NoRecord
  <2>1. ASSUME NEW g \in Hosts
        PROVE  /\ over[g] \in CacheValues
               /\ over[g] # NoRecord => cache[g] # NoRecord /\ over[g].record = cache[g].record
               /\ cache[g] # NoRecord => over[g] # NoRecord
               /\ g # h /\ EntityOf[g] = EntityOf[h] => ~over[g].fresh
               /\ g = h \/ EntityOf[g] # EntityOf[h] => over[g] = cache[g]
    <3>1. cache[g] \in CacheValues
      BY <1>1
    <3>2. CASE g # h /\ EntityOf[g] = EntityOf[h] /\ cache[g] # NoRecord
      <4>1. over[g] = [cache[g] EXCEPT !.fresh = FALSE]
        BY <3>2 DEF Overtaken, Recovered
      <4>2. cache[g] \in [fresh : BOOLEAN, record : Records]
        BY <3>1, <3>2 DEF CacheValues
      <4>3. over[g] \in [fresh : BOOLEAN, record : Records] /\ over[g] # NoRecord
        BY Zenon, <4>1, <4>2 DEF NoRecord
      <4> QED BY <3>2, <4>1, <4>2, <4>3 DEF CacheValues
    <3>3. CASE ~(g # h /\ EntityOf[g] = EntityOf[h] /\ cache[g] # NoRecord)
      <4>1. over[g] = cache[g]
        BY <3>3 DEF Overtaken, Recovered
      <4> QED BY <3>1, <3>3, <4>1 DEF NoRecord
    <3> QED BY <3>2, <3>3
  <2>2. over = [g \in Hosts |-> over[g]]
    BY DEF Overtaken
  <2> QED BY Zenon, <2>1, <2>2
<1>6. \/ cache' = [over EXCEPT ![h] = [fresh |-> TRUE, record |-> next]]
      \/ cache' = [over EXCEPT ![h].fresh = FALSE]
  BY DEF Persisted, AckLost
<1>7. /\ cache'[h] \in [fresh : BOOLEAN, record : Records]
      /\ cache'[h] = [fresh |-> TRUE, record |-> next] \/
         (~cache'[h].fresh /\ cache'[h].record = cache[h].record)
      /\ \A g \in Hosts \ {h} : cache'[g] = over[g]
      /\ cache' \in [Hosts -> CacheValues]
  <2>1. CASE cache' = [over EXCEPT ![h] = [fresh |-> TRUE, record |-> next]]
    BY <2>1, <1>5 DEF CacheValues
  <2>2. CASE cache' = [over EXCEPT ![h].fresh = FALSE]
    <3>1. cache' = [over EXCEPT ![h] = [cache[h] EXCEPT !.fresh = FALSE]]
      BY <2>2, <1>5
    <3>2. /\ [cache[h] EXCEPT !.fresh = FALSE] \in [fresh : BOOLEAN, record : Records]
          /\ ~[cache[h] EXCEPT !.fresh = FALSE].fresh
          /\ [cache[h] EXCEPT !.fresh = FALSE].record = cache[h].record
      BY Zenon, <1>2
    <3> QED BY <3>1, <3>2, <1>5 DEF CacheValues
  <2> QED BY Zenon, <1>6, <2>1, <2>2
<1>8. Current'
  <2> SUFFICES ASSUME NEW g \in Hosts, cache'[g].fresh
               PROVE  cache'[g].record = store'[EntityOf[g]]
    BY Zenon DEF Current
  <2>1. CASE g = h
    BY <2>1, <1>1, <1>4, <1>7 DEF RecordsOK
  <2>2. CASE g # h
    <3>1. EntityOf[g] # EntityOf[h] /\ cache'[g] = cache[g]
      BY <2>2, <1>5, <1>7
    <3>2. store'[EntityOf[g]] = store[EntityOf[g]]
      BY Zenon, ChoreographyAssumption, <3>1, <1>1, <1>4 DEF RecordsOK
    <3> QED BY <3>1, <3>2 DEF RecordsOK, Current
  <2> QED BY Zenon, <2>1, <2>2
<1>9. ASSUME NEW g \in Hosts, cache'[g] # NoRecord
      PROVE  cache'[g].record = next \/ (cache[g] # NoRecord /\ cache'[g].record = cache[g].record)
  <2>1. CASE g = h
    <3>1. cache[h] # NoRecord
      BY Zenon DEF Recovered
    <3>2. cache'[h].record = next \/ cache'[h].record = cache[h].record
      BY <1>7
    <3> QED BY Zenon, <2>1, <3>1, <3>2
  <2>2. CASE g # h
    BY Zenon, <1>5, <1>7, <1>9, <2>2
  <2> QED BY Zenon, <2>1, <2>2
<1>10. ASSUME NEW g \in Hosts, cache[g] # NoRecord PROVE cache'[g] # NoRecord
  <2>1. CASE g = h
    BY <2>1, <1>7 DEF NoRecord
  <2>2. CASE g # h
    BY <2>2, <1>5, <1>7, <1>10
  <2> QED BY <2>1, <2>2
<1> QED BY <1>3, <1>4, <1>7, <1>8, <1>9, <1>10 DEF Recovered

\* A log's entries are operations with results.
LEMMA EntryType ==
    ASSUME NEW rec \in Records, NEW x \in Elements(rec.applied)
    PROVE  x \in [op : Ops, result : Results] /\ x.op \in AppliedOps(rec)
<1> DEFINE Entries == [op : Ops, result : Results]
<1>1. rec.applied \in Seq(Entries)
  BY DEF Records
<1>2. PICK i \in DOMAIN rec.applied : x = rec.applied[i]
  BY DEF Elements
<1> HIDE DEF Entries
<1>3. x \in Entries
  BY <1>1, <1>2
<1> QED BY <1>2, <1>3 DEF AppliedOps, Entries

\* A write that keeps the journal's promises keeps the records in order.
LEMMA EditStep ==
    ASSUME RecordsOK, Kept, NEW h \in Hosts, Recovered(h), NEW next, JournalEdit(h, next),
           Persisted(h, next) \/ AckLost(h, next)
    PROVE  RecordsOK'
<1>1. next \in Records /\ EntityOf[h] \in Entities
  BY Zenon, ChoreographyAssumption DEF JournalEdit
<1>2. /\ store' = [store EXCEPT ![EntityOf[h]] = next]
      /\ store' \in [Entities -> Records]
      /\ cache' \in [Hosts -> CacheValues]
      /\ Current'
      /\ \A g \in Hosts : Recovered(g)' =>
            cache'[g].record = next \/ (Recovered(g) /\ cache'[g].record = cache[g].record)
  BY <1>1, WriteFacts
<1>3. \A e \in Entities : store'[e] = IF e = EntityOf[h] THEN next ELSE store[e]
  BY Zenon, <1>2 DEF RecordsOK
<1>4. ASSUME NEW rec \in Records, Truthful(rec)
      PROVE  \A x \in Elements(rec.applied) : x.result \in decided'[x.op]
  <2> TAKE x \in Elements(rec.applied)
  <2>1. x.op \in Ops
    BY EntryType
  <2> QED BY Zenon, <1>4, <2>1 DEF Truthful, Kept
<1>5. Journals'
  <2> SUFFICES ASSUME NEW e \in Entities PROVE Journal(e)'
    BY DEF Journals
  <2>1. CASE e = EntityOf[h]
    BY <2>1, <1>3, Zenon DEF Journal, JournalEdit, Truthful
  <2>2. CASE e # EntityOf[h]
    <3>1. store'[e] = store[e] /\ store[e] \in Records /\ Journal(e)
      BY Zenon, <2>2, <1>3 DEF RecordsOK, Journals
    <3>2. Pending(store[e]) \subseteq {o \in owed' : From[o] = e}
      BY Zenon, <3>1 DEF Journal, Kept
    <3>3. Settled(store[e]) \subseteq {o \in owed' : outcome'[o] # {}}
      <4>1. Settled(store[e]) \subseteq Ops
        BY <3>1 DEF Settled, Records
      <4> QED BY <3>1, <4>1 DEF Journal, Kept
    <3>4. \A x \in Elements(store[e].applied) : x.result \in decided'[x.op]
      BY Zenon, <3>1, <1>4 DEF Journal
    <3> QED BY <3>1, <3>2, <3>3, <3>4, Zenon DEF Journal, Truthful
  <2> QED BY <2>1, <2>2
<1>6. CachedTruth'
  <2> SUFFICES ASSUME NEW g \in Hosts, Recovered(g)'
               PROVE  \A x \in Elements(cache'[g].record.applied) : x.result \in decided'[x.op]
    BY Zenon DEF CachedTruth, Truthful
  <2>1. CASE cache'[g].record = next
    BY Zenon, <2>1 DEF JournalEdit
  <2>2. CASE Recovered(g) /\ cache'[g].record = cache[g].record
    <3>1. cache[g].record \in Records /\ Truthful(cache[g].record)
      BY Zenon, <2>2 DEF RecordsOK, CachedTruth, CacheValues, Recovered
    <3> QED BY Zenon, <2>2, <3>1, <1>4
  <2> QED BY Zenon, <1>2, <2>1, <2>2
<1>7. \A e \in Entities : Len(store'[e].applied) =< capacity' /\ Len(store'[e].settled) =< capacity'
  BY Zenon, <1>3 DEF RecordsOK, JournalEdit, Kept
<1> QED BY Zenon, <1>2, <1>5, <1>6, <1>7 DEF RecordsOK, Kept

\* A step that writes nothing leaves a host the record it had, none, or the stored one.
LEMMA QuietStep ==
    ASSUME RecordsOK, UNCHANGED <<capacity, store, history>>,
           \/ cache' = cache
           \/ \E h \in Hosts : cache' = Loaded(h)
           \/ \E h \in Hosts : cache' = [cache EXCEPT ![h] = NoRecord]
    PROVE  RecordsOK'
<1>1. /\ cache' \in [Hosts -> CacheValues]
      /\ \A g \in Hosts : \/ cache'[g] = cache[g]
                          \/ cache'[g] = NoRecord
                          \/ cache'[g] = [fresh |-> TRUE, record |-> store[EntityOf[g]]]
  <2>1. cache \in [Hosts -> CacheValues] /\ store \in [Entities -> Records]
    BY Zenon DEF RecordsOK
  <2>2. CASE cache' = cache
    BY <2>1, <2>2
  <2>3. CASE \E h \in Hosts : cache' = Loaded(h)
    <3>1. PICK h \in Hosts : cache' = [cache EXCEPT ![h] = [fresh |-> TRUE, record |-> store[EntityOf[h]]]]
      BY Zenon, <2>3 DEF Loaded
    <3>2. [fresh |-> TRUE, record |-> store[EntityOf[h]]] \in CacheValues
      BY ChoreographyAssumption, <2>1 DEF CacheValues
    <3> QED BY Zenon, <2>1, <3>1, <3>2
  <2>4. CASE \E h \in Hosts : cache' = [cache EXCEPT ![h] = NoRecord]
    <3>1. NoRecord \in CacheValues
      BY Zenon DEF CacheValues
    <3> QED BY <2>1, <2>4, <3>1
  <2> QED BY <2>2, <2>3, <2>4
<1>2. Current'
  BY <1>1 DEF RecordsOK, Current, NoRecord
<1>3. Journals'
  BY Zenon DEF RecordsOK, Journals, Journal, Truthful, history
<1>4. CachedTruth'
  <2> SUFFICES ASSUME NEW g \in Hosts, cache'[g] # NoRecord
               PROVE  \A x \in Elements(cache'[g].record.applied) : x.result \in decided[x.op]
    BY Zenon DEF CachedTruth, Truthful, Recovered, history
  <2>1. CASE cache'[g] = cache[g]
    BY Zenon, <2>1 DEF RecordsOK, CachedTruth, Truthful, Recovered
  <2>2. CASE cache'[g] = [fresh |-> TRUE, record |-> store[EntityOf[g]]]
    BY ChoreographyAssumption, <2>2 DEF RecordsOK, Journals, Journal, Truthful
  <2> QED BY <1>1, <2>1, <2>2
<1> QED BY Zenon, <1>1, <1>2, <1>3, <1>4 DEF RecordsOK

------------------------------------------------------------------------------
(* What the parts of a step leave behind *)

History == Remembered /\ OneTransition /\ OwedUntilSettled /\ NothingForgotten

\* Nothing is written: the history stays true.
LEMMA SameHistory ==
    ASSUME History, UNCHANGED <<store, history>>
    PROVE  History'
BY Zenon
   DEF History, Remembered, OneTransition, OwedUntilSettled, Withdrawn, NothingForgotten, history

\* A pass that ends or goes on keeps Flow.
LEMMA EndCallFlow ==
    ASSUME FlowType, Flow, Kept, NEW h \in Hosts, NEW error, EndCall(h, error), net' = net
    PROVE  /\ Flow'
           /\ pass' \in [Hosts -> SUBSET Ops] /\ call' \in [Hosts -> Ops \cup {Idle}]
           /\ answer' \in [Hosts -> Results \cup {"unable", NoAnswer}]
<1>1. /\ pass' \in [Hosts -> SUBSET Ops] /\ call' \in [Hosts -> Ops \cup {Idle}]
      /\ answer' \in [Hosts -> Results \cup {"unable", NoAnswer}]
  BY DEF EndCall, FlowType
<1>2. /\ call'[h] = Idle /\ answer'[h] = NoAnswer /\ pass'[h] \subseteq pass[h]
      /\ \A g \in Hosts \ {h} : call'[g] = call[g] /\ answer'[g] = answer[g] /\ pass'[g] = pass[g]
  BY Zenon DEF EndCall, FlowType
<1>3. ASSUME NEW g \in Hosts
      PROVE  /\ pass'[g] \subseteq {o \in owed' : From[o] = EntityOf[g]}
             /\ call'[g] # Idle => call'[g] \in pass'[g]
             /\ answer'[g] # NoAnswer => call'[g] # Idle
             /\ answer'[g] \in Results => answer'[g] \in decided'[call'[g]]
  <2>1. CASE g = h
    BY Zenon, <2>1, <1>2 DEF Flow, Kept, Results, NoAnswer
  <2>2. CASE g # h
    <3>1. answer[g] \in Results => call[g] \in Ops
      BY Zenon DEF Flow, FlowType, Results, NoAnswer
    <3> QED BY Zenon, <2>2, <1>2, <3>1 DEF Flow, Kept
  <2> QED BY Zenon, <2>1, <2>2
<1> QED BY <1>1, <1>3 DEF Flow, Kept

\* The hosts go on with what they were doing.
LEMMA SameFlow ==
    ASSUME FlowType, Flow, Kept, UNCHANGED <<pass, call, answer>>, net' \subseteq owed'
    PROVE  Flow'
<1>1. \A g \in Hosts : answer[g] \in Results => call[g] \in Ops
  BY Zenon DEF Flow, FlowType, Results, NoAnswer
<1> QED BY Zenon, <1>1 DEF Flow, Kept

\* A write that leaves the applied log alone forgets no operation.
LEMMA SameApplied ==
    ASSUME RecordsOK, Remembered, NEW e \in Entities, NEW next,
           store' = [store EXCEPT ![e] = next], next.applied = store[e].applied,
           UNCHANGED <<applied, evicted>>
    PROVE  Remembered'
<1>1. \A f \in Entities : store'[f].applied = store[f].applied
  BY Zenon DEF RecordsOK
<1>2. \A f \in Entities : AppliedOps(store'[f]) = AppliedOps(store[f])
  BY <1>1 DEF AppliedOps
<1> QED BY Zenon, ChoreographyAssumption, <1>2 DEF Remembered

\* What was pending stays so, gets an outcome or is withdrawn; what is new is pending.
LEMMA StillOwed ==
    ASSUME RecordsOK, OwedUntilSettled, Kept, owed' \subseteq Ops,
           NEW e \in Entities, NEW next, store' = [store EXCEPT ![e] = next], Owing(e, next)
    PROVE  OwedUntilSettled'
<1>1. \A f \in Entities : store'[f] = IF f = e THEN next ELSE store[f]
  BY Zenon DEF RecordsOK
<1>2. ASSUME NEW o \in owed', outcome'[o] = {}
      PROVE  o \in Pending(store'[From[o]]) \/ (o \in Registrations /\ store'[From[o]].ended)
  <2>1. o \in Ops /\ From[o] \in Entities
    BY Zenon, ChoreographyAssumption
  <2>2. CASE o \in owed
    <3>1. outcome[o] = {}
      BY Zenon, <1>2, <2>1 DEF Kept
    <3>2. o \in Pending(store[From[o]]) \/ (o \in Registrations /\ store[From[o]].ended)
      BY Zenon, <2>2, <3>1 DEF OwedUntilSettled, Withdrawn
    <3>3. CASE From[o] = e
      BY Zenon, <1>1, <1>2, <2>1, <3>2, <3>3 DEF Owing
    <3>4. CASE From[o] # e
      <4>1. store'[From[o]] = store[From[o]]
        BY Zenon, <1>1, <2>1, <3>4
      <4> QED BY Zenon, <3>2, <4>1
    <3> QED BY Zenon, <3>3, <3>4
  <2>3. CASE o \notin owed
    BY Zenon, <1>1, <2>1, <2>3 DEF Owing
  <2> QED BY Zenon, <2>2, <2>3
<1>3. ASSUME NEW f \in Entities, store'[f].ended
      PROVE  Pending(store'[f]) \cap Registrations = {}
  <2>1. CASE f = e
    BY Zenon, <1>1, <1>3, <2>1 DEF Owing, Moot
  <2>2. CASE f # e
    BY Zenon, <1>1, <1>3, <2>2 DEF OwedUntilSettled
  <2> QED BY Zenon, <2>1, <2>2
<1> QED BY Zenon, <1>2, <1>3 DEF OwedUntilSettled, Withdrawn

\* The stored records of ended entities owe no registration.
LEMMA StoredMoot ==
    ASSUME OwedUntilSettled, NEW e \in Entities
    PROVE  Moot(store[e])
BY Zenon DEF OwedUntilSettled, Moot

\* Whoever loses its record gives up its pass.
LEMMA StillHeld ==
    ASSUME Held, \A g \in Hosts : pass'[g] \subseteq pass[g],
           \A g \in Hosts : pass'[g] = {} \/ (Recovered(g) => Recovered(g)')
    PROVE  Held'
BY Zenon DEF Held

\* A pass is given up with the record it was about.
LEMMA EndCallHeld ==
    ASSUME FlowType, Held, NEW h \in Hosts, NEW error, EndCall(h, error), KeepsRecords(h),
           WriteFailed(h) => error
    PROVE  Held'
<1>1. /\ \A g \in Hosts : pass'[g] \subseteq pass[g]
      /\ error => pass'[h] = {}
  BY DEF EndCall, FlowType
<1>2. \A g \in Hosts : pass'[g] = {} \/ (Recovered(g) => Recovered(g)')
  BY <1>1 DEF KeepsRecords
<1> QED BY <1>1, <1>2, StillHeld

\* The bound on the faults is respected.
LEMMA FaultType ==
    ASSUME faults \in 0..MaxFaults, Fault
    PROVE  faults' \in 0..MaxFaults
BY ChoreographyAssumption DEF Fault

\* A host's cached record has a record's type, and EntityOf is typed.
LEMMA HostFacts ==
    ASSUME RecordsOK, NEW h \in Hosts
    PROVE  /\ EntityOf[h] \in Entities /\ store[EntityOf[h]] \in Records
           /\ Recovered(h) => Record(h) \in Records /\ Truthful(Record(h))
           /\ capacity \in Nat \ {0}
<1>1. EntityOf[h] \in Entities /\ store[EntityOf[h]] \in Records /\ capacity \in Nat \ {0}
  BY ChoreographyAssumption DEF RecordsOK
<1>2. ASSUME Recovered(h) PROVE Record(h) \in Records /\ Truthful(Record(h))
  BY ZenonT(30), <1>2 DEF RecordsOK, Recovered, CacheValues, CachedTruth, Record
<1> QED BY <1>1, <1>2

\* The log's answer for an operation it holds is one that was decided.
LEMMA AppliedResultFacts ==
    ASSUME NEW rec \in Records, NEW o \in AppliedOps(rec), Truthful(rec)
    PROVE  AppliedResult(rec, o) \in Results \cap decided[o]
<1> DEFINE found == CHOOSE i \in DOMAIN rec.applied : rec.applied[i].op = o
<1>1. found \in DOMAIN rec.applied /\ rec.applied[found].op = o
  BY DEF AppliedOps
<1> HIDE DEF found
<1>2. rec.applied[found] \in Elements(rec.applied)
  BY <1>1 DEF Elements
<1>3. rec.applied[found] \in [op : Ops, result : Results]
  BY Zenon, <1>2, EntryType
<1>4. rec.applied[found].result \in Results \cap decided[o]
  BY <1>1, <1>2, <1>3 DEF Truthful
<1> QED BY Zenon, <1>4 DEF AppliedResult, found

------------------------------------------------------------------------------
(* The steps *)

\* A conflict leaves the records in order.
LEMMA OverruledStep ==
    ASSUME IInv, NEW h \in Hosts, Recovered(h), Overruled(h), UNCHANGED <<capacity, history>>
    PROVE  RecordsOK' /\ History' /\ faults' \in 0..MaxFaults /\ KeepsRecords(h)
<1>1. store' = store /\ cache' = [cache EXCEPT ![h] = NoRecord] /\ faults' = faults
  BY DEF Overruled, Conflict
<1>2. RecordsOK /\ History /\ faults \in 0..MaxFaults
  BY Zenon DEF IInv, History, FlowType
<1>3. KeepsRecords(h)
  <2>1. /\ cache'[h] = NoRecord /\ cache'[h] # cache[h]
        /\ \A g \in Hosts \ {h} : cache'[g] = cache[g]
    BY Zenon, <1>1, <1>2 DEF RecordsOK, Recovered
  <2>2. ~cache'[h].fresh
    BY <2>1 DEF NoRecord
  <2> QED BY <2>1, <2>2 DEF KeepsRecords, WriteFailed, Recovered
<1> QED BY Zenon, <1>1, <1>2, <1>3, QuietStep, SameHistory

\* A write that only withdraws from the journal, or the conflict it meets.
LEMMA PlainWrite ==
    ASSUME IInv, NEW h \in Hosts, Recovered(h), NEW next \in Records,
           Pending(next) \subseteq Pending(Record(h)),
           Carries(Record(h), next, Pending(Record(h))), next.settled = Record(h).settled,
           next.applied = Record(h).applied, UNCHANGED <<capacity, history>>,
           Write(h, next) \/ Overruled(h)
    PROVE  RecordsOK' /\ History' /\ faults' \in 0..MaxFaults /\ KeepsRecords(h)
<1> DEFINE e == EntityOf[h]
<1>1. RecordsOK /\ History /\ Kept /\ faults \in 0..MaxFaults /\ owed' \subseteq Ops
  BY DEF IInv, History, Kept, history, FlowType
<1>2. CASE Write(h, next)
  <2>1. Persisted(h, next) \/ AckLost(h, next)
    BY ZenonT(30), <1>2 DEF Write
  <2>2. /\ store' = [store EXCEPT ![e] = next] /\ Record(h) = store[e] /\ e \in Entities
        /\ \A g \in Hosts : Recovered(g) => Recovered(g)'
    BY SMTT(30), <1>1, <2>1, WriteFacts, HostFacts
  <2>3. Settled(next) = Settled(store[e])
    BY ZenonT(30), <2>2 DEF Settled
  <2>4. JournalEdit(h, next)
    <3>1. Journal(e)
      BY Zenon, <1>1, <2>2 DEF RecordsOK, Journals
    <3>2. Len(next.applied) =< capacity /\ Len(next.settled) =< capacity
      BY Zenon, <1>1, <2>2 DEF RecordsOK
    <3> QED BY ZenonT(30), <2>2, <2>3, <3>1, <3>2 DEF JournalEdit, Journal, Truthful, history
  <2>5. RecordsOK'
    BY <1>1, <2>1, <2>4, EditStep
  <2>6. Remembered'
    BY Zenon, <1>1, <2>2, SameApplied DEF History, history
  <2>7. OwedUntilSettled'
    <3>1. owed' = owed /\ Carries(store[e], next, Pending(store[e]))
      BY ZenonT(30), <2>2 DEF history
    <3>2. Moot(store[e])
      BY Zenon, <1>1, <2>2, StoredMoot DEF History
    <3>3. Owing(e, next)
      BY Zenon, <3>1, <3>2 DEF Owing, Carries
    <3> QED BY Zenon, <1>1, <2>2, <3>3, StillOwed DEF History
  <2>8. OneTransition' /\ NothingForgotten'
    BY <1>1 DEF History, OneTransition, NothingForgotten, history
  <2>9. faults' \in 0..MaxFaults
    BY Zenon, <1>1, <1>2, FaultType DEF Write, AckLost
  <2> QED BY <2>2, <2>5, <2>6, <2>7, <2>8, <2>9 DEF History, KeepsRecords
<1>3. CASE Overruled(h)
  BY <1>3, OverruledStep
<1> QED BY Zenon, <1>2, <1>3

\* A write outside every pass that only withdraws.
LEMMA CommandStep ==
    ASSUME IInv, NEW h \in Hosts, Free(h), Recovered(h), NEW next \in Records,
           Pending(next) \subseteq Pending(Record(h)),
           Carries(Record(h), next, Pending(Record(h))),
           next.settled = Record(h).settled, next.applied = Record(h).applied,
           UNCHANGED <<capacity, pass, call, answer, net, history>>,
           Write(h, next) \/ Overruled(h)
    PROVE  IInv'
<1>1. RecordsOK' /\ History' /\ faults' \in 0..MaxFaults /\ KeepsRecords(h)
  BY ZenonT(30), PlainWrite
<1>2. Flow'
  BY Zenon, SameFlow DEF IInv, Kept, Flow, history
<1>3. FlowType'
  BY <1>1 DEF IInv, FlowType, history
<1>4. Held'
  BY Zenon, <1>1, StillHeld DEF IInv, KeepsRecords, Free
<1> QED BY Zenon, <1>1, <1>2, <1>3, <1>4 DEF IInv, History

\* Creating an entity touches nothing but its flag.
LEMMA CreateStep ==
    ASSUME IInv, NEW h \in Hosts, Create(h)
    PROVE  IInv'
<1> DEFINE next == [Record(h) EXCEPT !.created = TRUE]
<1>1. Record(h) \in Records /\ Recovered(h)
  BY Zenon, HostFacts DEF IInv, Create
<1>2. /\ next \in Records /\ next.pending = Record(h).pending /\ next.ended = Record(h).ended
      /\ next.settled = Record(h).settled /\ next.applied = Record(h).applied
  BY Zenon, <1>1 DEF Records
<1>3. Write(h, next) \/ Overruled(h)
  BY Zenon DEF Create
<1>4. UNCHANGED <<capacity, pass, call, answer, net, history>> /\ Free(h)
  BY Zenon DEF Create
<1> HIDE DEF next
<1>5. Pending(next) = Pending(Record(h))
  BY <1>2 DEF Pending
<1>6. Carries(Record(h), next, Pending(Record(h)))
  BY Zenon, <1>2, <1>5 DEF Carries, Moot
<1> QED BY Zenon, <1>1, <1>2, <1>3, <1>4, <1>5, <1>6, CommandStep

\* Ending an entity withdraws its registrations.
LEMMA EndStep ==
    ASSUME IInv, NEW h \in Hosts, End(h)
    PROVE  IInv'
<1>1. Record(h) \in Records /\ Recovered(h)
  BY Zenon, HostFacts DEF IInv, End
<1>2. /\ Ended(Record(h)) \in Records /\ Ended(Record(h)).ended
      /\ Ended(Record(h)).applied = Record(h).applied
      /\ Ended(Record(h)).settled = Record(h).settled
      /\ Pending(Ended(Record(h))) = Pending(Record(h)) \ Registrations
  BY Zenon, <1>1, EndedFacts
<1>3. Write(h, Ended(Record(h))) \/ Overruled(h)
  BY Zenon DEF End
<1>4. UNCHANGED <<capacity, pass, call, answer, net, history>> /\ Free(h)
  BY Zenon DEF End
<1>5. Carries(Record(h), Ended(Record(h)), Pending(Record(h)))
  BY Zenon, <1>2 DEF Carries, Moot
<1> QED BY Zenon, <1>1, <1>2, <1>3, <1>4, <1>5, CommandStep

\* A failure mark changes a code and nothing else of the journal.
LEMMA MarkPendingStep ==
    ASSUME IInv, NEW h \in Hosts, Recovered(h), call[h] \in Ops,
           NEW code \in {"failed", "refused"}, MarkPending(h, code),
           UNCHANGED <<capacity, history>>
    PROVE  RecordsOK' /\ History' /\ faults' \in 0..MaxFaults /\ KeepsRecords(h)
<1> DEFINE o == call[h]
           next == [Record(h) EXCEPT !.pending[o] = code]
<1>1. Record(h) \in Records
  BY ZenonT(30), HostFacts DEF IInv
<1>2. CASE o \in Pending(Record(h)) /\ Record(h).pending[o] # code
  <2>1. /\ next \in Records /\ next.ended = Record(h).ended
        /\ next.settled = Record(h).settled /\ next.applied = Record(h).applied
        /\ \A p \in Ops : next.pending[p] = IF p = o THEN code ELSE Record(h).pending[p]
    BY Zenon, <1>1 DEF Records, Codes
  <2>2. Pending(next) = Pending(Record(h))
    <3> HIDE DEF next
    <3> QED BY <1>2, <2>1 DEF Pending
  <2>3. Write(h, next) \/ Overruled(h)
    BY <1>2 DEF MarkPending
  <2> HIDE DEF next
  <2>4. Carries(Record(h), next, Pending(Record(h)))
    BY Zenon, <2>1, <2>2 DEF Carries, Moot
  <2> QED BY Zenon, <2>1, <2>2, <2>3, <2>4, PlainWrite
<1>3. CASE ~(o \in Pending(Record(h)) /\ Record(h).pending[o] # code)
  <2>1. UNCHANGED <<store, cache, faults>>
    BY <1>3 DEF MarkPending
  <2>2. RecordsOK /\ History /\ faults \in 0..MaxFaults
    BY DEF IInv, History, FlowType
  <2>3. KeepsRecords(h)
    BY ZenonT(30), <2>1 DEF KeepsRecords, Recovered
  <2> QED BY <2>1, <2>2, <2>3, QuietStep, SameHistory
<1> QED BY <1>2, <1>3

\* A write that may extend the history.
\* Records with the same settled log have settled the same exchanges.
LEMMA SameSettled ==
    ASSUME NEW rec, NEW next, next.settled = rec.settled
    PROVE  Settled(next) = Settled(rec)
BY DEF Settled

LEMMA HistoryWrite ==
    ASSUME IInv, Kept, owed' \subseteq Ops, NEW h \in Hosts, Recovered(h), NEW next,
           Persisted(h, next) \/ AckLost(h, next), JournalEdit(h, next), Owing(EntityOf[h], next)
    PROVE  RecordsOK' /\ OwedUntilSettled' /\ KeepsRecords(h)
<1>1. RecordsOK /\ OwedUntilSettled /\ next \in Records
  BY ZenonT(30) DEF IInv, JournalEdit
<1>2. /\ store' = [store EXCEPT ![EntityOf[h]] = next] /\ EntityOf[h] \in Entities
      /\ \A g \in Hosts : Recovered(g) => Recovered(g)'
  BY ZenonT(30), <1>1, WriteFacts, HostFacts
<1>3. RecordsOK'
  BY <1>1, EditStep
<1>4. OwedUntilSettled'
  BY Zenon, <1>1, <1>2, StillOwed
<1> QED BY ZenonT(30), <1>2, <1>3, <1>4 DEF KeepsRecords

\* A root exchange is pending in the write that owes it.
LEMMA InitiateStep ==
    ASSUME IInv, NEW h \in Hosts, NEW o \in Ops, Initiate(h, o)
    PROVE  IInv'
<1> DEFINE e == EntityOf[h]
           rec == [Record(h) EXCEPT !.commands = @ \cup {o}]
           next == Owe(rec, {o})
<1>1. /\ Recovered(h) /\ Free(h) /\ o \in Roots /\ From[o] = e
      /\ UNCHANGED <<capacity, pass, call, answer, net, decided, outcome, applied, evicted>>
      /\ (Write(h, next) /\ owed' = owed \cup {o}) \/ (Overruled(h) /\ UNCHANGED owed)
      /\ Record(h).ended => o \notin Registrations
  BY DEF Initiate
<1>2. Record(h) \in Records /\ e \in Entities
  BY <1>1, HostFacts DEF IInv
<1>3. /\ rec \in Records /\ rec.pending = Record(h).pending /\ rec.ended = Record(h).ended
      /\ rec.settled = Record(h).settled /\ rec.applied = Record(h).applied
  BY Zenon, <1>1, <1>2 DEF Records
<1>4. Pending(rec) = Pending(Record(h)) /\ Settled(rec) = Settled(Record(h))
  BY <1>3 DEF Pending, Settled
<1> HIDE DEF rec
<1>5. /\ next \in Records /\ next.settled = Record(h).settled /\ next.applied = Record(h).applied
      /\ next.ended = Record(h).ended
      /\ Pending(next) = Pending(Record(h)) \cup {p \in {o} : ~HasInitiated(rec, p)}
  BY <1>3, <1>4, OweFacts
<1>6. HasInitiated(rec, o) => o \in Pending(Record(h)) \cup Settled(Record(h))
  BY Zenon, <1>4 DEF HasInitiated
<1> HIDE DEF next
<1>7. Kept /\ owed' \subseteq Ops
  BY Zenon, <1>1 DEF Kept, IInv, FlowType
<1>8. RecordsOK' /\ History' /\ faults' \in 0..MaxFaults /\ KeepsRecords(h)
  <2>1. CASE Write(h, next) /\ owed' = owed \cup {o}
    <3>1. Persisted(h, next) \/ AckLost(h, next)
      BY ZenonT(30), <2>1 DEF Write
    <3>2. store' = [store EXCEPT ![e] = next] /\ Record(h) = store[e]
      BY Zenon, <1>1, <1>5, <3>1, WriteFacts DEF IInv
    <3>3. Journal(e)
      BY SMTT(30), <1>2 DEF IInv, RecordsOK, Journals
    <3>4. JournalEdit(h, next)
      <4>1. Len(next.applied) =< capacity /\ Len(next.settled) =< capacity
        BY ZenonT(30), <1>2, <1>5, <3>2 DEF IInv, RecordsOK
      <4>2. Settled(next) = Settled(store[e])
        <5>1. next.settled = store[e].settled
          BY Zenon, <1>5, <3>2
        <5> QED BY Zenon, <5>1, SameSettled
      <4>3. Pending(next) \subseteq {p \in owed' : From[p] = e}
        BY <1>1, <1>5, <2>1, <3>2, <3>3 DEF Journal
      <4>4. Settled(next) \subseteq {p \in owed' : outcome'[p] # {}}
        BY ZenonT(30), <1>1, <2>1, <3>3, <4>2 DEF Journal
      <4>5. \A x \in Elements(next.applied) : x.result \in decided'[x.op]
        BY ZenonT(30), <1>1, <1>5, <3>2, <3>3 DEF Journal, Truthful
      <4> QED BY ZenonT(30), <1>5, <4>1, <4>3, <4>4, <4>5 DEF JournalEdit
    <3>5. \A p \in owed' \ owed : From[p] = e /\ p \in Pending(next)
      BY ZenonT(30), <1>1, <1>5, <1>6, <2>1, <3>2, <3>3 DEF Journal
    <3>6. Owing(e, next)
      <4>1. \A p \in Pending(store[e]) : p \in Pending(next)
        BY Zenon, <1>5, <3>2
      <4>2. Moot(store[e])
        BY Zenon, <1>2, StoredMoot DEF IInv
      <4>3. Moot(next)
        BY Zenon, <1>1, <1>5, <3>2, <4>2 DEF Moot
      <4> QED BY Zenon, <1>5, <3>2, <3>5, <4>1, <4>3 DEF Owing
    <3>7. RecordsOK' /\ OwedUntilSettled' /\ KeepsRecords(h)
      BY ZenonT(30), <1>1, <1>7, <3>1, <3>4, <3>6, HistoryWrite
    <3>8. Remembered'
      BY Zenon, <1>1, <1>2, <1>5, <3>2, SameApplied DEF IInv
    <3>9. OneTransition' /\ NothingForgotten'
      BY Zenon, <1>1, <1>7 DEF IInv, OneTransition, NothingForgotten, Kept
    <3>10. faults' \in 0..MaxFaults
      BY <2>1, FaultType DEF Write, AckLost, IInv, FlowType
    <3> QED BY <3>7, <3>8, <3>9, <3>10 DEF History
  <2>2. CASE Overruled(h) /\ UNCHANGED owed
    BY ZenonT(30), <1>1, <2>2, OverruledStep DEF history
  <2> QED BY Zenon, <1>1, <2>1, <2>2
<1>9. Flow'
  BY ZenonT(30), <1>1, <1>7, SameFlow DEF IInv, Flow, Kept
<1>10. FlowType'
  BY ZenonT(30), <1>1, <1>7, <1>8 DEF IInv, FlowType
<1>11. Held'
  BY Zenon, <1>1, <1>8, StillHeld DEF IInv, KeepsRecords, Free
<1> QED BY Zenon, <1>8, <1>9, <1>10, <1>11 DEF IInv, History

\* A failed delivery and an unsettleable refusal leave the exchange owed.
LEMMA UnsettledStep ==
    ASSUME IInv, NEW h \in Hosts, DeliveryFails(h) \/ KeepOutstanding(h)
    PROVE  IInv'
<1>1. call[h] # Idle /\ call[h] \in Ops /\ Recovered(h)
  <2>1. call[h] # Idle
    <3>1. CASE DeliveryFails(h)
      BY Zenon, <3>1 DEF DeliveryFails
    <3>2. CASE KeepOutstanding(h)
      BY Zenon, <3>2 DEF KeepOutstanding, IInv, Flow, NoAnswer
    <3> QED BY <3>1, <3>2
  <2> QED BY Zenon, <2>1 DEF IInv, FlowType, Flow, Held
<1>2. UNCHANGED <<capacity, net, history>> /\ EndCall(h, WriteFailed(h))
  BY Zenon DEF DeliveryFails, KeepOutstanding
<1>3. RecordsOK' /\ History' /\ faults' \in 0..MaxFaults /\ KeepsRecords(h)
  <2>1. CASE \E code \in {"failed", "refused"} : MarkPending(h, code)
    BY <1>1, <1>2, <2>1, MarkPendingStep
  <2>2. CASE UNCHANGED <<store, cache, faults>>
    <3>1. RecordsOK /\ History /\ faults \in 0..MaxFaults /\ KeepsRecords(h)
      BY ZenonT(30), <1>1, <2>2 DEF IInv, History, FlowType, KeepsRecords, Recovered
    <3> QED BY ZenonT(30), <1>2, <2>2, <3>1, QuietStep, SameHistory
  <2> QED BY Zenon, <2>1, <2>2 DEF DeliveryFails, KeepOutstanding
<1>4. Kept
  BY Zenon, <1>2 DEF Kept, history
<1>5. /\ Flow'
      /\ pass' \in [Hosts -> SUBSET Ops] /\ call' \in [Hosts -> Ops \cup {Idle}]
      /\ answer' \in [Hosts -> Results \cup {"unable", NoAnswer}]
  BY Zenon, <1>2, <1>4, EndCallFlow DEF IInv
<1>6. FlowType'
  BY Zenon, <1>2, <1>3, <1>5 DEF IInv, FlowType, history
<1>7. Held'
  BY Zenon, <1>2, <1>3, EndCallHeld DEF IInv
<1> QED BY SMTT(30), <1>3, <1>5, <1>6, <1>7 DEF IInv, History

\* An outcome and its consequence are one write.
LEMMA SettleStep ==
    ASSUME IInv, NEW h \in Hosts, Settle(h)
    PROVE  IInv'
<1> DEFINE e == EntityOf[h]
           o == call[h]
           r == answer[h]
           next == SettledRecord(Record(h), o, r)
           known == o \in Pending(Record(h)) \ Settled(Record(h))
           error == WriteFailed(h) \/ (known /\ ~FitsPending(next))
<1>1. /\ r \in Results /\ EndCall(h, error)
      /\ UNCHANGED <<capacity, net, decided, applied, evicted>>
  BY Zenon DEF Settle
<1>2. \/ /\ Write(h, next) /\ known
         /\ owed' = owed \cup NewlyOwed(e, next)
         /\ outcome' = [outcome EXCEPT ![o] = @ \cup {r}]
      \/ Overruled(h) /\ UNCHANGED <<owed, outcome>>
      \/ UNCHANGED <<store, cache, faults, owed, outcome>>
  BY Zenon DEF Settle
<1>3. /\ o \in Ops /\ o \in owed /\ From[o] = e /\ Recovered(h) /\ r \in decided[o]
  BY <1>1 DEF IInv, FlowType, Flow, Held, Results, NoAnswer
<1>4. Record(h) \in Records /\ e \in Entities /\ capacity \in Nat \ {0}
  BY Zenon, <1>3, HostFacts DEF IInv
<1>5. /\ next \in Records /\ next.applied = Record(h).applied
      /\ Settled(next) \subseteq Settled(Record(h)) \cup {o}
      /\ Len(Record(h).settled) =< capacity => Len(next.settled) =< capacity
      /\ Carries(Record(h), next, Pending(Record(h)) \ {o})
      /\ Pending(next) \subseteq Pending(Record(h)) \cup OwesOnSettle[o]
      /\ r = "accepted" => OwesOnSettle[o] \subseteq Pending(next) \cup Settled(next)
  BY ZenonT(30), <1>3, <1>4, SettledFacts
<1> HIDE DEF next, error, known
<1>6. owed' \subseteq Ops /\ outcome' \in [Ops -> SUBSET Results] /\ Kept
  <2>1. NewlyOwed(e, next) \subseteq Ops
    BY Zenon DEF NewlyOwed, Pending
  <2>2. owed \subseteq Ops /\ outcome \in [Ops -> SUBSET Results] /\ r \in Results
    BY <1>1, <1>3 DEF IInv, FlowType
  <2>3. owed' \subseteq Ops
    BY ZenonT(30), <1>2, <2>1, <2>2
  <2>4. outcome' \in [Ops -> SUBSET Results]
    BY SMTT(30), <1>2, <1>3, <2>2
  <2>5. Kept
    <3>1. owed \subseteq owed'
      BY ZenonT(30), <1>2
    <3>2. capacity' = capacity /\ decided' = decided
      BY ZenonT(30), <1>1
    <3>3. ASSUME NEW p \in Ops PROVE outcome[p] \subseteq outcome'[p]
      <4>1. CASE outcome' = outcome
        BY ZenonT(30), <4>1
      <4>2. CASE outcome' = [outcome EXCEPT ![o] = @ \cup {r}]
        BY SMTT(30), <2>2, <4>2
      <4> QED BY ZenonT(30), <1>2, <4>1, <4>2
    <3> QED BY ZenonT(30), <3>1, <3>2, <3>3 DEF Kept
  <2> QED BY <2>3, <2>4, <2>5
<1>7. RecordsOK' /\ History' /\ faults' \in 0..MaxFaults /\ KeepsRecords(h)
  <2>1. CASE /\ Write(h, next)
             /\ owed' = owed \cup NewlyOwed(e, next)
             /\ outcome' = [outcome EXCEPT ![o] = @ \cup {r}]
    <3>1. Persisted(h, next) \/ AckLost(h, next)
      BY <2>1 DEF Write
    <3>2. store' = [store EXCEPT ![e] = next] /\ Record(h) = store[e]
      BY ZenonT(30), <1>3, <1>5, <3>1, WriteFacts DEF IInv
    <3>3. Journal(e)
      BY Zenon, <1>4 DEF IInv, RecordsOK, Journals
    <3>4. /\ outcome'[o] # {}
          /\ \A p \in Ops \ {o} : outcome'[p] = outcome[p]
      BY <1>1, <1>3, <2>1 DEF IInv, FlowType
    <3>5. Pending(next) \subseteq owed'
      BY ZenonT(30), <2>1, <3>2, <3>3 DEF NewlyOwed, Journal
    <3>6. \A p \in Pending(next) : From[p] = e
      BY SMTT(30), ChoreographyAssumption, <1>3, <1>5, <3>2, <3>3 DEF Journal
    <3>7. Settled(next) \subseteq {p \in owed' : outcome'[p] # {}}
      <4> SUFFICES ASSUME NEW p \in Settled(next) PROVE p \in owed' /\ outcome'[p] # {}
        BY ZenonT(30)
      <4>1. p = o \/ p \in Settled(store[e])
        BY ZenonT(30), <1>5, <3>2
      <4>2. owed \subseteq owed' /\ owed \subseteq Ops
        BY ZenonT(30), <1>6 DEF Kept
      <4>3. CASE p = o
        BY ZenonT(30), <1>3, <3>4, <4>2, <4>3
      <4>4. CASE p # o /\ p \in Settled(store[e])
        <5>1. p \in owed /\ outcome[p] # {}
          BY ZenonT(30), <3>3, <4>4 DEF Journal
        <5> QED BY ZenonT(30), <3>4, <4>2, <4>4, <5>1
      <4> QED BY ZenonT(30), <4>1, <4>3, <4>4
    <3>8. JournalEdit(h, next)
      <4>1. Len(next.applied) =< capacity /\ Len(next.settled) =< capacity
        BY ZenonT(30), <1>4, <1>5, <3>2 DEF IInv, RecordsOK
      <4>2. \A x \in Elements(next.applied) : x.result \in decided'[x.op]
        BY ZenonT(30), <1>1, <1>5, <3>2, <3>3 DEF Journal, Truthful
      <4> QED BY ZenonT(30), <1>5, <3>5, <3>6, <3>7, <4>1, <4>2 DEF JournalEdit
    <3>9. \A p \in owed' \ owed : From[p] = e /\ p \in Pending(next)
      BY ZenonT(30), <2>1, <3>6 DEF NewlyOwed
    <3>10. Owing(e, next)
      <4>1. Moot(store[e])
        BY Zenon, <1>4, StoredMoot DEF IInv
      <4>2. Carries(store[e], next, Pending(store[e]) \ {o})
        BY Zenon, <1>5, <3>2
      <4> QED BY Zenon, <3>4, <3>9, <4>1, <4>2 DEF Owing, Carries
    <3>11. RecordsOK' /\ OwedUntilSettled' /\ KeepsRecords(h)
      BY Zenon, <1>3, <1>6, <3>1, <3>8, <3>10, HistoryWrite
    <3>12. Remembered'
      BY Zenon, <1>1, <1>4, <1>5, <3>2, SameApplied DEF IInv
    <3>13. NothingForgotten'
      <4>1. r = "accepted" => OwesOnSettle[o] \subseteq owed'
        BY ZenonT(30), <1>5, <3>5, <3>7
      <4>2. "accepted" \in outcome'[o] => OwesOnSettle[o] \subseteq owed'
        BY ZenonT(30), <1>3, <2>1, <4>1 DEF IInv, NothingForgotten, FlowType
      <4>3. ASSUME NEW p \in Ops
            PROVE  /\ "accepted" \in decided'[p] => OwesOnApply[p] \subseteq owed'
                   /\ "accepted" \in outcome'[p] => OwesOnSettle[p] \subseteq owed'
        BY ZenonT(30), <1>1, <1>6, <3>4, <4>2 DEF IInv, NothingForgotten, Kept
      <4> QED BY ZenonT(30), <4>3 DEF NothingForgotten
    <3>14. OneTransition'
      BY <1>1 DEF IInv, OneTransition
    <3>15. faults' \in 0..MaxFaults
      BY ZenonT(30), <2>1, FaultType DEF Write, AckLost, IInv, FlowType
    <3> QED BY ZenonT(30), <3>11, <3>12, <3>13, <3>14, <3>15 DEF History
  <2>2. CASE Overruled(h) /\ UNCHANGED <<owed, outcome>>
    BY ZenonT(30), <1>1, <1>3, <2>2, OverruledStep DEF history
  <2>3. CASE UNCHANGED <<store, cache, faults, owed, outcome>>
    <3>1. RecordsOK /\ History /\ faults \in 0..MaxFaults /\ KeepsRecords(h)
      BY SMTT(30), <1>3, <2>3 DEF IInv, History, FlowType, KeepsRecords, Recovered
    <3> QED BY ZenonT(30), <1>1, <2>3, <3>1, QuietStep, SameHistory DEF history
  <2> QED BY ZenonT(30), <1>2, <2>1, <2>2, <2>3
<1>8. /\ Flow'
      /\ pass' \in [Hosts -> SUBSET Ops] /\ call' \in [Hosts -> Ops \cup {Idle}]
      /\ answer' \in [Hosts -> Results \cup {"unable", NoAnswer}]
  BY ZenonT(30), <1>1, <1>6, EndCallFlow DEF IInv
<1>9. FlowType'
  BY Zenon, <1>1, <1>6, <1>7, <1>8 DEF IInv, FlowType
<1>10. Held'
  <2>1. WriteFailed(h) => error
    BY SMTT(30) DEF error
  <2> QED BY Zenon, <1>1, <1>7, <2>1, EndCallHeld DEF IInv
<1> QED BY <1>7, <1>8, <1>9, <1>10 DEF IInv, History

\* A reply reaches a host that waits for it, or nobody.
LEMMA AnswerFlow ==
    ASSUME FlowType, Flow, Kept, NEW o \in Ops, NEW r \in Results \cup {"unable"},
           r \in Results => r \in decided'[o],
           Answer(o, r), UNCHANGED <<pass, call>>, net' \subseteq net
    PROVE  /\ Flow' /\ faults' \in 0..MaxFaults
           /\ answer' \in [Hosts -> Results \cup {"unable", NoAnswer}]
<1>1. CASE UNCHANGED answer
  <2>1. Flow'
    BY Zenon, <1>1, SameFlow DEF Flow, Kept
  <2>2. faults' \in 0..MaxFaults
    BY ZenonT(30), FaultType DEF Answer, FlowType
  <2> QED BY <1>1, <2>1, <2>2 DEF FlowType
<1>2. CASE \E h \in Hosts : /\ call[h] = o /\ answer[h] = NoAnswer
                          /\ answer' = [answer EXCEPT ![h] = r]
  <2>1. PICK h \in Hosts : call[h] = o /\ answer' = [answer EXCEPT ![h] = r]
    BY ZenonT(30), <1>2
  <2>2. answer'[h] = r /\ \A g \in Hosts \ {h} : answer'[g] = answer[g]
    BY SMTT(30), <2>1 DEF FlowType
  <2>3. ASSUME NEW g \in Hosts
        PROVE  /\ answer'[g] # NoAnswer => call[g] # Idle
               /\ answer'[g] \in Results => answer'[g] \in decided'[call[g]]
    <3>1. CASE g = h
      <4>1. o # Idle
        BY ChoreographyAssumption DEF Idle
      <4> QED BY Zenon, <2>1, <2>2, <3>1, <4>1
    <3>2. CASE g # h
      <4>1. answer[g] \in Results => call[g] \in Ops
        BY Zenon DEF Flow, FlowType, Results, NoAnswer
      <4> QED BY ZenonT(30), <2>2, <3>2, <4>1 DEF Flow, Kept
    <3> QED BY ZenonT(30), <3>1, <3>2
  <2>4. Flow'
    BY ZenonT(30), <2>3 DEF Flow, Kept
  <2>5. faults' \in 0..MaxFaults
    BY ZenonT(30), FaultType DEF Answer, FlowType
  <2> QED BY <2>1, <2>4, <2>5 DEF FlowType
<1> QED BY ZenonT(30), <1>1, <1>2 DEF Answer

\* A transition, its result and what it owes are one write.
LEMMA ApplyStep ==
    ASSUME IInv, NEW h \in Hosts, NEW o \in Ops, NEW r \in Verdicts[o], Apply(h, o, r)
    PROVE  IInv'
<1> DEFINE e == EntityOf[h]
           x == [op |-> o, result |-> r]
           next == AppliedRecord(Record(h), o, r)
           grown == /\ owed' = owed \cup NewlyOwed(e, next)
                    /\ decided' = [decided EXCEPT ![o] = @ \cup {r}]
                    /\ applied' = [applied EXCEPT ![o] = IF @ < 2 THEN @ + 1 ELSE @]
                    /\ evicted' = evicted \cup (AppliedOps(store[e]) \ AppliedOps(next))
<1>1. /\ Free(h) /\ Recovered(h) /\ o \in net /\ To[o] = e /\ net' = net \ {o}
      /\ o \notin AppliedOps(Record(h)) /\ r \in Results
      /\ UNCHANGED <<capacity, pass, call, outcome>>
  BY Zenon, ChoreographyAssumption DEF Apply, Takes, Results
<1>2. \/ Persisted(h, next) /\ Answer(o, r) /\ grown
      \/ AckLost(h, next) /\ UNCHANGED answer /\ grown
      \/ Overruled(h) /\ UNCHANGED <<answer, owed, decided, applied, evicted>>
      \/ UNCHANGED <<store, cache, answer, faults, owed, decided, applied, evicted>>
  BY Zenon DEF Apply
<1>3. Record(h) \in Records /\ e \in Entities /\ capacity \in Nat \ {0}
  BY ZenonT(30), <1>1, HostFacts DEF IInv
<1>4. /\ next \in Records /\ next.settled = Record(h).settled
      /\ Elements(next.applied) \subseteq Elements(Record(h).applied) \cup {x}
      /\ x \in Elements(next.applied)
      /\ Len(Record(h).applied) =< capacity => Len(next.applied) =< capacity
      /\ Carries(Record(h), next, Pending(Record(h)))
      /\ Pending(next) \subseteq Pending(Record(h)) \cup OwesOnApply[o]
      /\ r = "accepted" => OwesOnApply[o] \subseteq Pending(next) \cup Settled(Record(h))
  BY Zenon, <1>1, <1>3, AppliedFacts
<1>5. x.op = o /\ x.result = r
  OBVIOUS
<1>6. o \in AppliedOps(next)
  BY ZenonT(30), <1>4, <1>5, EntryType
<1> HIDE DEF next, x
<1>7. /\ NewlyOwed(e, next) \subseteq Ops
      /\ AppliedOps(store[e]) \subseteq Ops
  <2>1. NewlyOwed(e, next) \subseteq Ops
    BY DEF NewlyOwed, Pending
  <2>2. store[e] \in Records
    BY ZenonT(30), <1>3 DEF IInv, RecordsOK
  <2>3. ASSUME NEW i \in DOMAIN store[e].applied PROVE store[e].applied[i].op \in Ops
    <3>1. store[e].applied[i] \in Elements(store[e].applied)
      BY ZenonT(30) DEF Elements
    <3> QED BY ZenonT(30), <2>2, <3>1, EntryType
  <2> QED BY SMTT(30), <2>1, <2>3 DEF AppliedOps
<1>8. /\ Kept /\ owed' \subseteq Ops /\ evicted' \subseteq Ops
      /\ decided' \in [Ops -> SUBSET Results] /\ applied' \in [Ops -> 0..2]
  <2>1. /\ owed \subseteq Ops /\ evicted \subseteq Ops
        /\ decided \in [Ops -> SUBSET Results] /\ applied \in [Ops -> 0..2]
    BY DEF IInv, FlowType
  <2>2. grown \/ UNCHANGED <<owed, decided, applied, evicted>>
    BY Zenon, <1>2
  <2>3. owed \subseteq owed' /\ owed' \subseteq Ops /\ evicted' \subseteq Ops
    BY Zenon, <1>7, <2>1, <2>2
  <2>4. applied' \in [Ops -> 0..2]
    BY SMTT(30), <2>1, <2>2
  <2>5. /\ decided' \in [Ops -> SUBSET Results]
        /\ \A p \in Ops : decided[p] \subseteq decided'[p]
    BY SMTT(30), <1>1, <2>1, <2>2
  <2> QED BY ZenonT(30), <1>1, <2>3, <2>4, <2>5 DEF Kept
<1>9. CASE \/ Persisted(h, next) /\ Answer(o, r) /\ grown
           \/ AckLost(h, next) /\ UNCHANGED answer /\ grown
  <2>1. store' = [store EXCEPT ![e] = next] /\ Record(h) = store[e]
    BY Zenon, <1>1, <1>4, <1>9, WriteFacts DEF IInv
  <2>2. Journal(e)
    BY ZenonT(30), <1>3 DEF IInv, RecordsOK, Journals
  <2>3. r \in decided'[o]
    BY <1>9 DEF IInv, FlowType
  <2>4. Pending(next) \subseteq owed'
    BY Zenon, <1>9, <2>1, <2>2 DEF NewlyOwed, Journal
  <2>5. \A p \in Pending(next) : From[p] = e
    BY ZenonT(30), ChoreographyAssumption, <1>1, <1>4, <2>1, <2>2 DEF Journal
  <2>6. Settled(next) = Settled(store[e])
    <3>1. next.settled = store[e].settled
      BY ZenonT(30), <1>4, <2>1
    <3> QED BY Zenon, <3>1, SameSettled
  <2>7. \A y \in Elements(next.applied) : y.result \in decided'[y.op]
    <3> TAKE y \in Elements(next.applied)
    <3>1. CASE y = x
      BY ZenonT(30), <1>5, <2>3, <3>1
    <3>2. CASE y # x
      <4>1. y \in Elements(store[e].applied) /\ y.op \in Ops
        BY <1>4, <2>1, <3>2, EntryType
      <4> QED BY ZenonT(30), <1>8, <2>2, <4>1 DEF Journal, Truthful, Kept
    <3> QED BY ZenonT(30), <3>1, <3>2
  <2>8. JournalEdit(h, next)
    <3>1. Len(next.applied) =< capacity /\ Len(next.settled) =< capacity
      BY <1>3, <1>4, <2>1 DEF IInv, RecordsOK
    <3>2. Settled(next) \subseteq {p \in owed' : outcome'[p] # {}}
      BY Zenon, <1>1, <1>8, <2>2, <2>6 DEF Journal, Kept
    <3> QED BY Zenon, <1>4, <2>4, <2>5, <2>7, <3>1, <3>2 DEF JournalEdit
  <2>9. \A p \in owed' \ owed : From[p] = e /\ p \in Pending(next)
    BY ZenonT(30), ChoreographyAssumption, <1>9, <2>5 DEF NewlyOwed
  <2>10. RecordsOK' /\ OwedUntilSettled' /\ KeepsRecords(h)
    <3>1. Moot(store[e])
      BY Zenon, <1>3, StoredMoot DEF IInv
    <3>2. Carries(store[e], next, Pending(store[e]))
      BY Zenon, <1>4, <2>1
    <3>3. Owing(e, next)
      BY Zenon, <2>9, <3>1, <3>2 DEF Owing, Carries
    <3> QED BY Zenon, <1>1, <1>8, <1>9, <2>8, <3>3, HistoryWrite
  <2>11. NothingForgotten'
    <3>1. r = "accepted" => OwesOnApply[o] \subseteq owed'
      BY Zenon, <1>4, <1>8, <2>1, <2>2, <2>4 DEF Journal, Kept
    <3>2. "accepted" \in decided'[o] => OwesOnApply[o] \subseteq owed'
      <4>1. decided'[o] = decided[o] \cup {r}
        <5>1. decided' = [decided EXCEPT ![o] = @ \cup {r}]
          BY Zenon, <1>9
        <5>2. o \in DOMAIN decided
          BY Zenon DEF IInv, FlowType
        <5> QED BY Zenon, <5>1, <5>2
      <4>2. "accepted" \in decided[o] => OwesOnApply[o] \subseteq owed
        BY ZenonT(30) DEF IInv, NothingForgotten
      <4>3. owed \subseteq owed'
        BY ZenonT(30), <1>8 DEF Kept
      <4> QED BY ZenonT(30), <3>1, <4>1, <4>2, <4>3
    <3>3. \A p \in Ops \ {o} : decided'[p] = decided[p]
      BY <1>9 DEF IInv, FlowType
    <3>4. ASSUME NEW p \in Ops
          PROVE  /\ "accepted" \in decided'[p] => OwesOnApply[p] \subseteq owed'
                 /\ "accepted" \in outcome'[p] => OwesOnSettle[p] \subseteq owed'
      BY Zenon, <1>1, <1>8, <3>2, <3>3 DEF IInv, NothingForgotten, Kept
    <3> QED BY Zenon, <3>4 DEF NothingForgotten
  <2>12. /\ \A f \in Entities : store'[f] = IF f = e THEN next ELSE store[f]
         /\ evicted \subseteq evicted'
         /\ AppliedOps(store[e]) \subseteq AppliedOps(next) \cup evicted'
         /\ \A p \in Ops \ {o} : applied'[p] = applied[p]
    BY <1>9, <2>1 DEF IInv, RecordsOK, FlowType
  <2>13. Remembered'
    <3> SUFFICES ASSUME NEW p \in Ops, applied'[p] # 0
                 PROVE  p \in AppliedOps(store'[To[p]]) \cup evicted'
      BY DEF Remembered
    <3>1. CASE p = o
      BY Zenon, <1>1, <1>3, <1>6, <2>12, <3>1
    <3>2. CASE p # o
      <4>1. p \in AppliedOps(store[To[p]]) \cup evicted
        BY Zenon, <2>12, <3>2 DEF IInv, Remembered
      <4> QED BY ZenonT(30), ChoreographyAssumption, <2>12, <4>1
    <3> QED BY Zenon, <3>1, <3>2
  <2>14. OneTransition'
    <3> SUFFICES ASSUME NEW p \in Ops, applied'[p] = 2
                 PROVE  p \in evicted'
      BY DEF OneTransition
    <3>1. CASE p = o
      <4>1. applied[o] # 0
        BY <1>9, <3>1 DEF IInv, FlowType
      <4> QED BY ZenonT(30), <1>1, <2>1, <2>12, <3>1, <4>1 DEF IInv, Remembered
    <3>2. CASE p # o
      BY Zenon, <2>12, <3>2 DEF IInv, OneTransition
    <3> QED BY Zenon, <3>1, <3>2
  <2>15. Flow' /\ faults' \in 0..MaxFaults /\ answer' \in [Hosts -> Results \cup {"unable", NoAnswer}]
    <3>1. CASE Persisted(h, next) /\ Answer(o, r)
      BY ZenonT(30), <1>1, <1>8, <2>3, <3>1, AnswerFlow DEF IInv
    <3>2. CASE AckLost(h, next) /\ UNCHANGED answer
      <4>1. Flow'
        BY Zenon, <1>1, <1>8, <3>2, SameFlow DEF IInv, Flow, Kept
      <4> QED BY <3>2, <4>1, FaultType DEF AckLost, IInv, FlowType
    <3> QED BY ZenonT(30), <1>9, <3>1, <3>2
  <2>16. Held'
    BY Zenon, <1>1, <2>10, StillHeld DEF IInv, KeepsRecords, Free
  <2>17. FlowType'
    BY ZenonT(30), <1>1, <1>8, <2>15 DEF IInv, FlowType
  <2> QED BY ZenonT(30), <2>10, <2>11, <2>13, <2>14, <2>15, <2>16, <2>17 DEF IInv
<1>10. CASE \/ Overruled(h) /\ UNCHANGED <<answer, owed, decided, applied, evicted>>
            \/ UNCHANGED <<store, cache, answer, faults, owed, decided, applied, evicted>>
  <2>1. UNCHANGED <<answer, history>>
    BY ZenonT(30), <1>1, <1>10 DEF history
  <2>2. RecordsOK' /\ History' /\ faults' \in 0..MaxFaults /\ KeepsRecords(h)
    <3>1. CASE Overruled(h)
      BY ZenonT(30), <1>1, <2>1, <3>1, OverruledStep
    <3>2. CASE UNCHANGED <<store, cache, faults>>
      <4>1. RecordsOK /\ History /\ faults \in 0..MaxFaults /\ KeepsRecords(h)
        BY <1>1, <3>2 DEF IInv, History, FlowType, KeepsRecords, Recovered
      <4> QED BY ZenonT(30), <1>1, <2>1, <3>2, <4>1, QuietStep, SameHistory
    <3> QED BY ZenonT(30), <1>10, <3>1, <3>2
  <2>3. Flow'
    BY Zenon, <1>1, <1>8, <2>1, SameFlow DEF IInv, Flow, Kept
  <2>4. Held'
    BY Zenon, <1>1, <2>2, StillHeld DEF IInv, KeepsRecords, Free
  <2>5. FlowType'
    BY ZenonT(30), <1>1, <1>8, <2>1, <2>2 DEF IInv, FlowType
  <2> QED BY ZenonT(30), <2>2, <2>3, <2>4, <2>5 DEF IInv, History
<1> QED BY <1>2, <1>9, <1>10

\* Steps that write nothing: loading, crashing, delivering, losing, repeating, answering
\* from the log and being unable to answer.
LEMMA QuietActions ==
    ASSUME IInv, NEW h, NEW o,
           \/ h \in Hosts /\ (Recover(h) \/ Crash(h) \/ StartPass(h))
           \/ h \in Hosts /\ o \in Ops /\ (Deliver(h, o) \/ Replay(h, o) \/ Unable(h, o))
           \/ Lose(o) \/ Repeat(o)
    PROVE  IInv'
<1>1. /\ UNCHANGED <<capacity, store, history>>
      /\ \/ cache' = cache
         \/ h \in Hosts /\ cache' = Loaded(h)
         \/ h \in Hosts /\ cache' = [cache EXCEPT ![h] = NoRecord]
  BY Zenon DEF Recover, Crash, StartPass, Deliver, Replay, Unable, Lose, Repeat
<1>2. RecordsOK' /\ History' /\ Kept
  <2>1. RecordsOK /\ History /\ Kept
    BY Zenon, <1>1 DEF IInv, History, Kept, history
  <2> QED BY <1>1, <2>1, QuietStep, SameHistory
<1>3. FlowType /\ Flow /\ Held /\ RecordsOK
  BY ZenonT(30) DEF IInv
<1>4. h \in Hosts => Loaded(h)[h] # NoRecord /\ \A g \in Hosts \ {h} : Loaded(h)[g] = cache[g]
  BY SMTT(30), <1>3 DEF RecordsOK, Loaded, NoRecord
<1>5. FlowType' /\ Flow' /\ Held'
  <2>1. CASE h \in Hosts /\ Recover(h)
    <3>1. UNCHANGED <<pass, call, answer, net, faults>> /\ cache' = Loaded(h)
      BY <2>1 DEF Recover
    <3>2. Flow'
      BY Zenon, <1>2, <1>3, <3>1, SameFlow DEF Flow, Kept
    <3>3. Held'
      BY Zenon, <2>1, <1>3, <1>4, <3>1 DEF Held, Recovered
    <3> QED BY ZenonT(30), <1>1, <1>3, <3>1, <3>2, <3>3 DEF FlowType, history
  <2>2. CASE h \in Hosts /\ Crash(h)
    <3>1. /\ EndCall(h, TRUE) /\ net' = net /\ Fault
          /\ cache' = [cache EXCEPT ![h] = NoRecord]
      BY <2>2 DEF Crash, EndCall
    <3>2. /\ Flow'
          /\ pass' \in [Hosts -> SUBSET Ops] /\ call' \in [Hosts -> Ops \cup {Idle}]
          /\ answer' \in [Hosts -> Results \cup {"unable", NoAnswer}]
      BY Zenon, <2>2, <1>2, <1>3, <3>1, EndCallFlow
    <3>3. faults' \in 0..MaxFaults
      BY ZenonT(30), <1>3, <3>1, FaultType DEF FlowType
    <3>4. Held'
      BY ZenonT(30), <2>2, <1>3, <3>1 DEF Held, EndCall, FlowType, RecordsOK, Recovered
    <3> QED BY ZenonT(30), <1>1, <1>3, <3>1, <3>2, <3>3, <3>4 DEF FlowType, history
  <2>3. CASE h \in Hosts /\ StartPass(h)
    <3>1. /\ UNCHANGED <<call, answer, net, faults>> /\ cache' = Loaded(h)
          /\ pass' = [pass EXCEPT ![h] = Pending(store[EntityOf[h]])]
          /\ call[h] = Idle
      BY <2>3 DEF StartPass, Free
    <3>2. Pending(store[EntityOf[h]]) \subseteq {p \in owed : From[p] = EntityOf[h]}
      BY ZenonT(30), ChoreographyAssumption, <2>3, <1>3 DEF RecordsOK, Journals, Journal
    <3>3. Pending(store[EntityOf[h]]) \subseteq Ops
      BY ZenonT(30) DEF Pending
    <3>4. pass' \in [Hosts -> SUBSET Ops]
      BY ZenonT(30), <2>3, <1>3, <3>1, <3>3 DEF FlowType
    <3>5. Flow'
      BY ZenonT(30), <2>3, <1>1, <1>3, <3>1, <3>2 DEF Flow, FlowType, history
    <3>6. Held'
      BY Zenon, <2>3, <1>3, <1>4, <3>1 DEF Held, FlowType, Recovered
    <3> QED BY ZenonT(30), <1>1, <1>3, <3>1, <3>4, <3>5, <3>6 DEF FlowType, history
  <2>4. CASE h \in Hosts /\ o \in Ops /\ Deliver(h, o)
    <3>1. /\ UNCHANGED <<cache, pass, answer, faults>> /\ o \in pass[h] /\ call[h] = Idle
          /\ net' = net \cup {o} /\ call' = [call EXCEPT ![h] = o]
      BY Zenon, <2>4 DEF Deliver
    <3>2. answer[h] = NoAnswer /\ NoAnswer \notin Results
      BY Zenon, <2>4, <1>3, <3>1 DEF Flow, Results, NoAnswer
    <3>3. Flow'
      <4>1. /\ UNCHANGED <<owed, decided, pass, answer>>
            /\ net' \subseteq owed' /\ call \in [Hosts -> Ops \cup {Idle}]
        <5>1. UNCHANGED <<owed, decided, pass, answer>> /\ call \in [Hosts -> Ops \cup {Idle}]
          BY Zenon, <1>1, <1>3, <3>1 DEF FlowType, history
        <5>2. net \subseteq owed /\ o \in owed
          BY Zenon, <2>4, <1>3, <3>1 DEF Flow
        <5> QED BY Zenon, <3>1, <5>1, <5>2
      <4>2. call'[h] = o /\ \A g \in Hosts : g # h => call'[g] = call[g]
        BY Zenon, <2>4, <3>1, <4>1
      <4>3. ASSUME NEW g \in Hosts
            PROVE  /\ pass'[g] \subseteq {p \in owed' : From[p] = EntityOf[g]}
                   /\ call'[g] # Idle => call'[g] \in pass'[g]
                   /\ answer'[g] # NoAnswer => call'[g] # Idle
                   /\ answer'[g] \in Results => answer'[g] \in decided'[call'[g]]
        <5>1. CASE g = h
          BY Zenon, <1>3, <3>1, <3>2, <4>1, <4>2, <5>1 DEF Flow
        <5>2. CASE g # h
          BY Zenon, <1>3, <4>1, <4>2, <5>2 DEF Flow
        <5> QED BY Zenon, <5>1, <5>2
      <4> QED BY Zenon, <4>1, <4>3 DEF Flow
    <3>4. Held'
      BY Zenon, <1>3, <3>1 DEF Held, Recovered
    <3> QED BY <2>4, <1>1, <1>3, <3>1, <3>3, <3>4 DEF FlowType, history
  <2>5. CASE Lose(o) \/ Repeat(o)
    <3>1. UNCHANGED <<cache, pass, call, answer>> /\ net' \subseteq net \cup owed /\ Fault
      BY Zenon, <2>5 DEF Lose, Repeat
    <3>2. Flow'
      BY Zenon, <1>2, <1>3, <3>1, SameFlow DEF Flow, Kept
    <3>3. faults' \in 0..MaxFaults
      BY ZenonT(30), <1>3, <3>1, FaultType DEF FlowType
    <3>4. Held'
      BY ZenonT(30), <1>3, <3>1 DEF Held, Recovered
    <3> QED BY <1>1, <1>3, <3>1, <3>2, <3>3, <3>4 DEF FlowType, history
  <2>6. CASE h \in Hosts /\ o \in Ops /\ (Replay(h, o) \/ Unable(h, o))
    <3> DEFINE r == IF Replay(h, o) THEN AppliedResult(Record(h), o) ELSE "unable"
    <3>1. /\ UNCHANGED <<cache, pass, call>> /\ net' \subseteq net /\ Recovered(h)
          /\ Answer(o, r)
      BY Zenon, <2>6 DEF Replay, Unable, Takes
    <3>2. r \in Results \cup {"unable"} /\ (r \in Results => r \in decided'[o])
      <4>1. CASE Replay(h, o)
        <5>1. o \in AppliedOps(Record(h))
          BY ZenonT(30), <4>1 DEF Replay
        <5>2. Record(h) \in Records /\ Truthful(Record(h))
          BY ZenonT(30), <2>6, <1>3, <3>1, HostFacts
        <5>3. AppliedResult(Record(h), o) \in Results \cap decided[o]
          BY ZenonT(30), <5>1, <5>2, AppliedResultFacts
        <5> QED BY Zenon, <1>1, <4>1, <5>3 DEF history
      <4>2. CASE ~Replay(h, o)
        BY ZenonT(30), <4>2 DEF Results
      <4> QED BY Zenon, <4>1, <4>2
    <3> HIDE DEF r
    <3>3. /\ Flow' /\ faults' \in 0..MaxFaults
          /\ answer' \in [Hosts -> Results \cup {"unable", NoAnswer}]
      BY ZenonT(30), <2>6, <1>2, <1>3, <3>1, <3>2, AnswerFlow
    <3>4. Held'
      BY ZenonT(30), <1>3, <3>1 DEF Held, Recovered
    <3> QED BY <1>1, <1>3, <3>1, <3>3, <3>4 DEF FlowType, history
  <2> QED BY ZenonT(30), <2>1, <2>2, <2>3, <2>4, <2>5, <2>6
<1> QED BY <1>2, <1>5 DEF IInv, History

------------------------------------------------------------------------------
(* The theorems *)

\* Nothing is owed, decided or cached at first.
LEMMA InitIInv ==
    ASSUME Init
    PROVE  IInv
<1>1. EmptyRecord \in Records
  BY SMTT(30) DEF EmptyRecord, Records, Codes
<1>2. /\ Pending(EmptyRecord) = {} /\ Settled(EmptyRecord) = {}
      /\ AppliedOps(EmptyRecord) = {} /\ Elements(EmptyRecord.applied) = {}
      /\ Len(EmptyRecord.applied) = 0 /\ Len(EmptyRecord.settled) = 0
  <2>1. EmptyRecord.applied = <<>> /\ EmptyRecord.settled = <<>>
    BY Zenon DEF EmptyRecord
  <2>2. Pending(EmptyRecord) = {}
    BY Zenon DEF EmptyRecord, Pending
  <2> QED BY SMTT(30), <2>1, <2>2 DEF Settled, AppliedOps, Elements
<1>3. /\ NoRecord \in CacheValues /\ NoRecord.fresh = FALSE
  BY Zenon DEF CacheValues, NoRecord
<1> HIDE DEF EmptyRecord
<1>4. FlowType
  BY ChoreographyAssumption DEF Init, FlowType, Idle, NoAnswer
<1>5. RecordsOK
  <2>1. Journals
    BY Zenon, <1>2 DEF Init, Journals, Journal, Truthful
  <2>2. CachedTruth /\ Current
    BY Zenon, <1>3 DEF Init, CachedTruth, Current, Recovered
  <2> QED BY SMTT(30), ChoreographyAssumption, <1>1, <1>2, <1>3, <2>1, <2>2 DEF Init, RecordsOK
<1>6. Flow /\ Held
  BY Zenon DEF Init, Flow, Held, Results, NoAnswer
<1>7. Remembered /\ OneTransition /\ OwedUntilSettled /\ NothingForgotten
  <2>1. 0 # 2
    OBVIOUS
  <2>2. \A o \in Ops : applied[o] = 0 /\ decided[o] = {} /\ outcome[o] = {}
    BY Zenon DEF Init
  <2> QED
    BY Zenon, <1>2, <2>1, <2>2
       DEF Init, Remembered, OneTransition, OwedUntilSettled, NothingForgotten
<1> QED BY ZenonT(30), <1>4, <1>5, <1>6, <1>7 DEF IInv

\* Every step keeps the inductive invariant.
LEMMA NextIInv ==
    ASSUME IInv, [Next]_vars
    PROVE  IInv'
<1>1. CASE UNCHANGED vars
  <2>1. UNCHANGED <<capacity, store, cache, pass, call, answer, net, faults, history>>
    BY Zenon, <1>1 DEF vars
  <2>2. RecordsOK /\ History /\ Kept /\ FlowType /\ Flow /\ Held
    BY Zenon, <2>1 DEF IInv, History, Kept, history
  <2>3. RecordsOK' /\ History'
    BY <2>1, <2>2, QuietStep, SameHistory
  <2>4. Flow'
    BY Zenon, <2>1, <2>2, SameFlow DEF Flow, Kept
  <2>5. FlowType' /\ Held'
    BY Zenon, <2>1, <2>2 DEF FlowType, Held, Recovered, history
  <2> QED BY Zenon, <2>3, <2>4, <2>5 DEF IInv, History
<1>2. ASSUME NEW o \in Ops, Lose(o) \/ Repeat(o) PROVE IInv'
  BY Zenon, <1>2, QuietActions
<1>3. ASSUME NEW h \in Hosts, Recover(h) \/ Crash(h) \/ StartPass(h) PROVE IInv'
  BY Zenon, <1>3, QuietActions
<1>4. ASSUME NEW h \in Hosts, Create(h) \/ End(h) PROVE IInv'
  BY Zenon, <1>4, CreateStep, EndStep
<1>5. ASSUME NEW h \in Hosts, DeliveryFails(h) \/ KeepOutstanding(h) PROVE IInv'
  BY Zenon, <1>5, UnsettledStep
<1>6. ASSUME NEW h \in Hosts, Settle(h) PROVE IInv'
  BY <1>6, SettleStep
<1>7. ASSUME NEW h \in Hosts, NEW o \in Ops, Initiate(h, o) PROVE IInv'
  BY Zenon, <1>7, InitiateStep
<1>8. ASSUME NEW h \in Hosts, NEW o \in Ops, Deliver(h, o) \/ Replay(h, o) \/ Unable(h, o)
      PROVE  IInv'
  BY <1>8, QuietActions
<1>9. ASSUME NEW h \in Hosts, NEW o \in Ops, NEW r \in Verdicts[o], Apply(h, o, r)
      PROVE  IInv'
  BY Zenon, <1>9, ApplyStep
<1> QED BY Zenon, <1>1, <1>2, <1>3, <1>4, <1>5, <1>6, <1>7, <1>8, <1>9 DEF Next

\* The inductive invariant implies the type invariant of the specification.
LEMMA IInvTypes ==
    ASSUME IInv
    PROVE  TypeOK
BY DEF IInv, FlowType, RecordsOK, CacheValues, TypeOK

\* IInv holds in every reachable state, whatever crashes, conflicts or is lost.
THEOREM Inductive == Spec => []IInv
<1>1. Init => IInv
  BY InitIInv
<1>2. IInv /\ [Next]_vars => IInv'
  BY NextIInv
<1> QED BY <1>1, <1>2, PTL DEF Spec

\* Every variable keeps its type, and the logs their capacity.
THEOREM TypeCorrect == Spec => []TypeOK
BY Inductive, IInvTypes, PTL

\* accept runs a participant's transition at most once for an operation its log
\* still holds, on any number of hosts that believe they serve the entity.
THEOREM AppliedOnce == Spec => []OneTransition
<1>1. IInv => OneTransition
  BY DEF IInv
<1> QED BY <1>1, Inductive, PTL

\* An owed exchange is never dropped: it leaves the pending log with an outcome, or as
\* a registration withdrawn by the write that ends its task, and then for good.
THEOREM NeverDropped == Spec => []OwedUntilSettled
<1>1. IInv => OwedUntilSettled
  BY DEF IInv
<1> QED BY <1>1, Inductive, PTL

\* A transition and the exchanges it owes are persisted together.
THEOREM TransitionOwes == Spec => []NothingForgotten
<1>1. IInv => NothingForgotten
  BY SMTT(30) DEF IInv
<1> QED BY <1>1, Inductive, PTL

\* Only a transition decides, and all that was decided of a remembered operation agrees.
Decided ==
    \A o \in Ops :
        /\ decided[o] # {} => applied[o] # 0
        /\ o \notin evicted => \A r, s \in decided[o] : r = s

\* Every step keeps Decided: a host whose write is accepted holds the stored log.
LEMMA DecidedStep ==
    ASSUME IInv, Decided, [Next]_vars
    PROVE  Decided'
<1>1. CASE UNCHANGED <<decided, applied, evicted>>
  BY ZenonT(30), <1>1 DEF Decided
<1>2. ASSUME NEW h \in Hosts, NEW o \in Ops, NEW r \in Verdicts[o], Apply(h, o, r)
      PROVE  Decided'
  <2> DEFINE e == EntityOf[h]
             next == AppliedRecord(Record(h), o, r)
             grown == /\ decided' = [decided EXCEPT ![o] = @ \cup {r}]
                      /\ applied' = [applied EXCEPT ![o] = IF @ < 2 THEN @ + 1 ELSE @]
                      /\ evicted' = evicted \cup (AppliedOps(store[e]) \ AppliedOps(next))
  <2>1. /\ Recovered(h) /\ To[o] = e /\ o \notin AppliedOps(Record(h)) /\ r \in Results
        /\ \/ (Persisted(h, next) \/ AckLost(h, next)) /\ grown
           \/ UNCHANGED <<decided, applied, evicted>>
    BY ZenonT(30), ChoreographyAssumption, <1>2 DEF Apply, Takes, Results, Write
  <2>2. CASE (Persisted(h, next) \/ AckLost(h, next)) /\ grown
    <3>1. Record(h) \in Records /\ e \in Entities /\ capacity \in Nat \ {0}
      BY ZenonT(30), <2>1, HostFacts DEF IInv
    <3>2. next \in Records
      BY Zenon, <2>1, <3>1, AppliedFacts
    <3> HIDE DEF next
    <3>3. Record(h) = store[e]
      BY Zenon, <2>1, <2>2, <3>2, WriteFacts DEF IInv
    <3>4. o \notin evicted => decided[o] = {}
      BY Zenon, <2>1, <3>3 DEF IInv, Remembered, Decided
    <3>5. /\ decided'[o] = decided[o] \cup {r} /\ applied'[o] # 0 /\ evicted \subseteq evicted'
          /\ \A p \in Ops \ {o} : decided'[p] = decided[p] /\ applied'[p] = applied[p]
      <4>1. /\ decided \in [Ops -> SUBSET Results] /\ applied \in [Ops -> 0..2]
            /\ decided' = [decided EXCEPT ![o] = @ \cup {r}] /\ evicted \subseteq evicted'
            /\ applied' = [applied EXCEPT ![o] = IF @ < 2 THEN @ + 1 ELSE @]
        BY Zenon, <2>2 DEF IInv, FlowType
      <4>2. /\ decided'[o] = decided[o] \cup {r}
            /\ \A p \in Ops \ {o} : decided'[p] = decided[p] /\ applied'[p] = applied[p]
        BY Zenon, <4>1
      <4>3. applied'[o] # 0
        BY <4>1
      <4> QED BY Zenon, <4>1, <4>2, <4>3
    <3>6. ASSUME NEW p \in Ops
          PROVE  /\ decided'[p] # {} => applied'[p] # 0
                 /\ p \notin evicted' => \A a, b \in decided'[p] : a = b
      <4>1. CASE p = o
        BY Zenon, <3>4, <3>5, <4>1
      <4>2. CASE p # o
        BY Zenon, <3>5, <4>2 DEF Decided
      <4> QED BY Zenon, <4>1, <4>2
    <3> QED BY Zenon, <3>6 DEF Decided
  <2> QED BY Zenon, <1>1, <2>1, <2>2
<1>3. ASSUME NEW h \in Hosts, NEW o \in Ops,
             \/ Initiate(h, o) \/ Deliver(h, o) \/ Replay(h, o) \/ Unable(h, o)
      PROVE  Decided'
  BY ZenonT(30), <1>1, <1>3 DEF Initiate, Deliver, Replay, Unable, history
<1>4. ASSUME NEW h \in Hosts,
             \/ Recover(h) \/ Crash(h) \/ Create(h) \/ End(h) \/ StartPass(h)
             \/ DeliveryFails(h) \/ KeepOutstanding(h) \/ Settle(h)
      PROVE  Decided'
  BY SMTT(30), <1>1, <1>4
     DEF Recover, Crash, Create, End, StartPass, DeliveryFails, KeepOutstanding, Settle, history
<1>5. ASSUME NEW o \in Ops, Lose(o) \/ Repeat(o)
      PROVE  Decided'
  BY ZenonT(30), <1>1, <1>5 DEF Lose, Repeat, history
<1>6. CASE UNCHANGED vars
  BY <1>1, <1>6 DEF vars, history
<1> QED BY ZenonT(30), <1>2, <1>3, <1>4, <1>5, <1>6 DEF Next

\* A repeated exchange is answered as it was decided, on any number of hosts, while
\* the receiver's log holds it.
THEOREM AnsweredAlike == Spec => []OneResult
<1>1. Init => Decided
  BY DEF Init, Decided
<1>2. IInv /\ Decided /\ [Next]_vars => Decided'
  BY ZenonT(30), DecidedStep
<1>3. IInv /\ Decided => OneResult
  BY DEF IInv, Flow, Decided, OneResult
<1> QED BY <1>1, <1>2, <1>3, Inductive, PTL DEF Spec

\* The hosts, their caches and the network implement the saga: no exchange is
\* decided that nobody owes, none settled with a result nobody decided.
THEOREM ImplementsSaga == Spec => SagaSpec
<1>1. Init => Saga!Init
  BY SMTT(30) DEF Init, Saga!Init
<1>2. ASSUME IInv, [Next]_vars
      PROVE  [Saga!Next]_(Saga!vars)
  <2>1. CASE UNCHANGED <<owed, decided, outcome>>
    BY <2>1 DEF Saga!vars
  <2>2. ASSUME NEW S \in SUBSET Ops, owed' = owed \cup S, UNCHANGED <<decided, outcome>>
        PROVE  Saga!Next
    BY Zenon, <2>2 DEF Saga!Next, Saga!Initiate, Saga!Owe
  <2>3. ASSUME NEW h \in Hosts, NEW o \in Ops, Initiate(h, o)
        PROVE  Saga!Next \/ UNCHANGED <<owed, decided, outcome>>
    <3>1. UNCHANGED <<decided, outcome>> /\ (owed' = owed \cup {o} \/ UNCHANGED owed)
      BY Zenon, <2>3 DEF Initiate
    <3>2. {o} \in SUBSET Ops
      OBVIOUS
    <3>3. CASE owed' = owed \cup {o}
      BY Zenon, <2>2, <3>1, <3>2, <3>3
    <3> QED BY <3>1, <3>3
  <2>4. ASSUME NEW h \in Hosts, Settle(h)
        PROVE  Saga!Next \/ UNCHANGED <<owed, decided, outcome>>
    <3> DEFINE o == call[h]
               r == answer[h]
               S == NewlyOwed(EntityOf[h], SettledRecord(Record(h), o, r))
    <3>1. /\ r \in Results /\ UNCHANGED decided
          /\ \/ owed' = owed \cup S /\ outcome' = [outcome EXCEPT ![o] = @ \cup {r}]
             \/ UNCHANGED <<owed, outcome>>
      BY ZenonT(30), <2>4 DEF Settle
    <3>2. o \in Ops /\ r \in decided[o]
      BY SMTT(30), <1>2, <3>1 DEF IInv, FlowType, Flow, Results, NoAnswer
    <3>3. S \in SUBSET Ops
      BY ZenonT(30) DEF NewlyOwed, Pending
    <3> HIDE DEF S
    <3>4. CASE owed' = owed \cup S /\ outcome' = [outcome EXCEPT ![o] = @ \cup {r}]
      <4>1. Saga!Settle(o, r)
        BY Zenon, <3>1, <3>2, <3>3, <3>4 DEF Saga!Settle, Saga!Owe
      <4> QED BY ZenonT(30), <3>1, <3>2, <4>1 DEF Saga!Next
    <3> QED BY SMTT(30), <3>1, <3>4
  <2>5. ASSUME NEW h \in Hosts, NEW o \in Ops, NEW r \in Verdicts[o], Apply(h, o, r)
        PROVE  Saga!Next \/ UNCHANGED <<owed, decided, outcome>>
    <3> DEFINE S == NewlyOwed(EntityOf[h], AppliedRecord(Record(h), o, r))
    <3>1. /\ o \in net /\ UNCHANGED outcome
          /\ \/ owed' = owed \cup S /\ decided' = [decided EXCEPT ![o] = @ \cup {r}]
             \/ UNCHANGED <<owed, decided>>
      BY ZenonT(30), <2>5 DEF Apply, Takes
    <3>2. o \in owed /\ r \in Results
      BY ZenonT(30), ChoreographyAssumption, <1>2, <3>1 DEF IInv, Flow, Results
    <3>3. S \in SUBSET Ops
      BY ZenonT(30) DEF NewlyOwed, Pending
    <3> HIDE DEF S
    <3>4. CASE owed' = owed \cup S /\ decided' = [decided EXCEPT ![o] = @ \cup {r}]
      <4>1. Saga!Decide(o, r)
        BY Zenon, <3>1, <3>2, <3>3, <3>4 DEF Saga!Decide, Saga!Owe
      <4> QED BY <3>2, <4>1 DEF Saga!Next
    <3> QED BY SMTT(30), <3>1, <3>4
  <2>6. CASE UNCHANGED vars
    BY ZenonT(30), <2>1, <2>6 DEF vars, history
  <2>7. ASSUME NEW h \in Hosts, NEW o \in Ops,
               \/ Recover(h) \/ Crash(h) \/ Create(h) \/ End(h) \/ StartPass(h)
               \/ DeliveryFails(h) \/ KeepOutstanding(h)
               \/ Deliver(h, o) \/ Replay(h, o) \/ Unable(h, o)
        PROVE  UNCHANGED <<owed, decided, outcome>>
    BY ZenonT(30), <2>7 DEF Recover, Crash, Create, End, StartPass, DeliveryFails, KeepOutstanding,
                Deliver, Replay, Unable, history
  <2>8. ASSUME NEW h \in Hosts,
               \/ Recover(h) \/ Crash(h) \/ Create(h) \/ End(h) \/ StartPass(h)
               \/ DeliveryFails(h) \/ KeepOutstanding(h)
        PROVE  UNCHANGED <<owed, decided, outcome>>
    BY ZenonT(30), <2>8 DEF Recover, Crash, Create, End, StartPass, DeliveryFails, KeepOutstanding,
                history
  <2>9. ASSUME NEW o \in Ops, Lose(o) \/ Repeat(o)
        PROVE  UNCHANGED <<owed, decided, outcome>>
    BY <2>9 DEF Lose, Repeat, history
  <2> QED BY ZenonT(30), <1>2, <2>1, <2>3, <2>4, <2>5, <2>6, <2>7, <2>8, <2>9 DEF Next, Saga!vars
<1> QED BY <1>1, <1>2, Inductive, PTL DEF Spec, SagaSpec, Saga!Spec
==============================================================================
