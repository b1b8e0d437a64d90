------------------------ MODULE EffectDispatchProofs ------------------------
(***************************************************************************)
(* Proofs about EffectDispatch for any number of workers, attempts, faults *)
(* and overrun leases, in two parts.                                       *)
(*                                                                         *)
(* An effect that must not be repeated takes effect at its target at most  *)
(* once, and once more at most for every lease overrun and, if it may be   *)
(* retried, for every exhausted row taken up again with an attempt left.   *)
(* The bound is not inductive: it says nothing of the invocations that are *)
(* still to come.  The argument counts them with those made.  A pass is    *)
(* armed when it will invoke the target, or let the next claim do so,      *)
(* without asking again whether the effect was executed; a row grants an   *)
(* attempt to a claim that reads it.  Executions, armed passes and the     *)
(* grant together never exceed the bound.  The armed passes that lost      *)
(* their claim are counted by numbering them (Room).  An effect that is    *)
(* invoked once only is never taken up with an attempt left (SpentInv).    *)
(*                                                                         *)
(* The word the run holds is true of what the target did, and the target   *)
(* of an effect whose word the run holds is not invoked.  Here the         *)
(* argument is about a run whose workers keep to their leases: the steps   *)
(* that a pass has left say what holds of the effect (Form).  A pass that  *)
(* may still invoke is alone with the effect (Alone), and one that may not *)
(* delivers only words that are true (Settling).                           *)
(***************************************************************************)
EXTENDS EffectDispatch, TLAPS

Statuses == {"None", "Pending", "Dispatching", "Failed", "Dispatched", "Cancelled", "Exhausted"}

Rows == [status : Statuses, attempts : Nat]

Steps ==
    [op : {"read", "decide", "authorize", "start", "credential", "invoke", "reconcile", "fail",
           "row", "fleet", "deliver"},
     arg : Statuses \cup {"none", "live", "winding", "burn", "attempt", "definitive", "unknown",
                          "Scheduled", "Completed", "RetryScheduled", "Succeeded", "Indeterminate",
                          "Refused", "covered", "spent"},
     attempt : Nat]

\* The steps of an attempt, which the grant covers or not, and those that are left
\* after the first ones.
FromAuthorize(cover, attempt) ==
    <<DoAttempt("authorize", cover, attempt), Do("start", "none"),
      DoAttempt("credential", "none", attempt), Do("invoke", "none")>>

FromStart(attempt) ==
    <<Do("start", "none"), DoAttempt("credential", "none", attempt), Do("invoke", "none")>>

FromCredential(attempt) == <<DoAttempt("credential", "none", attempt), Do("invoke", "none")>>

FromInvoke == <<Do("invoke", "none")>>

\* No further claim is admitted: the run has its word, or a wound-down run is fenced.
Closed == effect # "Ready" \/ (winding /\ ~exempt)

\* The row statuses that let a claim invoke.
Admits == {"None", "Pending", "Cancelled"}

Open == row.status \in Admits /\ ~Closed

------------------------------------------------------------------------------
(* What a pass may still do, from the steps it has left. *)

\* It invokes nothing, and changes the row only when no claim is admitted any more.
Harmless(todo, closed) ==
    \A i \in 1..Len(todo) :
        /\ todo[i].op \in {"fleet", "deliver", "row"}
        /\ todo[i].op = "row" =>
              /\ todo[i].arg \in {"Cancelled", "Dispatched"}
              /\ closed \/ \E j \in 1..(i - 1) : todo[j].op = "deliver"

\* The forms a claim's pass takes.
Shape(todo, closed) ==
    \/ Len(todo) = 1 /\ todo[1].op \in {"read", "decide", "reconcile", "fail", "invoke"}
    \/ \E attempt \in Nat :
          todo \in {FromAuthorize("covered", attempt), FromAuthorize("spent", attempt),
                    FromStart(attempt), FromCredential(attempt)}
    \/ Harmless(todo, closed)
    \/ todo # <<>> /\ Head(todo) = Do("row", "Cancelled") /\ Harmless(Tail(todo), closed)

\* The forms the fence's pass takes.
Fencing(todo, fenced) ==
    todo # <<>> =>
        /\ fenced
        /\ \A i \in 1..Len(todo) :
             \/ todo[i].op = "deliver"
             \/ todo[i].op = "row" /\ todo[i].arg \in {"Scheduled", "Cancelled"}

Op(todo) == IF todo = <<>> THEN "none" ELSE Head(todo).op

Arg(todo) == IF todo = <<>> THEN "none" ELSE Head(todo).arg

\* It reads or asks before it may invoke.
Asking(todo) == Op(todo) \in {"read", "decide", "reconcile"}

\* It goes on to mark the row and invoke, or to open the row to another claim.
Admitted(todo, closed) ==
    \/ Op(todo) = "start"
    \/ Op(todo) = "authorize" /\ Arg(todo) = "covered"
    \/ Op(todo) = "fail" /\ Arg(todo) = "burn"
    \/ Op(todo) = "decide" /\ Arg(todo) \in Admits /\ ~closed
    \/ Op(todo) = "row" /\ ~closed

\* It has marked the row.
Started(todo) == Op(todo) \in {"credential", "invoke"}

\* What a pass that lost its claim may add to the executions.
StaleWeight(todo, closed, executed) ==
    IF \/ Admitted(todo, closed) \/ Started(todo) \/ Op(todo) = "read"
       \/ executed = 0 /\ Asking(todo)
    THEN 1 ELSE 0

\* What the pass under the live claim, if there is one, and the claims after it may add.
ClaimWeight(todo, closed, open, executed) ==
    IF Admitted(todo, closed) THEN 1
    ELSE IF Started(todo) THEN IF open THEN 2 ELSE 1
    ELSE IF open \/ executed = 0 THEN 1 ELSE 0

------------------------------------------------------------------------------
(* The inductive invariant. *)

IsLive == entry.status = "Claimed" /\ entry.live /\ worker[entry.holder].holds

\* The steps left under the live claim.
Turn == IF IsLive THEN worker[entry.holder].todo ELSE <<>>

StalePasses ==
    {w \in Workers : /\ worker[w].holds /\ ~IsCurrentClaim(w)
                     /\ StaleWeight(worker[w].todo, Closed, target.executed) = 1}

\* The set has at most k elements: they can be numbered within 1..k.
Room(S, k) == \E f \in [S -> 1..k] : \A u, v \in S : f[u] = f[v] => u = v

CountInv ==
    \E k \in Nat :
        /\ Room(StalePasses, k)
        /\ target.executed + k + ClaimWeight(Turn, Closed, Open, target.executed)
             <= 1 + overrun + respent

TypeInv ==
    /\ row \in Rows
    /\ winding \in BOOLEAN /\ exempt \in BOOLEAN
    /\ worker \in [Workers -> [todo : Seq(Steps), holds : BOOLEAN]]
    /\ target.executed \in Nat /\ overrun \in Nat /\ respent \in Nat
    /\ entry = [status |-> entry.status, holder |-> entry.holder, live |-> entry.live]
    /\ entry.status = "Claimed" => entry.holder \in Workers

RowInv ==
    /\ row.status = "None" => entry.status = "None"
    /\ row.status = "Dispatched" => Closed
    /\ row.status = "Failed" => class = "Reconcileable"

PassInv(w) ==
    LET todo == worker[w].todo
    IN  /\ todo = <<>> => ~worker[w].holds
        /\ ~worker[w].holds => Fencing(todo, winding /\ ~exempt)
        /\ worker[w].holds =>
             /\ row.status # "None"
             /\ Shape(todo, Closed)
             /\ Op(todo) = "decide" => /\ Arg(todo) \in Statuses
                                       /\ Arg(todo) = "Dispatched" => Closed
                                       /\ Arg(todo) = "Failed" => class = "Reconcileable"

Inv == TypeInv /\ RowInv /\ CountInv /\ \A w \in Workers : PassInv(w)

IInv == Guarded => Inv
------------------------------------------------------------------------------
(* Sets that differ in one element, and the steps a pass has left. *)

LEMMA Fewer ==
    ASSUME NEW S, NEW T, NEW k \in Nat, Room(S, k), T \subseteq S
    PROVE  Room(T, k)
<1>1. PICK f \in [S -> 1..k] : \A u, v \in S : f[u] = f[v] => u = v
  BY DEF Room
<1> DEFINE g == [u \in T |-> f[u]]
<1>2. g \in [T -> 1..k] /\ \A u, v \in T : g[u] = g[v] => u = v
  BY <1>1
<1> QED
  BY Zenon, <1>2 DEF Room

LEMMA OneElement ==
    ASSUME NEW S, NEW T, NEW w, NEW k \in Nat, Room(S, k), T \subseteq S \cup {w}
    PROVE  \E m \in Nat :
              /\ Room(T, m) /\ m <= k + 1
              /\ w \in S \/ w \notin T => m <= k
              /\ w \in S /\ w \notin T => m + 1 <= k
<1>1. PICK f \in [S -> 1..k] : \A u, v \in S : f[u] = f[v] => u = v
  BY DEF Room
<1>2. CASE w \notin S
  <2> DEFINE g == [u \in T |-> IF u \in S THEN f[u] ELSE k + 1]
  <2>1. CASE w \in T
    <3>1. \A u \in T : u \notin S => u = w
      OBVIOUS
    <3>2. g \in [T -> 1..(k + 1)] /\ \A u, v \in T : g[u] = g[v] => u = v
      BY <1>1, <3>1
    <3>3. Room(T, k + 1)
      BY Zenon, <3>2 DEF Room
    <3> QED
      BY <1>2, <2>1, <3>3
  <2>2. CASE w \notin T
    <3>1. Room(T, k)
      BY <2>2, Fewer
    <3> QED
      BY <1>2, <2>2, <3>1
  <2> QED
    BY <2>1, <2>2
<1>3. CASE w \in S /\ w \in T
  <2>1. Room(T, k)
    BY <1>3, Fewer
  <2> QED
    BY <1>3, <2>1
<1>4. CASE w \in S /\ w \notin T
  <2> DEFINE g == [u \in T |-> IF f[u] = k THEN f[w] ELSE f[u]]
  <2>1. f[w] \in 1..k /\ \A u \in T : u \in S /\ f[u] \in 1..k /\ f[u] # f[w]
    BY <1>1, <1>4
  <2>2. k - 1 \in Nat
    BY <2>1
  <2>3. g \in [T -> 1..(k - 1)] /\ \A u, v \in T : g[u] = g[v] => u = v
    BY <1>1, <2>1
  <2>4. Room(T, k - 1)
    BY Zenon, <2>3 DEF Room
  <2> QED
    BY <1>4, <2>2, <2>4
<1> QED
  BY <1>2, <1>3, <1>4

\* What each step of an admitted attempt leaves.
LEMMA AttemptTails ==
    ASSUME NEW cover, NEW attempt \in Nat
    PROVE  /\ Tail(FromAuthorize(cover, attempt)) = FromStart(attempt)
           /\ Tail(FromStart(attempt)) = FromCredential(attempt)
           /\ Tail(FromCredential(attempt)) = FromInvoke
BY DEF FromAuthorize, FromStart, FromCredential, FromInvoke

LEMMA AttemptSteps ==
    ASSUME NEW cover \in {"covered", "spent"}, NEW attempt \in Nat
    PROVE  /\ FromAuthorize(cover, attempt) \in Seq(Steps)
           /\ Op(FromAuthorize(cover, attempt)) = "authorize" /\ Arg(FromAuthorize(cover, attempt)) = cover
           /\ FromStart(attempt) \in Seq(Steps) /\ Op(FromStart(attempt)) = "start"
           /\ FromCredential(attempt) \in Seq(Steps) /\ Op(FromCredential(attempt)) = "credential"
           /\ FromInvoke \in Seq(Steps) /\ Op(FromInvoke) = "invoke"
BY DEF FromAuthorize, FromStart, FromCredential, FromInvoke, Steps, Do, DoAttempt, Op, Arg

\* An attempt starts with its authorization.
LEMMA AttemptForm ==
    ASSUME NEW attempt
    PROVE  /\ Cover(attempt) \in {"covered", "spent"}
           /\ AttemptInvocation(attempt) = FromAuthorize(Cover(attempt), attempt)
           /\ AttemptInvocation(attempt)
                \in {FromAuthorize("covered", attempt), FromAuthorize("spent", attempt)}
<1>1. Cover(attempt) \in {"covered", "spent"}
  BY Zenon DEF Cover
<1>2. AttemptInvocation(attempt) = FromAuthorize(Cover(attempt), attempt)
  BY Zenon DEF AttemptInvocation, FromAuthorize
<1> QED
  BY Zenon, <1>1, <1>2

LEMMA AttemptInvocationSteps ==
    ASSUME NEW attempt \in Nat
    PROVE  /\ AttemptInvocation(attempt) \in Seq(Steps) /\ Op(AttemptInvocation(attempt)) = "authorize"
           /\ Arg(AttemptInvocation(attempt)) = Cover(attempt)
BY Zenon, AttemptForm, AttemptSteps

\* The lists of steps that settle an effect: each tells the run before it changes the
\* row, or leaves the row alone, but for the one that withdraws the row first.
LEMMA Settlements ==
    ASSUME NEW closed,
           NEW todo \in {ParkIndeterminate, RefuseDispatch, Conclude("Succeeded"), Conclude("Failed"),
                         Exhaust, <<Do("fleet", "RetryScheduled")>>, ParkExhausted}
    PROVE  todo \in Seq(Steps) /\ Harmless(todo, closed) /\ Op(todo) \in {"fleet", "deliver"}
<1>1. CASE todo = ParkIndeterminate
  BY <1>1 DEF ParkIndeterminate, Harmless, Op, Do, Steps, Statuses
<1>2. CASE todo = RefuseDispatch
  BY <1>2 DEF RefuseDispatch, Harmless, Op, Do, Steps, Statuses
<1>3. ASSUME NEW word \in {"Succeeded", "Failed"}, todo = Conclude(word)
      PROVE  todo \in Seq(Steps) /\ Harmless(todo, closed) /\ Op(todo) \in {"fleet", "deliver"}
  <2>1. todo = <<Do("deliver", word), Do("row", "Dispatched"), Do("fleet", "Completed")>>
    BY Zenon, <1>3 DEF Conclude
  <2>2. word \in Statuses \cup {"Succeeded", "Failed"}
    BY Zenon
  <2> QED
    BY <2>1, <2>2 DEF Harmless, Op, Do, Steps, Statuses
<1>4. CASE todo = Exhaust
  BY <1>4 DEF Exhaust, Harmless, Op, Do, Steps, Statuses
<1>5. CASE todo = <<Do("fleet", "RetryScheduled")>>
  BY <1>5 DEF Harmless, Op, Do, Steps, Statuses
<1>6. CASE todo = ParkExhausted
  BY <1>6 DEF ParkExhausted, Harmless, Op, Do, Steps, Statuses
<1> QED
  BY ZenonT(30), <1>1, <1>2, <1>3, <1>4, <1>5, <1>6

LEMMA Withdrawal ==
    ASSUME NEW closed, NEW todo \in {SettleAndTell, SettleTicketCancelled}
    PROVE  /\ todo \in Seq(Steps) /\ Op(todo) = "row" /\ Head(todo) = Do("row", "Cancelled")
           /\ todo # <<>> /\ Harmless(Tail(todo), closed)
           /\ closed = TRUE => Harmless(todo, closed)
<1>1. CASE todo = SettleAndTell
  BY <1>1 DEF SettleAndTell, Harmless, Op, Do, Steps, Statuses
<1>2. CASE todo = SettleTicketCancelled
  BY <1>2 DEF SettleTicketCancelled, Harmless, Op, Do, Steps, Statuses
<1> QED
  BY ZenonT(30), <1>1, <1>2

\* Pass on the first step.
LEMMA HarmlessTail ==
    ASSUME NEW todo \in Seq(Steps), todo # <<>>, NEW closed, NEW later,
           Harmless(todo, closed),
           closed => later, Op(todo) = "deliver" => later
    PROVE  Harmless(Tail(todo), later)
<1>1. /\ Tail(todo) \in Seq(Steps) /\ Len(Tail(todo)) = Len(todo) - 1 /\ Len(todo) \in Nat
      /\ \A i \in 1..Len(Tail(todo)) : Tail(todo)[i] = todo[i + 1] /\ i + 1 \in 1..Len(todo)
  OBVIOUS
<1> SUFFICES ASSUME NEW i \in 1..Len(Tail(todo))
             PROVE  /\ Tail(todo)[i].op \in {"fleet", "deliver", "row"}
                    /\ Tail(todo)[i].op = "row" =>
                         /\ Tail(todo)[i].arg \in {"Cancelled", "Dispatched"}
                         /\ later \/ \E j \in 1..(i - 1) : Tail(todo)[j].op = "deliver"
  BY ZenonT(30) DEF Harmless
<1>2. /\ todo[i + 1].op \in {"fleet", "deliver", "row"}
      /\ todo[i + 1].op = "row" =>
           /\ todo[i + 1].arg \in {"Cancelled", "Dispatched"}
           /\ closed \/ \E j \in 1..i : todo[j].op = "deliver"
  BY <1>1 DEF Harmless
<1>3. ASSUME NEW j \in 1..i, todo[j].op = "deliver", ~later
      PROVE  \E k \in 1..(i - 1) : Tail(todo)[k].op = "deliver"
  <2>1. j # 1
    BY <1>3 DEF Op
  <2>2. j - 1 \in 1..(i - 1) /\ Tail(todo)[j - 1] = todo[j]
    BY <1>1, <2>1
  <2> QED
    BY <1>3, <2>2
<1> QED
  BY <1>1, <1>2, <1>3

------------------------------------------------------------------------------
(* The count under a step. *)

LEMMA Weights ==
    ASSUME NEW todo, NEW closed \in BOOLEAN, NEW open \in BOOLEAN, NEW executed \in Nat
    PROVE  /\ StaleWeight(todo, closed, executed) \in {0, 1}
           /\ ClaimWeight(todo, closed, open, executed) \in {0, 1, 2}
BY DEF StaleWeight, ClaimWeight

\* What others do never lets a pass add more, unless they open the row.
LEMMA WeightsShrink ==
    ASSUME NEW todo, NEW closed \in BOOLEAN, NEW open \in BOOLEAN, NEW executed \in Nat,
           NEW closed2 \in BOOLEAN, NEW open2 \in BOOLEAN, NEW executed2 \in Nat,
           closed => closed2, executed <= executed2
    PROVE  /\ StaleWeight(todo, closed2, executed2) <= StaleWeight(todo, closed, executed)
           /\ ClaimWeight(todo, closed2, open2, executed2)
                <= ClaimWeight(todo, closed, open, executed) + (IF open2 /\ ~open THEN 1 ELSE 0)
<1>1. Admitted(todo, closed2) => Admitted(todo, closed)
  BY DEF Admitted
<1>2. Admitted(todo, closed) => Started(todo) = FALSE
  BY DEF Admitted, Started
<1> QED
  BY <1>1, <1>2 DEF StaleWeight, ClaimWeight

\* The pass under the live claim is that of the entry's holder.
LEMMA TurnIsHolders ==
    ASSUME TypeInv, NEW w \in Workers
    PROVE  /\ IsCurrentClaim(w) => IsLive /\ entry.holder = w /\ Turn = worker[w].todo
           /\ IsLive => entry.holder \in Workers /\ IsCurrentClaim(entry.holder)
BY DEF TypeInv, IsCurrentClaim, IsLive, Turn

\* A step of worker w, which leaves the fleet entry alone.
LEMMA StepCounts ==
    ASSUME TypeInv, CountInv, NEW w \in Workers, worker[w].holds,
           NEW p \in [todo : Seq(Steps), holds : BOOLEAN], ~p.holds => p.todo = <<>>,
           worker' = [worker EXCEPT ![w] = p], entry' = entry, overrun' = overrun,
           respent' \in Nat, target'.executed \in Nat, target.executed <= target'.executed,
           Closed => Closed',
           ~IsCurrentClaim(w) =>
              target'.executed + StaleWeight(p.todo, Closed', target'.executed)
                + (IF Open' /\ ~Open THEN 1 ELSE 0) + respent
              <= target.executed + StaleWeight(worker[w].todo, Closed, target.executed) + respent',
           IsCurrentClaim(w) =>
              target'.executed + ClaimWeight(p.todo, Closed', Open', target'.executed) + respent
              <= target.executed + ClaimWeight(worker[w].todo, Closed, Open, target.executed) + respent'
    PROVE  CountInv'
<1> DEFINE S == StalePasses
           T == StalePasses'
           x == StaleWeight(worker[w].todo, Closed, target.executed)
           y == StaleWeight(p.todo, Closed', target'.executed)
           c == ClaimWeight(Turn, Closed, Open, target.executed)
           d == ClaimWeight(Turn', Closed', Open', target'.executed)
<1>1. /\ Closed \in BOOLEAN /\ Closed' \in BOOLEAN /\ Open \in BOOLEAN /\ Open' \in BOOLEAN
      /\ target.executed \in Nat /\ overrun \in Nat /\ respent \in Nat
      /\ worker \in [Workers -> [todo : Seq(Steps), holds : BOOLEAN]]
  BY DEF TypeInv, Closed, Open
<1>2. x \in {0, 1} /\ y \in {0, 1} /\ c \in {0, 1, 2} /\ d \in {0, 1, 2}
  BY ZenonT(30), <1>1, Weights
<1>3. /\ worker'[w] = p
      /\ \A v \in Workers : v # w => worker'[v] = worker[v] /\ (IsCurrentClaim(v)' <=> IsCurrentClaim(v))
      /\ IsCurrentClaim(w)' <=> IsCurrentClaim(w) /\ p.holds
  BY <1>1 DEF IsCurrentClaim
<1>4. T \subseteq S \cup {w}
  <2> SUFFICES ASSUME NEW v \in Workers, v # w, v \in T PROVE v \in S
    BY DEF StalePasses
  <2>1. StaleWeight(worker[v].todo, Closed', target'.executed)
          <= StaleWeight(worker[v].todo, Closed, target.executed)
    BY ZenonT(30), <1>1, WeightsShrink
  <2>2. StaleWeight(worker[v].todo, Closed, target.executed) \in {0, 1}
    BY ZenonT(30), <1>1, Weights
  <2> QED
    BY <1>3, <2>1, <2>2 DEF StalePasses
<1>5. PICK k \in Nat : Room(S, k) /\ target.executed + k + c <= 1 + overrun + respent
  BY Zenon DEF CountInv
<1>6. /\ w \in S <=> ~IsCurrentClaim(w) /\ x = 1
      /\ w \in T => ~IsCurrentClaim(w) /\ y = 1
  BY <1>3 DEF StalePasses
<1>7. \E m \in Nat :
        /\ Room(T, m) /\ m <= k + 1
        /\ w \in S \/ w \notin T => m <= k
        /\ w \in S /\ w \notin T => m + 1 <= k
  BY ZenonT(30), <1>4, <1>5, OneElement
<1>8. PICK m \in Nat :
        /\ Room(T, m) /\ m <= k + 1
        /\ w \in S \/ w \notin T => m <= k
        /\ w \in S /\ w \notin T => m + 1 <= k
  BY Zenon, <1>7
<1>9. CASE IsCurrentClaim(w)
  <2>1. Turn = worker[w].todo /\ Turn' = p.todo
    <3>1. entry.status = "Claimed" /\ entry.live /\ entry.holder = w
      BY <1>9 DEF IsCurrentClaim
    <3> QED
      BY <1>3, <3>1 DEF Turn, IsLive
  <2>2. target'.executed + d + respent <= target.executed + c + respent'
    BY <1>9, <2>1
  <2>3. m <= k
    <3> HIDE DEF S, T, x, y
    <3> QED
      BY Zenon, <1>6, <1>8, <1>9
  <2>4. target'.executed + m + d <= 1 + overrun + respent'
    <3> DEFINE e == target.executed
               f == target'.executed
               r == respent
               q == respent'
    <3>1. /\ e \in Nat /\ f \in Nat /\ k \in Nat /\ m \in Nat /\ c \in Nat /\ d \in Nat
          /\ r \in Nat /\ q \in Nat
      BY <1>1, <1>2
    <3>2. e + k + c <= 1 + overrun + r /\ f + d + r <= e + c + q /\ m <= k
      BY <1>5, <2>2, <2>3
    <3>3. overrun \in Nat
      BY <1>1
    <3> HIDE DEF S, T, c, d, e, f, r, q
    <3>4. f + m + d <= 1 + overrun + q
      BY <3>1, <3>2, <3>3
    <3> QED
      BY <3>4 DEF f, q
  <2>5. Room(StalePasses', m) /\ target'.executed + m + d <= 1 + overrun' + respent'
    BY Zenon, <1>8, <2>4
  <2> QED
    BY Zenon, <2>5 DEF CountInv
<1>10. CASE ~IsCurrentClaim(w)
  <2>1. Turn' = Turn
    <3>1. IsLive => entry.holder # w
      BY <1>10 DEF IsLive, IsCurrentClaim
    <3>2. CASE ~(entry.status = "Claimed" /\ entry.live)
      BY <3>2 DEF Turn, IsLive
    <3>3. CASE entry.status = "Claimed" /\ entry.live /\ entry.holder # w
      <4>1. entry.holder \in Workers
        BY Zenon, <3>3 DEF TypeInv
      <4> QED
        BY <1>3, <3>3, <4>1 DEF Turn, IsLive
    <3>4. CASE entry.status = "Claimed" /\ entry.live /\ entry.holder = w
      BY <1>10, <3>4 DEF IsCurrentClaim
    <3> QED
      BY ZenonT(30), <3>2, <3>3, <3>4
  <2>2. d <= c + (IF Open' /\ ~Open THEN 1 ELSE 0)
    BY <1>1, <2>1, WeightsShrink
  <2>3. target'.executed + y + (IF Open' /\ ~Open THEN 1 ELSE 0) + respent
          <= target.executed + x + respent'
    BY <1>10
  <2>4. m + x <= k + y
    <3> HIDE DEF S, T, x, y
    <3>1. CASE w \in S /\ w \notin T
      BY <1>2, <1>6, <1>8, <3>1
    <3>2. CASE w \in S /\ w \in T
      BY <1>2, <1>6, <1>8, <3>2
    <3>3. CASE w \notin S
      BY <1>2, <1>6, <1>8, <1>10, <3>3
    <3> QED
      BY Zenon, <3>1, <3>2, <3>3
  <2>5. target'.executed + m + d <= 1 + overrun + respent'
    <3> DEFINE o == IF Open' /\ ~Open THEN 1 ELSE 0
               e == target.executed
               f == target'.executed
               r == respent
               q == respent'
    <3>1. /\ e \in Nat /\ f \in Nat /\ k \in Nat /\ m \in Nat /\ c \in Nat /\ d \in Nat
          /\ r \in Nat /\ q \in Nat /\ x \in Nat /\ y \in Nat /\ o \in Nat
      BY SMTT(30), <1>1, <1>2
    <3>2. /\ e + k + c <= 1 + overrun + r /\ d <= c + o /\ f + y + o + r <= e + x + q
          /\ m + x <= k + y
      BY ZenonT(30), <1>5, <2>2, <2>3, <2>4
    <3>3. overrun \in Nat
      BY <1>1
    <3> HIDE DEF S, T, c, d, x, y, o, e, f, r, q
    <3>4. f + m + d <= 1 + overrun + q
      BY <3>1, <3>2, <3>3
    <3> QED
      BY <3>4 DEF f, q
  <2>6. Room(StalePasses', m) /\ target'.executed + m + d <= 1 + overrun' + respent'
    BY Zenon, <1>8, <2>5
  <2> QED
    BY Zenon, <2>6 DEF CountInv
<1> QED
  BY <1>9, <1>10

------------------------------------------------------------------------------
(* The invariant under a step. *)

LEMMA ShapeStays ==
    ASSUME NEW todo, NEW closed \in BOOLEAN, NEW closed2 \in BOOLEAN, closed => closed2,
           Shape(todo, closed)
    PROVE  Shape(todo, closed2)
<1>1. \A s : Harmless(s, closed) => Harmless(s, closed2)
  BY Zenon DEF Harmless
<1> QED
  BY <1>1 DEF Shape

\* A pass keeps its invariant while others step.
LEMMA OthersKeep ==
    ASSUME NEW v \in Workers, PassInv(v), worker'[v] = worker[v],
           class' = class, exempt' = exempt, winding => winding', Closed => Closed',
           row.status # "None" => row'.status # "None"
    PROVE  PassInv(v)'
<1>1. Closed \in BOOLEAN /\ Closed' \in BOOLEAN
  BY DEF Closed
<1>2. Shape(worker[v].todo, Closed) => Shape(worker[v].todo, Closed')
  BY Zenon, <1>1, ShapeStays
<1>3. Fencing(worker[v].todo, winding /\ ~exempt) => Fencing(worker[v].todo, winding' /\ ~exempt')
  BY DEF Fencing
<1> QED
  BY <1>2, <1>3 DEF PassInv

(* What one step of a claim's pass must establish. *)

\* It leaves the class, the wind-down and the entry alone, and takes nothing back.
Forward ==
    /\ class' = class /\ exempt' = exempt /\ winding' = winding
    /\ entry' = entry /\ overrun' = overrun
    /\ respent' \in Nat /\ target'.executed \in Nat /\ target.executed <= target'.executed
    /\ effect # "Ready" => effect' # "Ready"

RowFits ==
    /\ row' \in Rows /\ row'.status # "None"
    /\ row'.status = "Dispatched" => Closed'
    /\ row'.status = "Failed" => class = "Reconcileable"

TodoFits(todo) ==
    /\ todo # <<>> => Shape(todo, Closed')
    /\ Op(todo) = "decide" => /\ Arg(todo) \in Statuses
                              /\ Arg(todo) = "Dispatched" => Closed'
                              /\ Arg(todo) = "Failed" => class = "Reconcileable"

\* Whatever it executes, arms or grants was counted before, or is a row taken up again.
Pays(w, todo) ==
    /\ ~IsCurrentClaim(w) =>
          target'.executed + StaleWeight(todo, Closed', target'.executed)
            + (IF Open' /\ ~Open THEN 1 ELSE 0) + respent
          <= target.executed + StaleWeight(worker[w].todo, Closed, target.executed) + respent'
    /\ IsCurrentClaim(w) =>
          target'.executed + ClaimWeight(todo, Closed', Open', target'.executed) + respent
          <= target.executed + ClaimWeight(worker[w].todo, Closed, Open, target.executed) + respent'

LEMMA StepKeeps ==
    ASSUME Inv, Guarded, NEW w \in Workers, worker[w].holds, NEW todo \in Seq(Steps), Then(w, todo),
           Forward, RowFits, TodoFits(todo), Pays(w, todo)
    PROVE  Inv'
<1> /\ class' = class /\ exempt' = exempt /\ winding' = winding /\ entry' = entry
    /\ overrun' = overrun /\ respent' \in Nat /\ target'.executed \in Nat
    /\ target.executed <= target'.executed
    /\ effect # "Ready" => effect' # "Ready"
  BY DEF Forward
<1>1. /\ worker \in [Workers -> [todo : Seq(Steps), holds : BOOLEAN]] /\ TypeInv /\ RowInv /\ CountInv
      /\ \A v \in Workers : PassInv(v)
  BY Zenon DEF Inv, TypeInv
<1> DEFINE p == With(worker[w], todo)
<1>2. worker' = [worker EXCEPT ![w] = p]
  BY DEF Then
<1>3. /\ p \in [todo : Seq(Steps), holds : BOOLEAN] /\ p.todo = todo
      /\ p.holds <=> todo # <<>>
  <2>1. CASE todo = <<>>
    BY <2>1 DEF With, Idle
  <2>2. CASE todo # <<>>
    <3>1. p = [worker[w] EXCEPT !.todo = todo]
      BY <2>2 DEF With
    <3>2. worker[w] \in [todo : Seq(Steps), holds : BOOLEAN]
      BY <1>1
    <3> QED
      BY Zenon, <2>2, <3>1, <3>2
  <2> QED
    BY <2>1, <2>2
<1>4. Closed => Closed'
  BY DEF Closed
<1>5. CountInv'
  <2> HIDE DEF p
  <2>1. ~p.holds => p.todo = <<>>
    BY <1>3
  <2> QED
    BY ZenonT(30), <1>1, <1>2, <1>3, <1>4, <2>1, StepCounts DEF Pays
<1>6. TypeInv'
  <2>1. worker' \in [Workers -> [todo : Seq(Steps), holds : BOOLEAN]]
    BY <1>1, <1>2, <1>3
  <2> QED
    BY <1>1, <2>1 DEF TypeInv, RowFits
<1>7. RowInv'
  BY DEF RowInv, RowFits
<1>8. \A v \in Workers : PassInv(v)'
  <2> SUFFICES ASSUME NEW v \in Workers PROVE PassInv(v)'
    OBVIOUS
  <2>1. CASE v # w
    <3>1. worker'[v] = worker[v]
      BY ZenonT(30), <1>1, <1>2, <2>1
    <3> QED
      BY ZenonT(30), <1>1, <1>4, <3>1, OthersKeep DEF RowFits
  <2>2. CASE v = w
    <3>1. worker'[v] = p
      BY Zenon, <1>1, <1>2, <2>2
    <3> HIDE DEF p
    <3> QED
      BY <1>3, <3>1 DEF PassInv, Fencing, RowFits, TodoFits
  <2> QED
    BY <2>1, <2>2
<1> QED
  BY <1>5, <1>6, <1>7, <1>8 DEF Inv

------------------------------------------------------------------------------
(* The steps of a claim's pass. *)

LEMMA NowFacts ==
    ASSUME Inv, NEW w \in Workers, NEW op, Doing(w, op)
    PROVE  LET todo == worker[w].todo
           IN  /\ todo \in Seq(Steps) /\ todo # <<>> /\ Tail(todo) \in Seq(Steps)
               /\ Head(todo) \in Steps /\ Head(todo) = todo[1] /\ Len(todo) \in Nat \ {0}
               /\ Op(todo) = op /\ Arg(todo) = Now(w).arg /\ Now(w) = Head(todo)
               /\ op \notin {"row", "deliver"} => worker[w].holds
               /\ worker[w].holds => Shape(todo, Closed) /\ row.status # "None"
<1>1. /\ worker \in [Workers -> [todo : Seq(Steps), holds : BOOLEAN]] /\ PassInv(w)
  BY DEF Inv, TypeInv
<1> DEFINE todo == worker[w].todo
<1>2. todo \in Seq(Steps) /\ todo # <<>>
  BY <1>1 DEF Doing, IsIdle
<1>3. /\ Tail(todo) \in Seq(Steps) /\ Head(todo) \in Steps /\ Head(todo) = todo[1]
      /\ Len(todo) \in Nat \ {0}
  BY <1>2
<1>4. Op(todo) = op /\ Arg(todo) = Now(w).arg /\ Now(w) = Head(todo)
  BY Zenon, <1>2 DEF Doing, Op, Arg, Now
<1>5. op \notin {"row", "deliver"} => worker[w].holds
  BY <1>1, <1>2, <1>3, <1>4 DEF PassInv, Fencing, Op
<1> QED
  BY <1>1, <1>2, <1>3, <1>4, <1>5 DEF PassInv

\* The weights of a pass that only settles, and the least weight of a claim.
LEMMA LightWeights ==
    ASSUME NEW todo, NEW closed \in BOOLEAN, NEW open \in BOOLEAN, NEW executed \in Nat,
           \/ Op(todo) \in {"none", "fleet", "deliver"}
           \/ Op(todo) = "row" /\ closed = TRUE
           \/ Op(todo) = "fail" /\ Arg(todo) # "burn"
           \/ Op(todo) = "authorize" /\ Arg(todo) = "spent"
    PROVE  /\ StaleWeight(todo, closed, executed) = 0
           /\ ClaimWeight(todo, closed, open, executed) = IF open \/ executed = 0 THEN 1 ELSE 0
BY DEF StaleWeight, ClaimWeight, Admitted, Started, Asking

LEMMA HarmlessIsLight ==
    ASSUME NEW todo \in Seq(Steps), NEW closed \in BOOLEAN, Harmless(todo, closed)
    PROVE  Op(todo) \in {"none", "fleet", "deliver"} \/ (Op(todo) = "row" /\ closed = TRUE)
<1>1. CASE todo = <<>>
  BY <1>1 DEF Op
<1>2. CASE todo # <<>>
  <2>1. Head(todo) = todo[1] /\ 1 \in 1..Len(todo)
    BY <1>2
  <2> QED
    BY <1>2, <2>1 DEF Harmless, Op
<1> QED
  BY ZenonT(30), <1>1, <1>2

LEMMA LeastClaim ==
    ASSUME NEW todo, NEW closed \in BOOLEAN, NEW open \in BOOLEAN, NEW executed \in Nat
    PROVE  (IF open \/ executed = 0 THEN 1 ELSE 0) <= ClaimWeight(todo, closed, open, executed)
BY DEF ClaimWeight

\* The state of a step that leaves the run, the row and the counters alone.
LEMMA Typed ==
    ASSUME Inv
    PROVE  /\ Closed \in BOOLEAN /\ Open \in BOOLEAN /\ target.executed \in Nat /\ respent \in Nat
           /\ row \in Rows /\ overrun \in Nat
           /\ row.status = "Dispatched" => Closed
           /\ row.status = "Failed" => class = "Reconcileable"
BY DEF Inv, TypeInv, RowInv, Closed, Open

LEMMA SameSpent ==
    ASSUME Inv, respent' = respent
    PROVE  respent' \in Nat /\ respent <= respent'
BY DEF Inv, TypeInv

LEMMA PlainStep ==
    ASSUME Inv, Guarded, NEW w \in Workers, worker[w].holds, NEW todo \in Seq(Steps), Then(w, todo),
           row.status # "None",
           UNCHANGED <<run, effect, row, entry, target, overrun>>, respent' \in Nat, respent <= respent',
           todo # <<>> => Shape(todo, Closed),
           Op(todo) = "decide" => Arg(todo) = row.status,
           StaleWeight(todo, Closed, target.executed)
              <= StaleWeight(worker[w].todo, Closed, target.executed),
           ClaimWeight(todo, Closed, Open, target.executed)
              <= ClaimWeight(worker[w].todo, Closed, Open, target.executed)
    PROVE  Inv'
<1>1. /\ class' = class /\ exempt' = exempt /\ winding' = winding /\ entry' = entry
      /\ overrun' = overrun /\ target' = target /\ effect' = effect
      /\ row' = row
  BY Zenon DEF run
<1>2. Closed' = Closed /\ Open' = Open
  BY Zenon, <1>1 DEF Closed, Open
<1>3. /\ StaleWeight(todo, Closed, target.executed) \in Nat
      /\ StaleWeight(worker[w].todo, Closed, target.executed) \in Nat
      /\ ClaimWeight(todo, Closed, Open, target.executed) \in Nat
      /\ ClaimWeight(worker[w].todo, Closed, Open, target.executed) \in Nat
  BY Typed, Weights
<1> DEFINE e == target.executed
           x == StaleWeight(worker[w].todo, Closed, e)
           y == StaleWeight(todo, Closed, e)
           c == ClaimWeight(worker[w].todo, Closed, Open, e)
           d == ClaimWeight(todo, Closed, Open, e)
           q == respent'
<1>4. e + y + 0 + respent <= e + x + q /\ e + d + respent <= e + c + q
  <2>1. /\ x \in Nat /\ y \in Nat /\ c \in Nat /\ d \in Nat /\ y <= x /\ d <= c
        /\ e \in Nat /\ respent \in Nat /\ q \in Nat /\ respent <= q
    BY Zenon, <1>3, Typed
  <2> HIDE DEF e, x, y, c, d, q
  <2> QED
    BY <2>1
<1>5. /\ target'.executed + StaleWeight(todo, Closed', target'.executed)
           + (IF Open' /\ ~Open THEN 1 ELSE 0) + respent
           <= target.executed + StaleWeight(worker[w].todo, Closed, target.executed) + respent'
      /\ target'.executed + ClaimWeight(todo, Closed', Open', target'.executed) + respent
           <= target.executed + ClaimWeight(worker[w].todo, Closed, Open, target.executed) + respent'
  <2>1. (IF Open' /\ ~Open THEN 1 ELSE 0) = 0
    BY Zenon, <1>2
  <2> QED
    BY Zenon, <1>1, <1>2, <1>4, <2>1
<1> QED
  <2>1. Forward
    BY <1>1, Typed DEF Forward
  <2>2. RowFits
    BY Zenon, <1>1, <1>2, Typed DEF RowFits
  <2>3. TodoFits(todo)
    BY <1>2, Typed DEF TodoFits, Rows
  <2>4. Pays(w, todo)
    BY ZenonT(30), <1>5 DEF Pays
  <2> QED
    BY Zenon, <2>1, <2>2, <2>3, <2>4, StepKeeps

\* The pass ends.
LEMMA AbortStep ==
    ASSUME Inv, Guarded, NEW w \in Workers, worker[w].holds, Then(w, <<>>),
           UNCHANGED <<run, effect, row, entry, target, overrun, respent>>
    PROVE  Inv'
<1> DEFINE none == <<>>
<1>1. none \in Seq(Steps) /\ Op(none) = "none" /\ Then(w, none) /\ none = <<>>
  BY DEF Op
<1>2. row.status # "None"
  BY DEF Inv, PassInv
<1> HIDE DEF none
<1>3. /\ StaleWeight(none, Closed, target.executed) = 0
      /\ ClaimWeight(none, Closed, Open, target.executed) = IF Open \/ target.executed = 0 THEN 1 ELSE 0
  BY <1>1 DEF StaleWeight, ClaimWeight, Admitted, Started, Asking
<1>4. StaleWeight(worker[w].todo, Closed, target.executed) >= 0
  BY DEF StaleWeight
<1>5. (IF Open \/ target.executed = 0 THEN 1 ELSE 0)
        <= ClaimWeight(worker[w].todo, Closed, Open, target.executed)
  BY Typed, LeastClaim
<1> QED
  <2>1. /\ UNCHANGED <<run, effect, row, entry, target, overrun>>
        /\ respent' \in Nat /\ respent <= respent'
    BY Typed
  <2>2. /\ StaleWeight(none, Closed, target.executed)
             <= StaleWeight(worker[w].todo, Closed, target.executed)
        /\ ClaimWeight(none, Closed, Open, target.executed)
             <= ClaimWeight(worker[w].todo, Closed, Open, target.executed)
    BY <1>3, <1>4, <1>5
  <2> QED
    BY ZenonT(30), <1>1, <1>2, <2>1, <2>2, PlainStep

\* The pass goes on to settle, or to record a failed attempt.
LEMMA LightStep ==
    ASSUME Inv, Guarded, NEW w \in Workers, worker[w].holds, NEW todo \in Seq(Steps), Then(w, todo),
           UNCHANGED <<run, effect, row, entry, target, overrun>>, respent' \in Nat, respent <= respent',
           todo # <<>> => Shape(todo, Closed),
           \/ Op(todo) \in {"none", "fleet", "deliver"}
           \/ Op(todo) = "row" /\ Closed = TRUE
           \/ Op(todo) = "fail" /\ Arg(todo) # "burn"
           \/ Op(todo) = "authorize" /\ Arg(todo) = "spent"
    PROVE  Inv'
<1>1. row.status # "None"
  BY Zenon DEF Inv, PassInv
<1>2. /\ StaleWeight(todo, Closed, target.executed) = 0
      /\ ClaimWeight(todo, Closed, Open, target.executed) = IF Open \/ target.executed = 0 THEN 1 ELSE 0
  BY Zenon DEF StaleWeight, ClaimWeight, Admitted, Started, Asking
<1>3. StaleWeight(worker[w].todo, Closed, target.executed) >= 0
  BY DEF StaleWeight
<1>4. (IF Open \/ target.executed = 0 THEN 1 ELSE 0)
        <= ClaimWeight(worker[w].todo, Closed, Open, target.executed)
  BY ZenonT(30), Typed, LeastClaim
<1> QED
  BY ZenonT(30), <1>1, <1>2, <1>3, <1>4, PlainStep

LEMMA ReadStep ==
    ASSUME Inv, Guarded, NEW w \in Workers, ReadRow(w)
    PROVE  Inv'
<1> DEFINE todo == <<DoAttempt("decide", row.status, row.attempts + 1)>>
<1>1. /\ Doing(w, "read") /\ Then(w, todo)
      /\ UNCHANGED <<run, effect, row, entry, target, overrun, respent>>
  BY ZenonT(30) DEF ReadRow, history
<1>2. worker[w].holds /\ row.status # "None" /\ Op(worker[w].todo) = "read"
  BY <1>1, NowFacts
<1>3. /\ todo \in Seq(Steps) /\ Op(todo) = "decide" /\ Arg(todo) = row.status
      /\ Len(todo) = 1 /\ todo[1].op = "decide"
  BY Typed DEF DoAttempt, Op, Arg, Steps, Rows
<1> HIDE DEF todo
<1>4. Shape(todo, Closed)
  BY <1>3 DEF Shape
<1>5. /\ StaleWeight(worker[w].todo, Closed, target.executed) = 1
      /\ StaleWeight(todo, Closed, target.executed) \in {0, 1}
  BY <1>2, Typed, Weights DEF StaleWeight
<1>6. Admitted(todo, Closed) => Open
  BY Zenon, <1>3 DEF Admitted, Open
<1>7. ClaimWeight(todo, Closed, Open, target.executed)
        <= ClaimWeight(worker[w].todo, Closed, Open, target.executed)
  BY SMTT(30), <1>2, <1>3, <1>6 DEF ClaimWeight, Admitted, Started
<1>8. StaleWeight(todo, Closed, target.executed)
        <= StaleWeight(worker[w].todo, Closed, target.executed)
  BY <1>5
<1> QED
  BY Zenon, <1>1, <1>2, <1>3, <1>4, <1>7, <1>8, SameSpent, PlainStep

\* The forms a pass takes, by its next step.
LEMMA ShapeByOp ==
    ASSUME NEW todo \in Seq(Steps), todo # <<>>, NEW closed, Shape(todo, closed)
    PROVE  /\ Op(todo) \in {"read", "decide", "reconcile", "fail", "invoke"} => Len(todo) = 1
           /\ Op(todo) = "authorize" => \E cover \in {"covered", "spent"}, attempt \in Nat :
                                        todo = FromAuthorize(cover, attempt)
           /\ Op(todo) = "start" => \E attempt \in Nat : todo = FromStart(attempt)
           /\ Op(todo) = "credential" => \E attempt \in Nat : todo = FromCredential(attempt)
           /\ Op(todo) \in {"fleet", "deliver"} => Harmless(todo, closed)
           /\ Op(todo) = "row" => \/ Harmless(todo, closed)
                                  \/ Head(todo) = Do("row", "Cancelled") /\ Harmless(Tail(todo), closed)
<1>0. Op(todo) = Head(todo).op /\ Head(todo) = todo[1] /\ 1 \in 1..Len(todo)
  BY DEF Op
<1>1. CASE Len(todo) = 1 /\ todo[1].op \in {"read", "decide", "reconcile", "fail", "invoke"}
  BY <1>0, <1>1
<1>2. CASE \E attempt \in Nat :
              todo \in {FromAuthorize("covered", attempt), FromAuthorize("spent", attempt),
                        FromStart(attempt), FromCredential(attempt)}
  <2>1. PICK attempt \in Nat :
              todo \in {FromAuthorize("covered", attempt), FromAuthorize("spent", attempt),
                        FromStart(attempt), FromCredential(attempt)}
    BY <1>2
  <2>2. /\ Op(FromAuthorize("covered", attempt)) = "authorize"
        /\ Op(FromAuthorize("spent", attempt)) = "authorize" /\ Op(FromStart(attempt)) = "start"
        /\ Op(FromCredential(attempt)) = "credential"
    BY Zenon, AttemptSteps
  <2> QED
    BY <2>1, <2>2
<1>3. CASE Harmless(todo, closed)
  <2>1. Op(todo) \in {"fleet", "deliver", "row"}
    BY <1>0, <1>3 DEF Harmless
  <2> QED
    BY <1>3, <2>1
<1>4. CASE Head(todo) = Do("row", "Cancelled") /\ Harmless(Tail(todo), closed)
  <2>1. Op(todo) = "row"
    BY <1>0, <1>4 DEF Do
  <2> QED
    BY <1>4, <2>1
<1> QED
  BY <1>1, <1>2, <1>3, <1>4 DEF Shape

\* A list of one step.
LEMMA OneStep ==
    ASSUME NEW op \in {"read", "decide", "reconcile", "fail", "invoke"}, NEW arg, NEW attempt \in Nat,
           [op |-> op, arg |-> arg, attempt |-> attempt] \in Steps, NEW closed
    PROVE  LET todo == <<[op |-> op, arg |-> arg, attempt |-> attempt]>>
           IN  /\ todo \in Seq(Steps) /\ todo # <<>> /\ Op(todo) = op /\ Arg(todo) = arg
               /\ Shape(todo, closed)
BY DEF Op, Arg, Shape

LEMMA FailSteps ==
    ASSUME NEW cause \in {"burn", "attempt", "definitive", "unknown"}, NEW closed
    PROVE  LET todo == <<Do("fail", cause)>>
           IN  /\ todo \in Seq(Steps) /\ todo # <<>> /\ Op(todo) = "fail" /\ Arg(todo) = cause
               /\ Shape(todo, closed)
<1>1. [op |-> "fail", arg |-> cause, attempt |-> 0] \in Steps
  BY DEF Steps
<1> QED
  BY ZenonT(30), <1>1, OneStep DEF Do

LEMMA ReconcileSteps ==
    ASSUME NEW arg \in {"live", "winding"}, NEW closed
    PROVE  LET todo == <<Do("reconcile", arg)>>
           IN  /\ todo \in Seq(Steps) /\ todo # <<>> /\ Op(todo) = "reconcile" /\ Arg(todo) = arg
               /\ Shape(todo, closed)
<1>1. [op |-> "reconcile", arg |-> arg, attempt |-> 0] \in Steps
  BY DEF Steps
<1> QED
  BY ZenonT(30), <1>1, OneStep DEF Do

\* A pass that goes on to settle only.
LEMMA SettleStep ==
    ASSUME Inv, Guarded, NEW w \in Workers, worker[w].holds,
           NEW todo \in {ParkIndeterminate, RefuseDispatch, Conclude("Succeeded"), Conclude("Failed"),
                         Exhaust, <<Do("fleet", "RetryScheduled")>>, ParkExhausted},
           Then(w, todo), UNCHANGED <<run, effect, row, entry, target, overrun, respent>>
    PROVE  Inv'
<1>1. todo \in Seq(Steps) /\ Harmless(todo, Closed) /\ Op(todo) \in {"fleet", "deliver"}
  BY ZenonT(30), Settlements
<1>2. Shape(todo, Closed)
  BY <1>1 DEF Shape
<1> QED
  <2>1. /\ UNCHANGED <<run, effect, row, entry, target, overrun>>
        /\ respent' \in Nat /\ respent <= respent'
    BY Typed
  <2> QED
    BY ZenonT(30), <1>1, <1>2, <2>1, LightStep

\* A pass that withdraws the row when no claim is admitted any more.
LEMMA WithdrawStep ==
    ASSUME Inv, Guarded, NEW w \in Workers, worker[w].holds, Closed,
           NEW todo \in {SettleAndTell, SettleTicketCancelled},
           Then(w, todo), UNCHANGED <<run, effect, row, entry, target, overrun>>,
           respent' \in Nat, respent <= respent'
    PROVE  Inv'
<1>1. Closed = TRUE
  BY Typed
<1>2. todo \in Seq(Steps) /\ Op(todo) = "row" /\ Harmless(todo, Closed)
  BY ZenonT(30), <1>1, Withdrawal
<1>3. Shape(todo, Closed)
  BY ZenonT(30), <1>2 DEF Shape
<1> QED
  BY ZenonT(30), <1>1, <1>2, <1>3, LightStep

\* The decision admits a new attempt.
LEMMA AdmitStep ==
    ASSUME Inv, Guarded, NEW w \in Workers, Doing(w, "decide"),
           effect = "Ready", ~IsAmbiguous(Now(w).arg), ~(winding /\ ~exempt),
           Now(w).attempt \in Nat, Then(w, AttemptInvocation(Now(w).attempt)),
           respent' = IF Now(w).arg = "Exhausted" /\ Cover(Now(w).attempt) = "covered"
                      THEN respent + 1 ELSE respent,
           UNCHANGED <<run, effect, row, entry, target, overrun>>
    PROVE  Inv'
<1> DEFINE todo == AttemptInvocation(Now(w).attempt)
<1>1. /\ worker[w].holds /\ row.status # "None" /\ Op(worker[w].todo) = "decide"
      /\ Arg(worker[w].todo) = Now(w).arg
  BY NowFacts
<1>2. Closed = FALSE
  BY Typed DEF Closed
<1>3. Now(w).arg \in Admits \cup {"Exhausted"}
  <2>1. /\ Now(w).arg \in Statuses
        /\ Now(w).arg = "Dispatched" => Closed
        /\ Now(w).arg = "Failed" => class = "Reconcileable"
    BY <1>1 DEF Inv, PassInv
  <2> QED
    BY ZenonT(30), <1>2, <2>1 DEF Statuses, Admits, IsAmbiguous
<1>4. /\ class' = class /\ exempt' = exempt /\ winding' = winding /\ entry' = entry
      /\ overrun' = overrun /\ target' = target /\ effect' = effect /\ row' = row
  BY DEF run
<1>5. Closed' = Closed /\ Open' = Open
  BY <1>4 DEF Closed, Open
<1>6. /\ todo \in Seq(Steps) /\ Op(todo) = "authorize" /\ Arg(todo) = Cover(Now(w).attempt)
      /\ Then(w, todo)
  BY Zenon, AttemptInvocationSteps
<1>7. Shape(todo, Closed)
  BY ZenonT(30), AttemptForm DEF Shape
<1> HIDE DEF todo
<1>8. /\ StaleWeight(todo, Closed, target.executed) \in {0, 1}
      /\ ClaimWeight(todo, Closed, Open, target.executed) \in {0, 1}
  BY ZenonT(30), <1>6 DEF StaleWeight, ClaimWeight, Started
<1>9. CASE Now(w).arg \in Admits
  <2>1. respent' = respent
    BY <1>9 DEF Admits
  <2>2. /\ StaleWeight(worker[w].todo, Closed, target.executed) = 1
        /\ ClaimWeight(worker[w].todo, Closed, Open, target.executed) = 1
    BY ZenonT(30), <1>1, <1>2, <1>9 DEF StaleWeight, ClaimWeight, Admitted
  <2>3. /\ StaleWeight(todo, Closed, target.executed)
             <= StaleWeight(worker[w].todo, Closed, target.executed)
        /\ ClaimWeight(todo, Closed, Open, target.executed)
             <= ClaimWeight(worker[w].todo, Closed, Open, target.executed)
    BY <1>8, <2>2
  <2> QED
    BY Zenon, <1>1, <1>6, <1>7, <2>1, <2>3, SameSpent, PlainStep
<1>10. CASE Now(w).arg = "Exhausted" /\ Cover(Now(w).attempt) = "covered"
  <2>1. respent' = respent + 1 /\ respent' \in Nat
    BY <1>10, Typed
  <2>2. /\ StaleWeight(worker[w].todo, Closed, target.executed) >= 0
        /\ ClaimWeight(worker[w].todo, Closed, Open, target.executed) >= 0
        /\ StaleWeight(worker[w].todo, Closed, target.executed) \in Nat
        /\ ClaimWeight(worker[w].todo, Closed, Open, target.executed) \in Nat
    BY Typed, Weights
  <2>3. target'.executed + StaleWeight(todo, Closed', target'.executed)
          + (IF Open' /\ ~Open THEN 1 ELSE 0) + respent
        <= target.executed + StaleWeight(worker[w].todo, Closed, target.executed) + respent'
    BY SMTT(30), <1>4, <1>5, <1>8, <2>1, <2>2, Typed
  <2>4. target'.executed + ClaimWeight(todo, Closed', Open', target'.executed) + respent
        <= target.executed + ClaimWeight(worker[w].todo, Closed, Open, target.executed) + respent'
    BY <1>4, <1>5, <1>8, <2>1, <2>2, Typed
  <2> QED
    <3>1. Forward
      BY <1>4, <2>1, Typed DEF Forward
    <3>2. RowFits
      BY ZenonT(30), <1>1, <1>4, <1>5, Typed DEF RowFits
    <3>3. TodoFits(todo)
      BY ZenonT(30), <1>5, <1>6, <1>7 DEF TodoFits
    <3>4. Pays(w, todo)
      BY ZenonT(30), <2>3, <2>4 DEF Pays
    <3> QED
      BY ZenonT(30), <1>1, <1>6, <3>1, <3>2, <3>3, <3>4, StepKeeps
<1>11. CASE Now(w).arg = "Exhausted" /\ Cover(Now(w).attempt) # "covered"
  <2>1. respent' = respent
    BY Zenon, <1>11
  <2>2. Op(todo) = "authorize" /\ Arg(todo) = "spent"
    BY Zenon, <1>6, <1>11, AttemptForm
  <2> QED
    BY ZenonT(30), <1>1, <1>6, <1>7, <2>1, <2>2, SameSpent, LightStep
<1> QED
  BY ZenonT(30), <1>3, <1>9, <1>10, <1>11

LEMMA DecideStep ==
    ASSUME Inv, Guarded, NEW w \in Workers, Decide(w)
    PROVE  Inv'
<1>1. /\ Doing(w, "decide") /\ Then(w, ExecuteClaim(Now(w).arg, Now(w).attempt))
      /\ respent' = IF effect = "Ready" /\ Now(w).arg = "Exhausted" /\ Cover(Now(w).attempt) = "covered"
                    THEN respent + 1 ELSE respent
      /\ UNCHANGED <<run, effect, row, entry, target, overrun>>
  BY ZenonT(30) DEF Decide
<1>2. /\ worker[w].holds /\ row.status # "None" /\ Op(worker[w].todo) = "decide"
      /\ Arg(worker[w].todo) = Now(w).arg /\ Now(w) \in Steps
  BY Zenon, <1>1, NowFacts
<1>3. CASE effect # "Ready"
  <2>1. Closed /\ ExecuteClaim(Now(w).arg, Now(w).attempt) = SettleTicketCancelled
    BY <1>3 DEF Closed, ExecuteClaim
  <2>2. UNCHANGED <<run, effect, row, entry, target, overrun, respent>>
    BY <1>1, <1>3
  <2> QED
    BY <1>1, <1>2, <2>1, <2>2, Typed, WithdrawStep
<1>4. CASE effect = "Ready" /\ IsAmbiguous(Now(w).arg)
  <2>1. ExecuteClaim(Now(w).arg, Now(w).attempt) = RecoverAmbiguous
    BY <1>4 DEF ExecuteClaim
  <2>2. UNCHANGED <<run, effect, row, entry, target, overrun, respent>>
    BY SMTT(30), <1>1, <1>4 DEF IsAmbiguous
  <2>3. CASE class = "NonIdempotent"
    <3>1. RecoverAmbiguous = ParkIndeterminate
      BY ZenonT(30), <2>3 DEF RecoverAmbiguous
    <3> QED
      BY ZenonT(30), <1>1, <1>2, <2>1, <2>2, <3>1, SettleStep
  <2>4. CASE class = "Reconcileable"
    <3> DEFINE arg == IF winding THEN "winding" ELSE "live"
               todo == <<Do("reconcile", arg)>>
    <3>1. RecoverAmbiguous = todo
      BY <2>4 DEF RecoverAmbiguous
    <3>2. /\ todo \in Seq(Steps) /\ todo # <<>> /\ Op(todo) = "reconcile" /\ Shape(todo, Closed)
          /\ Then(w, todo)
      BY ZenonT(30), <1>1, <2>1, <3>1, ReconcileSteps
    <3> HIDE DEF todo
    <3>3. StaleWeight(todo, Closed, target.executed)
            <= StaleWeight(worker[w].todo, Closed, target.executed)
      BY <1>2, <3>2 DEF StaleWeight, Admitted, Started, Asking
    <3>4. ClaimWeight(todo, Closed, Open, target.executed)
            = IF Open \/ target.executed = 0 THEN 1 ELSE 0
      BY <3>2 DEF ClaimWeight, Admitted, Started
    <3>5. (IF Open \/ target.executed = 0 THEN 1 ELSE 0)
            <= ClaimWeight(worker[w].todo, Closed, Open, target.executed)
      BY Typed, LeastClaim
    <3> QED
      BY Zenon, <1>1, <1>2, <2>2, <3>2, <3>3, <3>4, <3>5, SameSpent, PlainStep
  <2> QED
    BY <2>3, <2>4 DEF Guarded
<1>5. CASE effect = "Ready" /\ ~IsAmbiguous(Now(w).arg) /\ winding /\ ~exempt
  <2>1. Closed /\ ExecuteClaim(Now(w).arg, Now(w).attempt) = SettleAndTell
    BY <1>5 DEF Closed, ExecuteClaim
  <2>2. respent' \in Nat /\ respent <= respent'
    BY <1>1, Typed
  <2> QED
    BY ZenonT(30), <1>1, <1>2, <2>1, <2>2, WithdrawStep
<1>6. CASE effect = "Ready" /\ ~IsAmbiguous(Now(w).arg) /\ ~(winding /\ ~exempt)
  <2>1. ExecuteClaim(Now(w).arg, Now(w).attempt) = AttemptInvocation(Now(w).attempt)
    BY <1>6 DEF ExecuteClaim
  <2>2. Now(w).attempt \in Nat
    BY <1>2 DEF Steps
  <2>3. respent' = IF Now(w).arg = "Exhausted" /\ Cover(Now(w).attempt) = "covered"
                   THEN respent + 1 ELSE respent
    BY Zenon, <1>1, <1>6
  <2> QED
    BY ZenonT(30), <1>1, <1>6, <2>1, <2>2, <2>3, AdmitStep
<1> QED
  BY ZenonT(30), <1>3, <1>4, <1>5, <1>6

LEMMA AuthorizeStep ==
    ASSUME Inv, Guarded, NEW w \in Workers, Authorize(w)
    PROVE  Inv'
<1>1. Doing(w, "authorize") /\ UNCHANGED <<run, effect, row, entry, target, overrun, respent>>
  BY ZenonT(30) DEF Authorize
<1>2. /\ worker[w].holds /\ row.status # "None" /\ Op(worker[w].todo) = "authorize"
      /\ worker[w].todo \in Seq(Steps) /\ worker[w].todo # <<>> /\ Shape(worker[w].todo, Closed)
  BY <1>1, NowFacts
<1>3. PICK cover \in {"covered", "spent"}, attempt \in Nat : worker[w].todo = FromAuthorize(cover, attempt)
  BY ZenonT(30), <1>2, ShapeByOp
<1>4. CASE Now(w).arg = "covered" /\ Then(w, Tail(worker[w].todo))
  <2>0. Arg(worker[w].todo) = "covered"
    BY Zenon, <1>1, <1>4, NowFacts
  <2> DEFINE todo == FromStart(attempt)
  <2>1. /\ todo \in Seq(Steps) /\ Op(todo) = "start" /\ Then(w, todo)
    BY ZenonT(30), <1>3, <1>4, AttemptTails, AttemptSteps
  <2>2. Shape(todo, Closed)
    BY ZenonT(30) DEF Shape
  <2> HIDE DEF todo
  <2>3. /\ StaleWeight(todo, Closed, target.executed) = 1
        /\ StaleWeight(worker[w].todo, Closed, target.executed) = 1
        /\ ClaimWeight(todo, Closed, Open, target.executed) = 1
        /\ ClaimWeight(worker[w].todo, Closed, Open, target.executed) = 1
    BY <1>2, <2>0, <2>1 DEF StaleWeight, ClaimWeight, Admitted
  <2>4. /\ StaleWeight(todo, Closed, target.executed)
             <= StaleWeight(worker[w].todo, Closed, target.executed)
        /\ ClaimWeight(todo, Closed, Open, target.executed)
             <= ClaimWeight(worker[w].todo, Closed, Open, target.executed)
    BY <2>3
  <2> QED
    BY Zenon, <1>1, <1>2, <2>1, <2>2, <2>4, SameSpent, PlainStep
<1>5. CASE Then(w, SettleUndispatchable(Now(w).attempt))
  <2>1. SettleUndispatchable(Now(w).attempt) = RefuseDispatch
    BY DEF Guarded, SettleUndispatchable
  <2> QED
    BY ZenonT(30), <1>1, <1>2, <1>5, <2>1, SettleStep
<1>6. CASE Then(w, <<Do("fleet", "RetryScheduled")>>)
  BY ZenonT(30), <1>1, <1>2, <1>6, SettleStep
<1> QED
  BY <1>4, <1>5, <1>6 DEF Authorize

\* A step that marks the row and leaves it closed to claims.
LEMMA MarkStep ==
    ASSUME Inv, Guarded, NEW w \in Workers, worker[w].holds, NEW todo \in Seq(Steps), Then(w, todo),
           UNCHANGED <<run, effect, entry, target, overrun, respent>>,
           row' \in Rows, row'.status \in {"Dispatching", "Failed", "Exhausted"},
           row'.status = "Failed" => class = "Reconcileable",
           Shape(todo, Closed), Op(todo) # "decide",
           StaleWeight(todo, Closed, target.executed)
              <= StaleWeight(worker[w].todo, Closed, target.executed),
           ClaimWeight(todo, Closed, FALSE, target.executed)
              <= ClaimWeight(worker[w].todo, Closed, Open, target.executed)
    PROVE  Inv'
<1>1. /\ class' = class /\ exempt' = exempt /\ winding' = winding /\ entry' = entry
      /\ overrun' = overrun /\ respent' = respent /\ target' = target /\ effect' = effect
  BY Zenon DEF run
<1>2. Closed' = Closed /\ Open' = FALSE
  BY Zenon, <1>1 DEF Closed, Open, Admits
<1>3. /\ StaleWeight(todo, Closed, target.executed) \in Nat
      /\ StaleWeight(worker[w].todo, Closed, target.executed) \in Nat
      /\ ClaimWeight(todo, Closed, FALSE, target.executed) \in Nat
      /\ ClaimWeight(worker[w].todo, Closed, Open, target.executed) \in Nat
  BY Zenon DEF StaleWeight, ClaimWeight
<1>4. target'.executed + StaleWeight(todo, Closed', target'.executed)
        + (IF Open' /\ ~Open THEN 1 ELSE 0) + respent
      <= target.executed + StaleWeight(worker[w].todo, Closed, target.executed) + respent'
  BY <1>1, <1>2, <1>3, Typed
<1>5. target'.executed + ClaimWeight(todo, Closed', Open', target'.executed) + respent
      <= target.executed + ClaimWeight(worker[w].todo, Closed, Open, target.executed) + respent'
  <2> DEFINE a == ClaimWeight(todo, Closed, FALSE, target.executed)
             b == ClaimWeight(worker[w].todo, Closed, Open, target.executed)
  <2>1. ClaimWeight(todo, Closed', Open', target'.executed) = a
    BY ZenonT(30), <1>1, <1>2
  <2>2. a \in Nat /\ b \in Nat /\ a <= b
    BY Zenon, <1>3
  <2> HIDE DEF a, b
  <2>3. target.executed + a + respent <= target.executed + b + respent
    BY <2>2, Typed
  <2> QED
    BY Zenon, <1>1, <2>1, <2>3 DEF b
<1> QED
  <2>1. Forward
    BY <1>1, Typed DEF Forward
  <2>2. RowFits
    BY Zenon DEF RowFits
  <2>3. TodoFits(todo)
    BY <1>2 DEF TodoFits
  <2>4. Pays(w, todo)
    BY ZenonT(30), <1>4, <1>5 DEF Pays
  <2> QED
    BY ZenonT(30), <2>1, <2>2, <2>3, <2>4, StepKeeps

LEMMA StartStep ==
    ASSUME Inv, Guarded, NEW w \in Workers, Start(w)
    PROVE  Inv'
<1>1. /\ Doing(w, "start") /\ UNCHANGED <<run, effect, entry, target, overrun, respent>>
      /\ row' = [row EXCEPT !.status = "Dispatching"] /\ Then(w, Tail(worker[w].todo))
  BY DEF Start, history, RowWrite, MarkDispatching
<1>2. /\ worker[w].holds /\ Op(worker[w].todo) = "start"
      /\ worker[w].todo \in Seq(Steps) /\ worker[w].todo # <<>> /\ Shape(worker[w].todo, Closed)
  BY <1>1, NowFacts
<1>3. PICK attempt \in Nat : worker[w].todo = FromStart(attempt)
  BY <1>2, ShapeByOp
<1> DEFINE todo == FromCredential(attempt)
<1>4. /\ todo \in Seq(Steps) /\ Op(todo) = "credential" /\ Then(w, todo)
  BY ZenonT(30), <1>1, <1>3, AttemptTails, AttemptSteps
<1>5. Shape(todo, Closed)
  BY ZenonT(30) DEF Shape
<1> HIDE DEF todo
<1>6. /\ StaleWeight(todo, Closed, target.executed) = 1
      /\ StaleWeight(worker[w].todo, Closed, target.executed) = 1
      /\ ClaimWeight(todo, Closed, FALSE, target.executed) = 1
      /\ ClaimWeight(worker[w].todo, Closed, Open, target.executed) = 1
  BY <1>2, <1>4 DEF StaleWeight, ClaimWeight, Admitted, Started
<1>7. row' \in Rows /\ row'.status = "Dispatching"
  BY Zenon, <1>1, Typed DEF Rows, Statuses
<1> QED
  <2>1. /\ row'.status \in {"Dispatching", "Failed", "Exhausted"}
        /\ row'.status = "Failed" => class = "Reconcileable"
    BY <1>7
  <2>2. /\ StaleWeight(todo, Closed, target.executed)
             <= StaleWeight(worker[w].todo, Closed, target.executed)
        /\ ClaimWeight(todo, Closed, FALSE, target.executed)
             <= ClaimWeight(worker[w].todo, Closed, Open, target.executed)
    <3>1. 1 <= 1
      OBVIOUS
    <3> QED
      BY Zenon, <1>6, <3>1
  <2> QED
    BY ZenonT(30), <1>1, <1>2, <1>4, <1>5, <1>7, <2>1, <2>2, MarkStep

LEMMA CredentialStep ==
    ASSUME Inv, Guarded, NEW w \in Workers, ResolveCredential(w)
    PROVE  Inv'
<1>1. Doing(w, "credential") /\ UNCHANGED <<run, effect, row, entry, target, overrun, respent>>
  BY ZenonT(30) DEF ResolveCredential, history
<1>2. /\ worker[w].holds /\ row.status # "None" /\ Op(worker[w].todo) = "credential"
      /\ worker[w].todo \in Seq(Steps) /\ worker[w].todo # <<>> /\ Shape(worker[w].todo, Closed)
  BY <1>1, NowFacts
<1>3. PICK attempt \in Nat : worker[w].todo = FromCredential(attempt)
  BY ZenonT(30), <1>2, ShapeByOp
<1>4. CASE Then(w, Tail(worker[w].todo))
  <2> DEFINE todo == FromInvoke
  <2>1. /\ todo \in Seq(Steps) /\ Op(todo) = "invoke" /\ Then(w, todo)
    BY ZenonT(30), <1>3, <1>4, AttemptTails, AttemptSteps
  <2>2. Shape(todo, Closed)
    BY DEF Shape, FromInvoke, Do
  <2> HIDE DEF todo
  <2>3. /\ StaleWeight(todo, Closed, target.executed) = 1
        /\ StaleWeight(worker[w].todo, Closed, target.executed) = 1
    BY ZenonT(30), <1>2, <2>1 DEF StaleWeight, Started
  <2>4. /\ ClaimWeight(todo, Closed, Open, target.executed) = IF Open THEN 2 ELSE 1
        /\ ClaimWeight(worker[w].todo, Closed, Open, target.executed) = IF Open THEN 2 ELSE 1
    BY <1>2, <2>1 DEF ClaimWeight, Admitted, Started
  <2>5. /\ StaleWeight(todo, Closed, target.executed)
             <= StaleWeight(worker[w].todo, Closed, target.executed)
        /\ ClaimWeight(todo, Closed, Open, target.executed)
             <= ClaimWeight(worker[w].todo, Closed, Open, target.executed)
    BY <2>3, <2>4
  <2> QED
    BY Zenon, <1>1, <1>2, <2>1, <2>2, <2>5, SameSpent, PlainStep
<1>5. CASE Then(w, SettleUndispatchable(Now(w).attempt))
  <2>1. SettleUndispatchable(Now(w).attempt) = RefuseDispatch
    BY DEF Guarded, SettleUndispatchable
  <2> QED
    BY ZenonT(30), <1>1, <1>2, <1>5, <2>1, SettleStep
<1>6. CASE \E cause \in {"attempt", "definitive"} : Then(w, <<Do("fail", cause)>>)
  <2>1. PICK cause \in {"attempt", "definitive"} : Then(w, <<Do("fail", cause)>>)
    BY Zenon, <1>6
  <2> DEFINE todo == <<Do("fail", cause)>>
  <2>2. /\ todo \in Seq(Steps) /\ Op(todo) = "fail" /\ Arg(todo) # "burn" /\ Shape(todo, Closed)
        /\ Then(w, todo)
    BY <2>1, FailSteps
  <2> HIDE DEF todo
  <2> QED
    <3>1. /\ UNCHANGED <<run, effect, row, entry, target, overrun>>
          /\ respent' \in Nat /\ respent <= respent'
      BY <1>1, Typed
    <3> QED
      BY ZenonT(30), <1>2, <2>2, <3>1, LightStep
<1> QED
  BY <1>4, <1>5, <1>6 DEF ResolveCredential

\* What an invocation leaves to do.
LEMMA Answers ==
    ASSUME Inv, Guarded, NEW executed \in Nat, NEW todo, 
           todo \in {Conclude("Succeeded"), Conclude("Failed"), ParkIndeterminate, <<Do("reconcile", "live")>>}
             \/ \E cause \in {"attempt", "definitive"} : todo = <<Do("fail", cause)>>
    PROVE  /\ todo \in Seq(Steps) /\ todo # <<>> /\ Shape(todo, Closed) /\ Op(todo) # "decide"
           /\ StaleWeight(todo, Closed, executed) \in {0, IF executed = 0 THEN 1 ELSE 0}
           /\ ClaimWeight(todo, Closed, Open, executed) = IF Open \/ executed = 0 THEN 1 ELSE 0
<1>1. CASE todo \in {Conclude("Succeeded"), Conclude("Failed"), ParkIndeterminate}
  <2>1. todo \in Seq(Steps) /\ Harmless(todo, Closed) /\ Op(todo) \in {"fleet", "deliver"}
    BY ZenonT(30), <1>1, Settlements
  <2>2. todo # <<>>
    BY <2>1 DEF Op
  <2>3. Shape(todo, Closed)
    BY Zenon, <2>1 DEF Shape
  <2> QED
    BY <2>1, <2>2, <2>3 DEF StaleWeight, ClaimWeight, Admitted, Started, Asking
<1>2. CASE todo = <<Do("reconcile", "live")>>
  <2>1. /\ todo \in Seq(Steps) /\ todo # <<>> /\ Op(todo) = "reconcile" /\ Shape(todo, Closed)
    BY Zenon, <1>2, ReconcileSteps
  <2> QED
    BY <2>1 DEF StaleWeight, ClaimWeight, Admitted, Started, Asking
<1>3. CASE \E cause \in {"attempt", "definitive"} : todo = <<Do("fail", cause)>>
  <2>1. /\ todo \in Seq(Steps) /\ todo # <<>> /\ Op(todo) = "fail" /\ Arg(todo) # "burn"
        /\ Shape(todo, Closed)
    BY SMTT(30), <1>3, FailSteps
  <2> QED
    BY Zenon, <2>1 DEF StaleWeight, ClaimWeight, Admitted, Started, Asking
<1> QED
  BY ZenonT(30), <1>1, <1>2, <1>3

LEMMA InvokeStep ==
    ASSUME Inv, Guarded, NEW w \in Workers, Invoke(w)
    PROVE  Inv'
<1>1. Doing(w, "invoke") /\ UNCHANGED <<run, effect, row, entry, overrun, respent>>
  BY SMTT(30) DEF Invoke
<1>2. worker[w].holds /\ row.status # "None" /\ Op(worker[w].todo) = "invoke"
  BY ZenonT(30), <1>1, NowFacts
<1>3. PICK called \in {0, 1}, executed \in {0, 1},
           answer \in {"ok", "failed", "attempt", "definitive", "unknown"} :
         /\ target' = [calls |-> target.calls + called, executed |-> target.executed + executed]
         /\ Then(w, CASE answer = "ok" -> Conclude("Succeeded")
                      [] answer = "failed" -> Conclude("Failed")
                      [] answer = "unknown" -> SettleUnknownOutcome
                      [] answer \in {"attempt", "definitive"} -> <<Do("fail", answer)>>)
  BY DEF Invoke
<1> DEFINE todo == CASE answer = "ok" -> Conclude("Succeeded")
                     [] answer = "failed" -> Conclude("Failed")
                     [] answer = "unknown" -> SettleUnknownOutcome
                     [] answer \in {"attempt", "definitive"} -> <<Do("fail", answer)>>
<1>4. Then(w, todo) /\ target'.executed = target.executed + executed
  BY <1>3
<1>5. \/ todo \in {Conclude("Succeeded"), Conclude("Failed"), ParkIndeterminate, <<Do("reconcile", "live")>>}
      \/ \E cause \in {"attempt", "definitive"} : todo = <<Do("fail", cause)>>
  <2>1. SettleUnknownOutcome \in {ParkIndeterminate, <<Do("reconcile", "live")>>}
    <3>1. CASE class = "Reconcileable"
      BY <3>1 DEF SettleUnknownOutcome
    <3>2. CASE class = "NonIdempotent"
      BY <3>2 DEF SettleUnknownOutcome
    <3> QED
      BY <3>1, <3>2 DEF Guarded
  <2>2. CASE answer = "ok"
    BY <2>2
  <2>3. CASE answer = "unknown"
    BY <2>1, <2>3
  <2>4. CASE answer \in {"attempt", "definitive"}
    BY <2>4
  <2>5. CASE answer = "failed"
    BY <2>5
  <2> QED
    BY <2>2, <2>3, <2>4, <2>5
<1> HIDE DEF todo
<1>6. target'.executed \in Nat /\ target.executed \in Nat
  BY <1>4, Typed
<1>7. /\ class' = class /\ exempt' = exempt /\ winding' = winding /\ entry' = entry
      /\ overrun' = overrun /\ respent' = respent /\ effect' = effect /\ row' = row
  BY <1>1 DEF run
<1>8. Closed' = Closed /\ Open' = Open
  BY <1>7 DEF Closed, Open
<1>9. /\ todo \in Seq(Steps) /\ todo # <<>> /\ Shape(todo, Closed) /\ Op(todo) # "decide"
      /\ StaleWeight(todo, Closed, target'.executed) \in {0, IF target'.executed = 0 THEN 1 ELSE 0}
      /\ ClaimWeight(todo, Closed, Open, target'.executed)
           = IF Open \/ target'.executed = 0 THEN 1 ELSE 0
  BY ZenonT(30), <1>5, <1>6, Answers
<1>10. /\ StaleWeight(worker[w].todo, Closed, target.executed) = 1
       /\ ClaimWeight(worker[w].todo, Closed, Open, target.executed) = IF Open THEN 2 ELSE 1
  BY ZenonT(30), <1>2 DEF StaleWeight, ClaimWeight, Admitted, Started
<1>11. target'.executed + StaleWeight(todo, Closed', target'.executed)
         + (IF Open' /\ ~Open THEN 1 ELSE 0) + respent
       <= target.executed + StaleWeight(worker[w].todo, Closed, target.executed) + respent'
  BY SMTT(30), <1>4, <1>6, <1>7, <1>8, <1>9, <1>10, Typed
<1>12. target'.executed + ClaimWeight(todo, Closed', Open', target'.executed) + respent
       <= target.executed + ClaimWeight(worker[w].todo, Closed, Open, target.executed) + respent'
  <2>1. ClaimWeight(todo, Closed', Open', target'.executed)
          = ClaimWeight(todo, Closed, Open, target'.executed)
    BY ZenonT(30), <1>8
  <2>2. ClaimWeight(todo, Closed', Open', target'.executed)
          = IF Open \/ target'.executed = 0 THEN 1 ELSE 0
    BY ZenonT(30), <1>9, <2>1
  <2> QED
    BY SMTT(30), <1>4, <1>6, <1>7, <1>10, <2>2, Typed
<1>13. target.executed <= target'.executed
  BY <1>4, <1>6
<1> QED
  <2>1. Forward
    BY ZenonT(30), <1>6, <1>7, <1>13, Typed DEF Forward
  <2>2. RowFits
    BY ZenonT(30), <1>2, <1>7, <1>8, Typed DEF RowFits
  <2>3. TodoFits(todo)
    BY <1>8, <1>9 DEF TodoFits
  <2>4. Pays(w, todo)
    BY ZenonT(30), <1>11, <1>12 DEF Pays
  <2> QED
    BY ZenonT(30), <1>2, <1>4, <1>9, <2>1, <2>2, <2>3, <2>4, StepKeeps

LEMMA ReconcileStep ==
    ASSUME Inv, Guarded, NEW w \in Workers, Reconcile(w)
    PROVE  Inv'
<1>1. Doing(w, "reconcile") /\ UNCHANGED <<run, effect, row, entry, target, overrun, respent>>
  BY Zenon DEF Reconcile, history
<1>2. worker[w].holds /\ row.status # "None" /\ Op(worker[w].todo) = "reconcile"
  BY SMTT(30), <1>1, NowFacts
<1>3. CASE Then(w, ParkIndeterminate)
  BY ZenonT(30), <1>1, <1>2, <1>3, SettleStep
<1>4. CASE \E word \in {"Succeeded", "Failed"} : Then(w, Conclude(word))
  BY ZenonT(30), <1>1, <1>2, <1>4, SettleStep
<1>5. ASSUME target.executed = 0, NEW todo \in {SettleAndTell, <<Do("fail", "burn")>>}, Then(w, todo)
      PROVE  Inv'
  <2>1. /\ StaleWeight(worker[w].todo, Closed, target.executed) = 1
        /\ ClaimWeight(worker[w].todo, Closed, Open, target.executed) = 1
    BY <1>2, <1>5 DEF StaleWeight, ClaimWeight, Admitted, Started, Asking
  <2>2. /\ todo \in Seq(Steps) /\ Shape(todo, Closed) /\ Op(todo) \in {"row", "fail"}
    <3>1. CASE todo = SettleAndTell
      BY ZenonT(30), <3>1, Withdrawal DEF Shape
    <3>2. CASE todo = <<Do("fail", "burn")>>
      BY Zenon, <3>2, FailSteps
    <3> QED
      BY ZenonT(30), <1>5, <3>1, <3>2
  <2>3. /\ StaleWeight(todo, Closed, target.executed) <= 1
        /\ ClaimWeight(todo, Closed, Open, target.executed) <= 1
    <3>1. Started(todo) = FALSE
      BY <2>2 DEF Started
    <3> QED
      BY <3>1 DEF StaleWeight, ClaimWeight
  <2>4. /\ StaleWeight(todo, Closed, target.executed)
             <= StaleWeight(worker[w].todo, Closed, target.executed)
        /\ ClaimWeight(todo, Closed, Open, target.executed)
             <= ClaimWeight(worker[w].todo, Closed, Open, target.executed)
    BY <2>1, <2>3
  <2> QED
    BY Zenon, <1>1, <1>2, <1>5, <2>2, <2>4, SameSpent, PlainStep
<1>6. CASE Then(w, <<Do("fail", "unknown")>>)
  <2> DEFINE todo == <<Do("fail", "unknown")>>
  <2>1. /\ todo \in Seq(Steps) /\ Op(todo) = "fail" /\ Arg(todo) # "burn" /\ Shape(todo, Closed)
        /\ Then(w, todo)
    BY <1>6, FailSteps
  <2> HIDE DEF todo
  <2> QED
    <3>1. /\ UNCHANGED <<run, effect, row, entry, target, overrun>>
          /\ respent' \in Nat /\ respent <= respent'
      BY <1>1, Typed
    <3> QED
      BY ZenonT(30), <1>2, <2>1, <3>1, LightStep
<1> QED
  BY ZenonT(30), <1>3, <1>4, <1>5, <1>6 DEF Reconcile

LEMMA RecordStep ==
    ASSUME Inv, Guarded, NEW w \in Workers, RecordAttempt(w)
    PROVE  Inv'
<1> DEFINE cause == Now(w).arg
           todo == AfterFailure(cause, row')
<1>1. /\ Doing(w, "fail") /\ UNCHANGED <<run, effect, entry, target, overrun, respent>>
      /\ row' = IF cause = "definitive" THEN RecordExhausted(row) ELSE RecordFailure(row)
      /\ Then(w, todo)
  BY ZenonT(30) DEF RecordAttempt, history
<1>2. /\ worker[w].holds /\ Op(worker[w].todo) = "fail" /\ Arg(worker[w].todo) = cause
  <2>1. "fail" \notin {"row", "deliver"}
    BY Zenon
  <2> QED
    BY Zenon, <1>1, <2>1, NowFacts
<1>3. /\ row' \in Rows /\ row'.status \in {"Failed", "Exhausted"}
      /\ row'.status = "Failed" => class = "Reconcileable"
  <2>1. row.attempts \in Nat /\ row.attempts + 1 \in Nat /\ row.attempts + 1 >= 1
    BY Typed DEF Rows
  <2>2. class = "NonIdempotent" => Budget = 1
    BY DEF Budget
  <2>3. row' = RecordExhausted(row) \/ row' = RecordFailure(row)
    BY SMTT(30), <1>1
  <2> QED
    BY <2>1, <2>2, <2>3 DEF RecordExhausted, RecordFailure, Rows, Statuses, Guarded
<1>4. CASE row'.status = "Failed" /\ cause = "burn"
  <2> DEFINE next == row'.attempts + 1
  <2>0. next \in Nat
    BY <1>3 DEF Rows
  <2>1. todo = AttemptInvocation(next)
    BY <1>4 DEF AfterFailure
  <2> HIDE DEF next
  <2>2. /\ todo \in Seq(Steps) /\ Op(todo) = "authorize"
    BY ZenonT(30), <2>0, <2>1, AttemptInvocationSteps
  <2>3. Shape(todo, Closed)
    BY ZenonT(30), <2>0, <2>1, AttemptForm DEF Shape
  <2> HIDE DEF todo
  <2>4. /\ StaleWeight(todo, Closed, target.executed) \in {0, 1}
        /\ ClaimWeight(todo, Closed, FALSE, target.executed) \in {0, 1}
        /\ StaleWeight(worker[w].todo, Closed, target.executed) = 1
        /\ ClaimWeight(worker[w].todo, Closed, Open, target.executed) = 1
    BY ZenonT(30), <1>2, <1>4, <2>2 DEF StaleWeight, ClaimWeight, Admitted, Started
  <2> QED
    <3>1. row'.status \in {"Dispatching", "Failed", "Exhausted"}
      BY <1>3
    <3>2. /\ StaleWeight(todo, Closed, target.executed)
               <= StaleWeight(worker[w].todo, Closed, target.executed)
          /\ ClaimWeight(todo, Closed, FALSE, target.executed)
               <= ClaimWeight(worker[w].todo, Closed, Open, target.executed)
      <4>1. 0 <= 1 /\ 1 <= 1
        OBVIOUS
      <4> QED
        BY Zenon, <2>4, <4>1
    <3>3. Then(w, todo)
      BY <1>1 DEF todo
    <3> QED
      BY ZenonT(30), <1>1, <1>2, <1>3, <2>2, <2>3, <3>1, <3>2, <3>3, MarkStep
<1>5. CASE ~(row'.status = "Failed" /\ cause = "burn")
  <2>1. todo \in {Exhaust, <<Do("fleet", "RetryScheduled")>>, ParkExhausted}
    <3>1. CASE row'.status = "Failed"
      BY ZenonT(30), <1>5, <3>1 DEF AfterFailure
    <3>2. CASE row'.status = "Exhausted" /\ cause # "unknown"
      BY <3>2 DEF AfterFailure
    <3>3. CASE row'.status = "Exhausted" /\ cause = "unknown"
      BY <3>3 DEF AfterFailure
    <3> QED
      BY ZenonT(30), <1>3, <3>1, <3>2, <3>3
  <2>2. todo \in Seq(Steps) /\ Harmless(todo, Closed) /\ Op(todo) \in {"fleet", "deliver"}
    BY ZenonT(30), <2>1, Settlements
  <2>3. Shape(todo, Closed)
    BY <2>2 DEF Shape
  <2> HIDE DEF todo
  <2>4. /\ StaleWeight(todo, Closed, target.executed) = 0
        /\ ClaimWeight(todo, Closed, FALSE, target.executed) = IF target.executed = 0 THEN 1 ELSE 0
    BY ZenonT(30), <2>2 DEF StaleWeight, ClaimWeight, Admitted, Started, Asking
  <2>5. /\ StaleWeight(worker[w].todo, Closed, target.executed) >= 0
        /\ (IF target.executed = 0 THEN 1 ELSE 0)
             <= ClaimWeight(worker[w].todo, Closed, Open, target.executed)
    <3>1. StaleWeight(worker[w].todo, Closed, target.executed) >= 0
      BY SMTT(30), Typed, Weights
    <3>2. (IF Open \/ target.executed = 0 THEN 1 ELSE 0)
             <= ClaimWeight(worker[w].todo, Closed, Open, target.executed)
      BY ZenonT(30), Typed, LeastClaim
    <3>3. ClaimWeight(worker[w].todo, Closed, Open, target.executed) \in {0, 1, 2}
      BY SMTT(30), Typed, Weights
    <3> QED
      BY <3>1, <3>2, <3>3
  <2> QED
    BY ZenonT(30), <1>1, <1>2, <1>3, <2>2, <2>3, <2>4, <2>5, MarkStep
<1> QED
  BY <1>4, <1>5

\* A claim's pass delivers its word: the generation is resolved from here on.
LEMMA DeliverStep ==
    ASSUME Inv, Guarded, NEW w \in Workers, worker[w].holds, DeliverOutcome(w)
    PROVE  Inv'
<1> DEFINE todo == Tail(worker[w].todo)
<1>1. /\ Doing(w, "deliver") /\ UNCHANGED <<run, row, entry, target, overrun, respent>>
      /\ effect' = (IF effect = "Ready" THEN Now(w).arg ELSE effect) /\ Then(w, todo)
  BY ZenonT(30) DEF DeliverOutcome, history
<1>2. /\ row.status # "None" /\ Op(worker[w].todo) = "deliver" /\ Arg(worker[w].todo) = Now(w).arg
      /\ worker[w].todo \in Seq(Steps) /\ worker[w].todo # <<>> /\ Shape(worker[w].todo, Closed)
      /\ todo \in Seq(Steps) /\ Head(worker[w].todo) \in Steps /\ Now(w) = Head(worker[w].todo)
  BY ZenonT(30), <1>1, NowFacts
<1>3. effect' # "Ready"
  <2>1. Now(w).arg # "Ready"
    BY <1>2 DEF Steps, Statuses
  <2> QED
    BY ZenonT(30), <1>1, <2>1
<1>4. Closed' = TRUE /\ Open' = FALSE
  BY ZenonT(30), <1>3 DEF Closed, Open
<1>5. Harmless(worker[w].todo, Closed)
  BY ZenonT(30), <1>2, ShapeByOp
<1> HIDE DEF todo
<1>6. Harmless(todo, Closed')
  BY ZenonT(30), <1>2, <1>4, <1>5, HarmlessTail DEF todo
<1>7. Shape(todo, Closed')
  BY <1>6 DEF Shape
<1>8. Op(todo) \in {"none", "fleet", "deliver", "row"}
  BY ZenonT(30), <1>2, <1>4, <1>6, HarmlessIsLight
<1>9. /\ StaleWeight(todo, TRUE, target.executed) = 0
      /\ ClaimWeight(todo, TRUE, FALSE, target.executed) = IF target.executed = 0 THEN 1 ELSE 0
  BY Zenon, <1>8 DEF StaleWeight, ClaimWeight, Admitted, Started, Asking
<1>10. /\ StaleWeight(worker[w].todo, Closed, target.executed) \in Nat
       /\ ClaimWeight(worker[w].todo, Closed, Open, target.executed) \in Nat
  BY Typed, Weights
<1>11. (IF Open \/ target.executed = 0 THEN 1 ELSE 0)
         <= ClaimWeight(worker[w].todo, Closed, Open, target.executed)
  BY ZenonT(30), Typed, LeastClaim
<1>12. /\ class' = class /\ exempt' = exempt /\ winding' = winding /\ entry' = entry
       /\ overrun' = overrun /\ respent' = respent /\ target' = target /\ row' = row
  BY Zenon, <1>1 DEF run
<1>13. target'.executed + StaleWeight(todo, Closed', target'.executed)
         + (IF Open' /\ ~Open THEN 1 ELSE 0) + respent
       <= target.executed + StaleWeight(worker[w].todo, Closed, target.executed) + respent'
  <2>1. StaleWeight(todo, Closed', target'.executed) = 0
    BY ZenonT(30), <1>4, <1>9, <1>12
  <2> QED
    BY SMTT(30), <1>4, <1>10, <1>12, <2>1, Typed
<1>14. target'.executed + ClaimWeight(todo, Closed', Open', target'.executed) + respent
       <= target.executed + ClaimWeight(worker[w].todo, Closed, Open, target.executed) + respent'
  <2>1. ClaimWeight(todo, Closed', Open', target'.executed) = IF target.executed = 0 THEN 1 ELSE 0
    BY ZenonT(30), <1>4, <1>9, <1>12
  <2> QED
    BY <1>10, <1>11, <1>12, <2>1, Typed
<1>15. Op(todo) # "decide" /\ Then(w, todo)
  BY <1>1, <1>8 DEF todo
<1> QED
  <2>1. Forward
    BY <1>3, <1>12, Typed DEF Forward
  <2>2. RowFits
    BY ZenonT(30), <1>2, <1>4, <1>12, Typed DEF RowFits
  <2>3. TodoFits(todo)
    BY <1>7, <1>15 DEF TodoFits
  <2>4. Pays(w, todo)
    BY ZenonT(30), <1>13, <1>14 DEF Pays
  <2> QED
    BY ZenonT(30), <1>2, <1>15, <2>1, <2>2, <2>3, <2>4, StepKeeps

\* A claim's pass writes the row: it settles it, or withdraws it, which lets a claim
\* in again where the run has not been told yet.
LEMMA RowStep ==
    ASSUME Inv, Guarded, NEW w \in Workers, worker[w].holds, WriteRow(w)
    PROVE  Inv'
<1> DEFINE todo == Tail(worker[w].todo)
<1>1. /\ Doing(w, "row") /\ UNCHANGED <<run, effect, entry, target, overrun, respent>>
      /\ row' = RowWrite(row, Now(w).arg) /\ Then(w, todo)
  BY SMTT(30) DEF WriteRow, history
<1>2. /\ row.status # "None" /\ Op(worker[w].todo) = "row" /\ Arg(worker[w].todo) = Now(w).arg
      /\ worker[w].todo \in Seq(Steps) /\ worker[w].todo # <<>> /\ Shape(worker[w].todo, Closed)
      /\ todo \in Seq(Steps) /\ Now(w) = Head(worker[w].todo)
      /\ Head(worker[w].todo) = worker[w].todo[1] /\ Len(worker[w].todo) \in Nat \ {0}
  BY ZenonT(30), <1>1, NowFacts
<1>3. /\ class' = class /\ exempt' = exempt /\ winding' = winding /\ entry' = entry
      /\ overrun' = overrun /\ respent' = respent /\ target' = target /\ effect' = effect
  BY Zenon, <1>1 DEF run
<1>4. Closed' = Closed
  BY SMTT(30), <1>3 DEF Closed
<1>5. /\ Harmless(todo, Closed)
      /\ \/ Closed = TRUE /\ Now(w).arg \in {"Cancelled", "Dispatched"}
         \/ Now(w).arg = "Cancelled"
  <2>1. CASE Harmless(worker[w].todo, Closed)
    <3>1. Op(worker[w].todo) = "row" /\ Closed = TRUE
      BY ZenonT(30), <1>2, <2>1, Typed, HarmlessIsLight
    <3>2. Now(w).arg \in {"Cancelled", "Dispatched"}
      <4>1. 1 \in 1..Len(worker[w].todo) /\ worker[w].todo[1].op = "row"
        BY SMTT(30), <1>2 DEF Op
      <4> QED
        BY <1>2, <2>1, <4>1 DEF Harmless
    <3>3. Harmless(todo, Closed)
      BY SMTT(30), <1>2, <2>1, HarmlessTail
    <3> QED
      BY ZenonT(30), <3>1, <3>2, <3>3
  <2>2. CASE Head(worker[w].todo) = Do("row", "Cancelled") /\ Harmless(todo, Closed)
    BY <1>2, <2>2 DEF Do
  <2> QED
    BY ZenonT(30), <1>2, <2>1, <2>2, ShapeByOp
<1> HIDE DEF todo
<1>6. /\ row' \in Rows /\ row'.status # "None"
      /\ row'.status = "Dispatched" => Closed
      /\ row'.status = "Failed" => class = "Reconcileable"
  <2>1. CASE Now(w).arg = "Cancelled"
    <3>1. row' = RecordCancelled(row)
      BY <1>1, <2>1 DEF RowWrite
    <3>2. CASE IsCancellable(row)
      BY ZenonT(30), <3>1, <3>2, Typed DEF RecordCancelled, Rows, Statuses
    <3>3. CASE ~IsCancellable(row)
      BY ZenonT(30), <1>2, <3>1, <3>3, Typed DEF RecordCancelled
    <3> QED
      BY <3>2, <3>3
  <2>2. CASE Now(w).arg = "Dispatched" /\ Closed
    <3>1. row' = [row EXCEPT !.status = "Dispatched"]
      BY ZenonT(30), <1>1, <2>2 DEF RowWrite, RecordSuccess
    <3> QED
      BY <2>2, <3>1, Typed DEF Rows, Statuses
  <2> QED
    BY ZenonT(30), <1>5, <2>1, <2>2
<1>7. /\ StaleWeight(todo, Closed, target.executed) = 0
      /\ \A open \in BOOLEAN :
           ClaimWeight(todo, Closed, open, target.executed)
             = IF open \/ target.executed = 0 THEN 1 ELSE 0
  <2>1. Op(todo) \in {"none", "fleet", "deliver"} \/ (Op(todo) = "row" /\ Closed = TRUE)
    BY ZenonT(30), <1>2, <1>5, Typed, HarmlessIsLight
  <2> QED
    BY SMTT(30), <2>1 DEF StaleWeight, ClaimWeight, Admitted, Started, Asking
<1>8. Shape(todo, Closed) /\ Op(todo) # "decide" /\ Then(w, todo)
  <2>1. Shape(todo, Closed)
    BY <1>5 DEF Shape
  <2>2. Op(todo) # "decide"
    BY ZenonT(30), <1>2, <1>5, Typed, HarmlessIsLight
  <2> QED
    BY ZenonT(30), <1>1, <2>1, <2>2 DEF todo
<1>9. /\ StaleWeight(worker[w].todo, Closed, target.executed) \in Nat
      /\ ClaimWeight(worker[w].todo, Closed, Open, target.executed) \in Nat
      /\ Open' \in BOOLEAN
  BY Zenon DEF StaleWeight, ClaimWeight, Open
<1>10. (IF Open \/ target.executed = 0 THEN 1 ELSE 0)
         <= ClaimWeight(worker[w].todo, Closed, Open, target.executed)
  BY Typed, LeastClaim
<1>11. ~Closed => /\ StaleWeight(worker[w].todo, Closed, target.executed) = 1
                  /\ ClaimWeight(worker[w].todo, Closed, Open, target.executed) = 1
  BY ZenonT(30), <1>2 DEF StaleWeight, ClaimWeight, Admitted
<1>12. Closed => ~Open'
  BY ZenonT(30), <1>4 DEF Open
<1>13. target'.executed + StaleWeight(todo, Closed', target'.executed)
         + (IF Open' /\ ~Open THEN 1 ELSE 0) + respent
       <= target.executed + StaleWeight(worker[w].todo, Closed, target.executed) + respent'
  BY SMTT(30), <1>3, <1>4, <1>7, <1>9, <1>11, <1>12, Typed
<1>14. target'.executed + ClaimWeight(todo, Closed', Open', target'.executed) + respent
       <= target.executed + ClaimWeight(worker[w].todo, Closed, Open, target.executed) + respent'
  <2>1. ClaimWeight(todo, Closed', Open', target'.executed)
          = IF Open' \/ target.executed = 0 THEN 1 ELSE 0
    BY ZenonT(30), <1>3, <1>4, <1>7, <1>9
  <2> QED
    BY SMTT(30), <1>3, <1>9, <1>10, <1>11, <1>12, <2>1, Typed
<1> QED
  <2>1. Forward
    BY <1>3, Typed DEF Forward
  <2>2. RowFits
    BY <1>4, <1>6 DEF RowFits
  <2>3. TodoFits(todo)
    BY ZenonT(30), <1>4, <1>8 DEF TodoFits
  <2>4. Pays(w, todo)
    BY ZenonT(30), <1>13, <1>14 DEF Pays
  <2> QED
    BY ZenonT(30), <1>2, <1>8, <2>1, <2>2, <2>3, <2>4, StepKeeps

------------------------------------------------------------------------------
(* The steps outside a claim's pass. *)

LEMMA QuietCounts ==
    ASSUME TypeInv, CountInv, TypeInv', overrun' = overrun, respent' = respent, target' = target,
           StalePasses' \subseteq StalePasses,
           ClaimWeight(Turn', Closed', Open', target.executed)
             <= ClaimWeight(Turn, Closed, Open, target.executed)
    PROVE  CountInv'
<1> DEFINE e == target.executed
           c == ClaimWeight(Turn, Closed, Open, e)
           d == ClaimWeight(Turn', Closed', Open', e)
<1>1. PICK k \in Nat : Room(StalePasses, k) /\ e + k + c <= 1 + overrun + respent
  BY Zenon DEF CountInv
<1>2. Room(StalePasses', k)
  BY Zenon, <1>1, Fewer
<1>3. c \in Nat /\ d \in Nat /\ e \in Nat /\ overrun \in Nat /\ respent \in Nat
  BY DEF TypeInv, ClaimWeight
<1>4. d <= c
  OBVIOUS
<1>5. e + k + d <= 1 + overrun + respent
  <2> HIDE DEF c, d, e
  <2> QED
    BY <1>1, <1>3, <1>4
<1> QED
  BY Zenon, <1>2, <1>5 DEF CountInv

\* A step that changes neither a pass nor the entry, and opens the row to no claim.
LEMMA StillStep ==
    ASSUME Inv, UNCHANGED <<class, exempt, entry, worker, target, overrun, respent>>,
           winding' \in BOOLEAN, winding => winding', effect' = effect,
           row' \in Rows, row'.status = "None" => row.status = "None",
           row.status # "None" => row' = row, row'.status \notin {"Dispatched", "Failed"} \/ row' = row,
           Open' => Open
    PROVE  Inv'
<1>1. Closed => Closed'
  BY DEF Closed
<1>2. /\ TypeInv /\ RowInv /\ CountInv /\ \A v \in Workers : PassInv(v)
  BY Zenon DEF Inv
<1>3. TypeInv'
  BY <1>2 DEF TypeInv
<1>4. RowInv'
  BY ZenonT(30), <1>1, <1>2 DEF RowInv
<1>5. \A v \in Workers : PassInv(v)'
  BY ZenonT(30), <1>1, <1>2, OthersKeep
<1>6. Closed' \in BOOLEAN /\ Open' \in BOOLEAN
  BY ZenonT(30) DEF Closed, Open
<1>7. \A todo : /\ StaleWeight(todo, Closed', target.executed)
                      <= StaleWeight(todo, Closed, target.executed)
                /\ ClaimWeight(todo, Closed', Open', target.executed)
                     <= ClaimWeight(todo, Closed, Open, target.executed)
                          + (IF Open' /\ ~Open THEN 1 ELSE 0)
  BY SMTT(30), <1>1, <1>6, Typed, WeightsShrink
<1>8. \A todo : /\ StaleWeight(todo, Closed, target.executed) \in {0, 1}
                /\ StaleWeight(todo, Closed', target.executed) \in {0, 1}
                /\ ClaimWeight(todo, Closed, Open, target.executed) \in {0, 1, 2}
  BY ZenonT(30), <1>6, Typed, Weights
<1>9. StalePasses' \subseteq StalePasses
  <2> SUFFICES ASSUME NEW v \in StalePasses' PROVE v \in StalePasses
    BY SMTT(30)
  <2>1. /\ v \in Workers /\ worker[v].holds /\ ~IsCurrentClaim(v)
        /\ StaleWeight(worker[v].todo, Closed', target.executed) = 1
    BY ZenonT(30) DEF StalePasses, IsCurrentClaim
  <2>2. StaleWeight(worker[v].todo, Closed, target.executed) = 1
    BY SMTT(30), <1>7, <1>8, <2>1
  <2> QED
    BY ZenonT(30), <2>1, <2>2 DEF StalePasses
<1>10. Turn' = Turn
  BY Zenon DEF Turn, IsLive
<1>11. ClaimWeight(Turn', Closed', Open', target.executed)
         <= ClaimWeight(Turn, Closed, Open, target.executed)
  BY SMTT(30), <1>7, <1>8, <1>10
<1>12. CountInv'
  BY ZenonT(30), <1>2, <1>3, <1>9, <1>11, QuietCounts
<1> QED
  BY ZenonT(30), <1>3, <1>4, <1>5, <1>12 DEF Inv

LEMMA RunSteps ==
    ASSUME Inv, WindDown \/ FlushRead \/ FlushWrite
    PROVE  Inv'
<1>1. winding \in BOOLEAN /\ row \in Rows
  BY DEF Inv, TypeInv
<1>2. CASE WindDown
  <2>1. /\ UNCHANGED <<class, exempt, effect, row, entry, worker, target, overrun, respent>>
        /\ winding' = TRUE
    BY Zenon, <1>2 DEF WindDown, history
  <2>2. Open' => Open
    BY <2>1 DEF Open, Closed
  <2> QED
    BY ZenonT(30), <1>1, <2>1, <2>2, StillStep
<1>3. CASE FlushRead
  <2>1. UNCHANGED <<class, exempt, winding, effect, row, entry, worker, target, overrun, respent>>
    BY Zenon, <1>3 DEF FlushRead, history
  <2>2. Open' => Open
    BY SMTT(30), <2>1 DEF Open, Closed
  <2> QED
    BY ZenonT(30), <1>1, <2>1, <2>2, StillStep
<1>4. CASE FlushWrite
  <2>1. /\ UNCHANGED <<class, exempt, winding, effect, entry, worker, target, overrun, respent>>
        /\ row' = IF row.status = "None" THEN [status |-> "Pending", attempts |-> 0] ELSE row
    BY Zenon, <1>4 DEF FlushWrite, history, ScheduleOutbox
  <2>2. /\ row' \in Rows /\ row'.status # "None"
        /\ row.status # "None" => row' = row
        /\ row'.status \notin {"Dispatched", "Failed"} \/ row' = row
        /\ row'.status \in Admits => row.status \in Admits
    BY Zenon, <1>1, <2>1 DEF Rows, Statuses, Admits
  <2>3. Open' => Open
    BY <2>1, <2>2 DEF Open, Closed
  <2> QED
    BY ZenonT(30), <1>1, <2>1, <2>2, <2>3, StillStep
<1> QED
  BY ZenonT(30), <1>2, <1>3, <1>4

\* The entry changes while no pass is under a live claim.
LEMMA EntryStep ==
    ASSUME Inv, ~IsLive, UNCHANGED <<run, effect, row, worker, target, overrun, respent>>,
           entry' = [status |-> entry'.status, holder |-> entry'.holder, live |-> entry'.live],
           entry'.status # "Claimed" \/ (~entry'.live /\ entry'.holder \in Workers),
           row.status # "None"
    PROVE  Inv'
<1>1. /\ class' = class /\ exempt' = exempt /\ winding' = winding /\ effect' = effect /\ row' = row
      /\ worker' = worker /\ target' = target /\ overrun' = overrun /\ respent' = respent
  BY ZenonT(30) DEF run
<1>2. Closed' = Closed /\ Open' = Open
  BY Zenon, <1>1 DEF Closed, Open
<1>3. TypeInv /\ RowInv /\ CountInv /\ \A v \in Workers : PassInv(v)
  BY DEF Inv
<1>4. TypeInv'
  BY ZenonT(30), <1>1, <1>3 DEF TypeInv
<1>5. RowInv'
  BY ZenonT(30), <1>1, <1>2, <1>3 DEF RowInv
<1>6. \A v \in Workers : PassInv(v)'
  BY ZenonT(30), <1>1, <1>2, <1>3, OthersKeep
<1>7. Turn = <<>> /\ Turn' = <<>>
  BY DEF Turn, IsLive
<1>8. StalePasses' \subseteq StalePasses
  <2>1. \A v \in Workers : ~IsCurrentClaim(v)
    BY ZenonT(30), <1>3, TurnIsHolders
  <2> QED
    BY ZenonT(30), <1>1, <1>2, <2>1 DEF StalePasses
<1>9. ClaimWeight(Turn', Closed', Open', target.executed)
         <= ClaimWeight(Turn, Closed, Open, target.executed)
  <2>1. ClaimWeight(Turn, Closed, Open, target.executed) \in {0, 1, 2}
    BY ZenonT(30), Typed, Weights
  <2> QED
    BY SMTT(30), <1>2, <1>7, <2>1
<1>10. CountInv'
  BY ZenonT(30), <1>1, <1>3, <1>4, <1>8, <1>9, QuietCounts
<1> QED
  BY ZenonT(30), <1>4, <1>5, <1>6, <1>10 DEF Inv

LEMMA FleetSteps ==
    ASSUME Inv, Register \/ Lapse
    PROVE  Inv'
<1>1. TypeInv
  BY DEF Inv
<1>2. CASE Register
  <2>1. /\ row.status # "None" /\ (entry.status = "None" \/ ~entry.live)
        /\ entry' = [NoEntry EXCEPT !.status = "Pending"]
        /\ UNCHANGED <<run, effect, row, worker, target, overrun, respent>>
    BY <1>2 DEF Register, history, run, IsDue
  <2>2. ~IsLive
    BY <2>1 DEF IsLive
  <2>3. entry'.status = "Pending"
    BY <2>1 DEF NoEntry
  <2> QED
    <3>1. entry' = [status |-> entry'.status, holder |-> entry'.holder, live |-> entry'.live]
      BY ZenonT(30), <2>1 DEF NoEntry
    <3> QED
      BY ZenonT(30), <2>1, <2>2, <2>3, <3>1, EntryStep
<1>3. CASE Lapse
  <2>1. /\ entry.status = "Claimed" /\ ~worker[entry.holder].holds
        /\ entry' = [entry EXCEPT !.live = FALSE]
        /\ UNCHANGED <<run, effect, row, worker, target, overrun, respent>>
    BY <1>3 DEF Lapse, history, run
  <2>2. ~IsLive
    BY <2>1 DEF IsLive
  <2>3. row.status # "None" /\ entry.holder \in Workers
    BY <2>1 DEF Inv, RowInv, TypeInv
  <2>4. ~entry'.live /\ entry'.holder = entry.holder
    BY <1>1, <2>1 DEF TypeInv
  <2> QED
    <3>1. entry' = [status |-> entry'.status, holder |-> entry'.holder, live |-> entry'.live]
      BY ZenonT(30), <1>1, <2>1 DEF TypeInv
    <3> QED
      BY ZenonT(30), <2>1, <2>2, <2>3, <2>4, <3>1, EntryStep
<1> QED
  BY <1>2, <1>3

LEMMA OverrunStep ==
    ASSUME Inv, Overrun
    PROVE  Inv'
<1>1. /\ IsLive /\ entry.status = "Claimed" /\ entry' = [entry EXCEPT !.live = FALSE]
      /\ overrun' = overrun + 1
      /\ UNCHANGED <<run, effect, row, worker, target, respent>>
  BY DEF Overrun, IsLive, run
<1>2. /\ class' = class /\ exempt' = exempt /\ winding' = winding /\ effect' = effect /\ row' = row
      /\ worker' = worker /\ target' = target /\ respent' = respent
  BY Zenon, <1>1 DEF run
<1>3. Closed' = Closed /\ Open' = Open
  BY <1>2 DEF Closed, Open
<1>4. TypeInv /\ RowInv /\ CountInv /\ \A v \in Workers : PassInv(v)
  BY DEF Inv
<1>5. entry'.live = FALSE /\ entry'.holder = entry.holder /\ entry'.status = entry.status
  BY <1>1, <1>4 DEF TypeInv
<1>6. TypeInv'
  <2>1. entry' = [status |-> entry'.status, holder |-> entry'.holder, live |-> entry'.live]
    BY ZenonT(30), <1>1, <1>4 DEF TypeInv
  <2>2. entry.holder \in Workers /\ overrun + 1 \in Nat
    BY <1>1, <1>4 DEF TypeInv
  <2> QED
    BY ZenonT(30), <1>1, <1>2, <1>4, <1>5, <2>1, <2>2 DEF TypeInv
<1>7. RowInv'
  BY ZenonT(30), <1>1, <1>2, <1>3, <1>4, <1>5 DEF RowInv
<1>8. \A v \in Workers : PassInv(v)'
  BY ZenonT(30), <1>2, <1>3, <1>4, OthersKeep
<1>9. Turn = worker[entry.holder].todo /\ Turn' = <<>>
  BY ZenonT(30), <1>1, <1>5 DEF Turn, IsLive
<1>10. StalePasses' \subseteq StalePasses \cup {entry.holder}
  BY ZenonT(30), <1>2, <1>3 DEF StalePasses, IsCurrentClaim
<1>11. PICK k \in Nat :
         /\ Room(StalePasses, k)
         /\ target.executed + k + ClaimWeight(Turn, Closed, Open, target.executed)
              <= 1 + overrun + respent
  BY Zenon, <1>4 DEF CountInv
<1>12. /\ ClaimWeight(Turn', Closed, Open, target.executed) = IF Open \/ target.executed = 0 THEN 1 ELSE 0
       /\ (IF Open \/ target.executed = 0 THEN 1 ELSE 0)
            <= ClaimWeight(Turn, Closed, Open, target.executed)
       /\ ClaimWeight(Turn, Closed, Open, target.executed) \in Nat
  <2>1. Op(Turn') = "none"
    BY Zenon, <1>9 DEF Op
  <2>2. ClaimWeight(Turn', Closed, Open, target.executed) = IF Open \/ target.executed = 0 THEN 1 ELSE 0
    BY SMTT(30), <2>1 DEF StaleWeight, ClaimWeight, Admitted, Started, Asking
  <2> QED
    BY SMTT(30), <2>2, Typed, LeastClaim, Weights
<1>13. \E m \in Nat : Room(StalePasses', m) /\ m <= k + 1
  <2>1. \E m \in Nat :
          /\ Room(StalePasses', m) /\ m <= k + 1
          /\ entry.holder \in StalePasses \/ entry.holder \notin StalePasses' => m <= k
          /\ entry.holder \in StalePasses /\ entry.holder \notin StalePasses' => m + 1 <= k
    BY Zenon, <1>10, <1>11, OneElement
  <2> QED
    BY Zenon, <2>1
<1>14. \E m \in Nat :
         /\ Room(StalePasses', m)
         /\ target.executed + m + ClaimWeight(Turn', Closed, Open, target.executed)
              <= 1 + (overrun + 1) + respent
  <2>1. PICK m \in Nat : Room(StalePasses', m) /\ m <= k + 1
    BY Zenon, <1>13
  <2> DEFINE c == ClaimWeight(Turn, Closed, Open, target.executed)
             d == ClaimWeight(Turn', Closed, Open, target.executed)
             e == target.executed
  <2>2. c \in Nat /\ d \in Nat /\ d <= c /\ e \in Nat /\ overrun \in Nat /\ respent \in Nat
    BY <1>12, Typed
  <2>3. e + k + c <= 1 + overrun + respent
    BY Zenon, <1>11
  <2>4. e + m + d <= 1 + (overrun + 1) + respent
    <3> HIDE DEF c, d, e
    <3> QED
      BY <2>1, <2>2, <2>3
  <2> QED
    BY Zenon, <2>1, <2>4
<1>15. CountInv'
  BY ZenonT(30), <1>1, <1>2, <1>3, <1>14 DEF CountInv
<1> QED
  BY ZenonT(30), <1>6, <1>7, <1>8, <1>15 DEF Inv

LEMMA ClaimStep ==
    ASSUME Inv, NEW w \in Workers, ClaimDue(w)
    PROVE  Inv'
<1> DEFINE todo == <<Do("read", "none")>>
           p == [todo |-> todo, holds |-> TRUE]
<1>1. /\ IsClaimable /\ entry' = [status |-> "Claimed", holder |-> w, live |-> TRUE]
      /\ worker' = [worker EXCEPT ![w] = p]
      /\ UNCHANGED <<run, effect, row, target, overrun, respent>>
  BY Zenon DEF ClaimDue, history, run
<1>2. /\ class' = class /\ exempt' = exempt /\ winding' = winding /\ effect' = effect /\ row' = row
      /\ target' = target /\ overrun' = overrun /\ respent' = respent
  BY Zenon, <1>1 DEF run
<1>3. Closed' = Closed /\ Open' = Open
  BY Zenon, <1>2 DEF Closed, Open
<1>4. /\ TypeInv /\ RowInv /\ CountInv /\ \A v \in Workers : PassInv(v)
      /\ worker \in [Workers -> [todo : Seq(Steps), holds : BOOLEAN]]
  BY Zenon DEF Inv, TypeInv
<1>5. /\ p \in [todo : Seq(Steps), holds : BOOLEAN] /\ p.todo = todo /\ p.holds = TRUE
  <2>1. todo \in Seq(Steps)
    BY SMTT(30) DEF Do, Steps
  <2> HIDE DEF todo
  <2> QED
    BY Zenon, <2>1
<1>6. Op(todo) = "read" /\ Shape(todo, Closed) /\ todo # <<>>
  BY SMTT(30) DEF Op, Do, Shape
<1>7. ~IsLive /\ row.status # "None"
  BY ZenonT(30), <1>1, <1>4 DEF IsClaimable, IsLive, RowInv
<1> HIDE DEF todo, p
<1>8. worker'[w] = p /\ \A v \in Workers \ {w} : worker'[v] = worker[v]
  BY ZenonT(30), <1>1, <1>4
<1>9. TypeInv'
  <2>1. worker' \in [Workers -> [todo : Seq(Steps), holds : BOOLEAN]]
    BY ZenonT(30), <1>1, <1>4, <1>5
  <2> QED
    BY ZenonT(30), <1>1, <1>2, <1>4, <2>1 DEF TypeInv
<1>10. RowInv'
  BY ZenonT(30), <1>2, <1>3, <1>4, <1>7 DEF RowInv
<1>11. \A v \in Workers : PassInv(v)'
  <2> SUFFICES ASSUME NEW v \in Workers PROVE PassInv(v)'
    BY SMTT(30)
  <2>1. CASE v # w
    BY ZenonT(30), <1>2, <1>3, <1>4, <1>8, <2>1, OthersKeep
  <2>2. CASE v = w
    BY ZenonT(30), <1>2, <1>3, <1>5, <1>6, <1>7, <1>8, <2>2 DEF PassInv
  <2> QED
    BY <2>1, <2>2
<1>12. Turn = <<>> /\ Turn' = todo
  BY ZenonT(30), <1>1, <1>5, <1>7, <1>8 DEF Turn, IsLive
<1>13. StalePasses' \subseteq StalePasses
  <2> SUFFICES ASSUME NEW v \in StalePasses' PROVE v \in StalePasses
    BY Zenon
  <2>1. /\ v \in Workers /\ worker'[v].holds /\ ~IsCurrentClaim(v)'
        /\ StaleWeight(worker'[v].todo, Closed', target'.executed) = 1
    BY SMTT(30) DEF StalePasses
  <2>2. v # w
    BY ZenonT(30), <1>1, <1>5, <1>8, <2>1 DEF IsCurrentClaim
  <2>3. ~IsCurrentClaim(v)
    BY ZenonT(30), <1>4, <1>7, TurnIsHolders, <2>1
  <2> QED
    BY ZenonT(30), <1>2, <1>3, <1>8, <2>1, <2>2, <2>3 DEF StalePasses
<1>14. ClaimWeight(Turn', Closed', Open', target.executed)
          <= ClaimWeight(Turn, Closed, Open, target.executed)
  <2>1. Op(Turn) = "none" /\ Op(Turn') = "read"
    BY ZenonT(30), <1>6, <1>12 DEF Op
  <2> QED
    BY <1>3, <2>1 DEF ClaimWeight, Admitted, Started
<1>15. CountInv'
  BY ZenonT(30), <1>2, <1>4, <1>9, <1>13, <1>14, QuietCounts
<1> QED
  BY ZenonT(30), <1>9, <1>10, <1>11, <1>15 DEF Inv

\* A fleet transition of the claim's holder, which ends its claim.
LEMMA FleetStep ==
    ASSUME Inv, Guarded, NEW w \in Workers, WriteFleet(w)
    PROVE  Inv'
<1>1. Doing(w, "fleet") /\ UNCHANGED <<run, effect, row, target, overrun, respent>>
  BY SMTT(30) DEF WriteFleet, history
<1> DEFINE todo == Tail(worker[w].todo)
           p == With(worker[w], todo)
<1>2. /\ worker[w].holds /\ row.status # "None" /\ Op(worker[w].todo) = "fleet"
      /\ worker[w].todo \in Seq(Steps) /\ worker[w].todo # <<>> /\ Shape(worker[w].todo, Closed)
      /\ todo \in Seq(Steps) /\ Now(w) \in Steps
  BY ZenonT(30), <1>1, NowFacts
<1>3. CASE ~IsCurrentClaim(w)
  <2>1. entry' = entry /\ Then(w, <<>>)
    BY <1>3 DEF WriteFleet
  <2> QED
    BY ZenonT(30), <1>1, <1>2, <2>1, AbortStep
<1>4. CASE IsCurrentClaim(w)
  <2>1. /\ entry' = [NoEntry EXCEPT !.status = Now(w).arg] /\ worker' = [worker EXCEPT ![w] = p]
    BY Zenon, <1>4 DEF WriteFleet, Then
  <2>2. /\ class' = class /\ exempt' = exempt /\ winding' = winding /\ effect' = effect /\ row' = row
        /\ target' = target /\ overrun' = overrun /\ respent' = respent
    BY Zenon, <1>1 DEF run
  <2>3. Closed' = Closed /\ Open' = Open
    BY Zenon, <2>2 DEF Closed, Open
  <2>4. /\ TypeInv /\ RowInv /\ CountInv /\ \A v \in Workers : PassInv(v)
        /\ worker \in [Workers -> [todo : Seq(Steps), holds : BOOLEAN]]
    BY DEF Inv, TypeInv
  <2>5. /\ entry'.status # "Claimed"
        /\ entry' = [status |-> entry'.status, holder |-> entry'.holder, live |-> entry'.live]
    <3>1. Now(w).arg # "Claimed"
      BY ZenonT(30), <1>2 DEF Steps, Statuses
    <3> QED
      BY ZenonT(30), <2>1, <3>1 DEF NoEntry
  <2>6. Harmless(todo, Closed)
    <3>1. Harmless(worker[w].todo, Closed)
      BY ZenonT(30), <1>2, ShapeByOp
    <3> QED
      BY <1>2, <3>1, HarmlessTail
  <2> HIDE DEF todo
  <2>7. /\ p \in [todo : Seq(Steps), holds : BOOLEAN] /\ p.todo = todo
        /\ p.holds <=> todo # <<>>
    <3>1. CASE todo = <<>>
      BY <3>1 DEF With, Idle
    <3>2. CASE todo # <<>>
      <4>1. p = [worker[w] EXCEPT !.todo = todo] /\ worker[w] \in [todo : Seq(Steps), holds : BOOLEAN]
        BY ZenonT(30), <2>4, <3>2 DEF With
      <4> QED
        BY ZenonT(30), <1>2, <3>2, <4>1
    <3> QED
      BY ZenonT(30), <3>1, <3>2
  <2> HIDE DEF p
  <2>8. worker'[w] = p /\ \A v \in Workers \ {w} : worker'[v] = worker[v]
    BY ZenonT(30), <2>1, <2>4
  <2>9. Op(todo) \in {"none", "fleet", "deliver", "row"} /\ StaleWeight(todo, Closed, target.executed) = 0
    <3>1. Op(todo) \in {"none", "fleet", "deliver"} \/ (Op(todo) = "row" /\ Closed = TRUE)
      BY ZenonT(30), <1>2, <2>6, Typed, HarmlessIsLight
    <3>2. StaleWeight(todo, Closed, target.executed) = 0
      BY <3>1 DEF StaleWeight, Admitted, Started, Asking
    <3> QED
      BY Zenon, <3>1, <3>2
  <2>10. TypeInv'
    <3>1. worker' \in [Workers -> [todo : Seq(Steps), holds : BOOLEAN]]
      BY <2>1, <2>4, <2>7
    <3> QED
      BY <2>2, <2>4, <2>5, <3>1 DEF TypeInv
  <2>11. RowInv'
    BY <1>2, <2>2, <2>3, <2>4 DEF RowInv
  <2>12. \A v \in Workers : PassInv(v)'
    <3> SUFFICES ASSUME NEW v \in Workers PROVE PassInv(v)'
      BY SMTT(30)
    <3>1. CASE v # w
      BY ZenonT(30), <2>2, <2>3, <2>4, <2>8, <3>1, OthersKeep
    <3>2. CASE v = w
      <4>1. Shape(todo, Closed)
        BY <2>6 DEF Shape
      <4> QED
        BY ZenonT(30), <1>2, <2>2, <2>3, <2>7, <2>8, <2>9, <3>2, <4>1 DEF PassInv, Fencing
    <3> QED
      BY <3>1, <3>2
  <2>13. Turn' = <<>>
    BY ZenonT(30), <2>5 DEF Turn, IsLive
  <2>14. StalePasses' \subseteq StalePasses
    <3> SUFFICES ASSUME NEW v \in StalePasses' PROVE v \in StalePasses
      OBVIOUS
    <3>1. /\ v \in Workers /\ worker'[v].holds
          /\ StaleWeight(worker'[v].todo, Closed', target'.executed) = 1
      BY ZenonT(30) DEF StalePasses
    <3>2. v # w
      BY SMTT(30), <2>2, <2>3, <2>7, <2>8, <2>9, <3>1
    <3>3. ~IsCurrentClaim(v)
      BY ZenonT(30), <1>4, <3>2 DEF IsCurrentClaim
    <3> QED
      BY ZenonT(30), <2>2, <2>3, <2>8, <3>1, <3>2, <3>3 DEF StalePasses
  <2>15. ClaimWeight(Turn', Closed', Open', target.executed)
           <= ClaimWeight(Turn, Closed, Open, target.executed)
    <3>1. Op(Turn') = "none"
      BY ZenonT(30), <2>13 DEF Op
    <3>2. ClaimWeight(Turn', Closed, Open, target.executed) = IF Open \/ target.executed = 0 THEN 1 ELSE 0
      BY ZenonT(30), <3>1 DEF StaleWeight, ClaimWeight, Admitted, Started, Asking
    <3> QED
      BY ZenonT(30), <2>3, <3>2, Typed, LeastClaim
  <2>16. CountInv'
    BY ZenonT(30), <2>2, <2>4, <2>10, <2>14, <2>15, QuietCounts
  <2> QED
    BY ZenonT(30), <2>10, <2>11, <2>12, <2>16 DEF Inv
<1> QED
  BY <1>3, <1>4

\* A step of the fence, or the end of its pass.
LEMMA FenceStep ==
    ASSUME Inv, NEW w \in Workers, ~worker[w].holds, NEW todo \in Seq(Steps), Then(w, todo),
           Fencing(todo, TRUE), winding, ~exempt,
           UNCHANGED <<run, entry, target, overrun, respent>>,
           row' \in Rows, row'.status = "None" => row.status = "None",
           row.status # "None" => row'.status # "None",
           row'.status = "Failed" => row.status = "Failed"
    PROVE  Inv'
<1>1. /\ class' = class /\ exempt' = exempt /\ winding' = winding /\ entry' = entry
      /\ target' = target /\ overrun' = overrun /\ respent' = respent
  BY DEF run
<1>2. Closed = TRUE /\ Closed' = TRUE /\ Open = FALSE /\ Open' = FALSE
  BY ZenonT(30), <1>1 DEF Closed, Open
<1>3. /\ TypeInv /\ RowInv /\ CountInv /\ \A v \in Workers : PassInv(v)
      /\ worker \in [Workers -> [todo : Seq(Steps), holds : BOOLEAN]]
  BY Zenon DEF Inv, TypeInv
<1> DEFINE p == With(worker[w], todo)
<1>4. worker' = [worker EXCEPT ![w] = p]
  BY SMTT(30) DEF Then
<1>5. /\ p \in [todo : Seq(Steps), holds : BOOLEAN] /\ p.todo = todo /\ p.holds = FALSE
  <2>1. CASE todo = <<>>
    BY <2>1 DEF With, Idle
  <2>2. CASE todo # <<>>
    <3>1. p = [worker[w] EXCEPT !.todo = todo] /\ worker[w] \in [todo : Seq(Steps), holds : BOOLEAN]
      BY ZenonT(30), <1>3, <2>2 DEF With
    <3> QED
      BY ZenonT(30), <2>2, <3>1
  <2> QED
    BY ZenonT(30), <2>1, <2>2
<1> HIDE DEF p
<1>6. worker'[w] = p /\ \A v \in Workers \ {w} : worker'[v] = worker[v]
  BY ZenonT(30), <1>3, <1>4
<1>7. TypeInv'
  <2>1. worker' \in [Workers -> [todo : Seq(Steps), holds : BOOLEAN]]
    BY ZenonT(30), <1>3, <1>4, <1>5
  <2> QED
    BY ZenonT(30), <1>1, <1>3, <2>1 DEF TypeInv
<1>8. RowInv'
  BY ZenonT(30), <1>1, <1>2, <1>3 DEF RowInv
<1>9. \A v \in Workers : PassInv(v)'
  <2> SUFFICES ASSUME NEW v \in Workers PROVE PassInv(v)'
    BY SMTT(30)
  <2>1. CASE v # w
    BY ZenonT(30), <1>1, <1>2, <1>3, <1>6, <2>1, OthersKeep
  <2>2. CASE v = w
    BY ZenonT(30), <1>1, <1>5, <1>6, <2>2 DEF PassInv, Fencing
  <2> QED
    BY ZenonT(30), <2>1, <2>2
<1>10. Turn' = Turn
  <2>1. CASE entry.status = "Claimed" /\ entry.holder = w
    BY ZenonT(30), <1>1, <1>5, <1>6, <2>1 DEF Turn, IsLive
  <2>2. CASE entry.status = "Claimed" /\ entry.holder # w
    <3>1. worker'[entry.holder] = worker[entry.holder]
      BY ZenonT(30), <1>3, <1>6, <2>2 DEF TypeInv
    <3> QED
      BY ZenonT(30), <1>1, <3>1 DEF Turn, IsLive
  <2>3. CASE entry.status # "Claimed"
    BY ZenonT(30), <1>1, <2>3 DEF Turn, IsLive
  <2> QED
    BY ZenonT(30), <2>1, <2>2, <2>3
<1>11. StalePasses' \subseteq StalePasses
  <2> SUFFICES ASSUME NEW v \in StalePasses' PROVE v \in StalePasses
    BY ZenonT(30)
  <2>1. /\ v \in Workers /\ worker'[v].holds /\ ~IsCurrentClaim(v)'
        /\ StaleWeight(worker'[v].todo, Closed', target'.executed) = 1
    BY DEF StalePasses
  <2>2. worker'[v] = worker[v]
    BY ZenonT(30), <1>5, <1>6, <2>1
  <2>3. ~IsCurrentClaim(v)
    BY ZenonT(30), <1>1, <2>1, <2>2 DEF IsCurrentClaim
  <2> QED
    BY ZenonT(30), <1>1, <1>2, <2>1, <2>2, <2>3 DEF StalePasses
<1>12. ClaimWeight(Turn', Closed', Open', target.executed)
          <= ClaimWeight(Turn, Closed, Open, target.executed)
  <2>1. ClaimWeight(Turn, Closed, Open, target.executed) \in {0, 1, 2}
    BY ZenonT(30), Typed, Weights
  <2> QED
    <3>1. ClaimWeight(Turn', Closed', Open', target.executed)
             = ClaimWeight(Turn, Closed, Open, target.executed)
      BY Zenon, <1>2, <1>10
    <3> QED
      BY <2>1, <3>1
<1>13. CountInv'
  BY ZenonT(30), <1>1, <1>3, <1>7, <1>11, <1>12, QuietCounts
<1> QED
  BY ZenonT(30), <1>7, <1>8, <1>9, <1>13 DEF Inv

LEMMA FenceSteps ==
    ASSUME Inv, NEW w \in Workers, ~worker[w].holds,
           WriteRow(w) \/ DeliverOutcome(w) \/ FenceRun(w) \/ Abort(w)
    PROVE  Inv'
<1>1. /\ row \in Rows /\ PassInv(w)
  BY DEF Inv, TypeInv
<1>2. CASE FenceRun(w)
  <2>1. /\ winding /\ ~exempt /\ UNCHANGED <<run, row, entry, target, overrun, respent>>
        /\ Then(w, FenceTombstone) \/ Then(w, <<Do("deliver", "Cancelled")>>)
    BY Zenon, <1>2 DEF FenceRun, history
  <2>2. FenceTombstone \in Seq(Steps) /\ Fencing(FenceTombstone, TRUE)
    BY DEF FenceTombstone, Do, Steps, Statuses, Fencing
  <2>3. <<Do("deliver", "Cancelled")>> \in Seq(Steps) /\ Fencing(<<Do("deliver", "Cancelled")>>, TRUE)
    BY DEF Do, Steps, Statuses, Fencing
  <2> QED
    BY ZenonT(30), <1>1, <2>1, <2>2, <2>3, FenceStep
<1>3. CASE Abort(w)
  <2>1. /\ ~IsIdle(w) /\ Then(w, <<>>) /\ UNCHANGED <<run, row, entry, target, overrun, respent>>
    BY <1>3 DEF Abort
  <2>2. winding /\ ~exempt
    BY ZenonT(30), <1>1, <2>1 DEF PassInv, Fencing, IsIdle
  <2>3. <<>> \in Seq(Steps) /\ Fencing(<<>>, TRUE)
    BY SMTT(30) DEF Fencing
  <2> QED
    BY ZenonT(30), <1>1, <2>1, <2>2, <2>3, FenceStep
<1>4. CASE WriteRow(w) \/ DeliverOutcome(w)
  <2> DEFINE old == worker[w].todo
             todo == Tail(old)
  <2>1. /\ ~IsIdle(w) /\ Then(w, todo) /\ UNCHANGED <<run, entry, target, overrun, respent>>
    BY SMTT(30), <1>4 DEF WriteRow, DeliverOutcome, Doing, history
  <2>2. /\ old \in Seq(Steps) /\ old # <<>> /\ Now(w) = old[1] /\ Len(old) \in Nat \ {0}
        /\ todo \in Seq(Steps)
    BY ZenonT(30), <1>4, NowFacts DEF WriteRow, DeliverOutcome
  <2>3. /\ winding /\ ~exempt
        /\ \A i \in 1..Len(old) :
             \/ old[i].op = "deliver"
             \/ old[i].op = "row" /\ old[i].arg \in {"Scheduled", "Cancelled"}
    <3>1. Fencing(old, winding /\ ~exempt)
      BY ZenonT(30), <1>1 DEF PassInv
    <3> HIDE DEF old
    <3> QED
      BY ZenonT(30), <2>2, <3>1 DEF Fencing
  <2>4. Fencing(todo, TRUE)
    <3>1. \A i \in 1..Len(todo) : todo[i] = old[i + 1] /\ i + 1 \in 1..Len(old)
      BY SMTT(30), <2>2
    <3> QED
      BY ZenonT(30), <2>3, <3>1 DEF Fencing
  <2>5. /\ row' \in Rows /\ (row'.status = "None" => row.status = "None")
        /\ row.status # "None" => row'.status # "None"
        /\ row'.status = "Failed" => row.status = "Failed"
    <3>1. CASE DeliverOutcome(w)
      BY ZenonT(30), <1>1, <3>1 DEF DeliverOutcome
    <3>2. CASE WriteRow(w)
      <4>1. row' = RowWrite(row, Now(w).arg) /\ Now(w).op = "row"
        BY ZenonT(30), <3>2 DEF WriteRow, Doing
      <4>2. Now(w).arg \in {"Scheduled", "Cancelled"}
        <5> HIDE DEF old
        <5>1. 1 \in 1..Len(old)
          BY <2>2
        <5>2. "row" # "deliver"
          OBVIOUS
        <5> QED
          BY Zenon, <2>2, <2>3, <4>1, <5>1, <5>2
      <4>3. CASE Now(w).arg = "Scheduled"
        <5>1. row' = ScheduleOutbox(row)
          BY ZenonT(30), <4>1, <4>3 DEF RowWrite
        <5> QED
          BY ZenonT(30), <1>1, <5>1 DEF ScheduleOutbox, Rows, Statuses
      <4>4. CASE Now(w).arg = "Cancelled"
        <5>1. row' = RecordCancelled(row)
          BY Zenon, <4>1, <4>4 DEF RowWrite
        <5> QED
          BY ZenonT(30), <1>1, <5>1 DEF RecordCancelled, IsCancellable, Rows, Statuses
      <4> QED
        BY ZenonT(30), <4>2, <4>3, <4>4
    <3> QED
      BY ZenonT(30), <1>4, <3>1, <3>2
  <2> HIDE DEF todo
  <2> QED
    BY ZenonT(30), <1>1, <2>1, <2>2, <2>3, <2>4, <2>5, FenceStep
<1> QED
  BY ZenonT(30), <1>2, <1>3, <1>4

------------------------------------------------------------------------------
(* The theorems. *)

LEMMA InitHolds ==
    ASSUME Init
    PROVE  Inv
<1>1. /\ worker = [w \in Workers |-> Idle] /\ row = [status |-> "None", attempts |-> 0]
      /\ entry = NoEntry /\ target = [calls |-> 0, executed |-> 0] /\ overrun = 0 /\ respent = 0
      /\ winding = FALSE /\ exempt \in BOOLEAN
  BY SMTT(30) DEF Init
<1>2. TypeInv
  <2>1. <<>> \in Seq(Steps)
    OBVIOUS
  <2> QED
    BY ZenonT(30), <1>1, <2>1 DEF TypeInv, Idle, NoEntry, Rows, Statuses
<1>3. RowInv
  BY Zenon, <1>1 DEF RowInv, NoEntry
<1>4. \A w \in Workers : PassInv(w)
  BY <1>1 DEF PassInv, Fencing, Idle
<1>5. StalePasses = {} /\ Turn = <<>>
  BY ZenonT(30), <1>1 DEF StalePasses, Turn, IsLive, Idle, NoEntry
<1>6. ClaimWeight(Turn, Closed, Open, target.executed) = 1
  <2>1. Op(Turn) = "none"
    BY ZenonT(30), <1>5 DEF Op
  <2> QED
    BY <1>1, <2>1 DEF ClaimWeight, Admitted, Started
<1>7. CountInv
  <2>1. Room({}, 0)
    <3>1. [u \in {} |-> u] \in [{} -> 1..0]
      BY Zenon
    <3> QED
      BY Zenon, <3>1 DEF Room
  <2>2. target.executed + 0 + 1 <= 1 + overrun + respent
    BY <1>1
  <2> QED
    BY Zenon, <1>5, <1>6, <2>1, <2>2 DEF CountInv
<1> QED
  BY ZenonT(30), <1>2, <1>3, <1>4, <1>7 DEF Inv

LEMMA PassKeeps ==
    ASSUME Inv, Guarded, NEW w \in Workers, Step(w)
    PROVE  Inv'
<1>1. CASE WriteRow(w) \/ DeliverOutcome(w)
  <2>1. CASE worker[w].holds
    BY ZenonT(30), <1>1, <2>1, RowStep, DeliverStep
  <2>2. CASE ~worker[w].holds
    BY <1>1, <2>2, FenceSteps
  <2> QED
    BY <2>1, <2>2
<1>2. CASE ReadRow(w) \/ Decide(w) \/ Authorize(w) \/ Start(w) \/ ResolveCredential(w)
  BY ZenonT(30), <1>2, ReadStep, DecideStep, AuthorizeStep, StartStep, CredentialStep
<1>3. CASE Invoke(w) \/ Reconcile(w) \/ RecordAttempt(w) \/ WriteFleet(w)
  BY ZenonT(30), <1>3, InvokeStep, ReconcileStep, RecordStep, FleetStep
<1> QED
  BY ZenonT(30), <1>1, <1>2, <1>3 DEF Step

LEMMA NextKeeps ==
    ASSUME Inv, Guarded, Next
    PROVE  Inv'
<1>1. CASE WindDown \/ FlushRead \/ FlushWrite
  BY <1>1, RunSteps
<1>2. CASE Register \/ Lapse
  BY <1>2, FleetSteps
<1>3. CASE Overrun
  BY <1>3, OverrunStep
<1>4. ASSUME NEW w \in Workers, ClaimDue(w)
      PROVE  Inv'
  BY <1>4, ClaimStep
<1>5. ASSUME NEW w \in Workers, Step(w)
      PROVE  Inv'
  BY <1>5, PassKeeps
<1>6. ASSUME NEW w \in Workers, FenceRun(w)
      PROVE  Inv'
  <2>1. ~worker[w].holds
    BY ZenonT(30), <1>6 DEF Inv, PassInv, FenceRun, IsIdle
  <2> QED
    BY ZenonT(30), <1>6, <2>1, FenceSteps
<1>7. ASSUME NEW w \in Workers, Abort(w)
      PROVE  Inv'
  <2>1. CASE worker[w].holds
    BY ZenonT(30), <1>7, <2>1, AbortStep DEF Abort
  <2>2. CASE ~worker[w].holds
    BY ZenonT(30), <1>7, <2>2, FenceSteps
  <2> QED
    BY ZenonT(30), <2>1, <2>2
<1> QED
  BY ZenonT(30), <1>1, <1>2, <1>3, <1>4, <1>5, <1>6, <1>7 DEF Next

\* The safety class of an intent is fixed.
LEMMA ClassFixed == Next => class' = class
BY DEF Next, WindDown, FlushRead, FlushWrite, Register, Lapse, Overrun, ClaimDue, Step, ReadRow,
       Decide, Authorize, Start, ResolveCredential, Invoke, Reconcile, RecordAttempt, WriteRow,
       WriteFleet, DeliverOutcome, FenceRun, Abort, run

LEMMA StutterKeeps ==
    ASSUME Inv, UNCHANGED vars
    PROVE  Inv'
<1>1. /\ class' = class /\ exempt' = exempt /\ effect' = effect /\ winding' = winding
      /\ row' = row /\ entry' = entry /\ worker' = worker /\ target' = target
      /\ overrun' = overrun /\ respent' = respent
  BY DEF vars
<1>2. Open' = Open
  BY ZenonT(30), <1>1 DEF Open, Closed
<1>3. winding \in BOOLEAN /\ row \in Rows
  BY DEF Inv, TypeInv
<1> QED
  BY ZenonT(30), <1>1, <1>2, <1>3, StillStep

\* For an effect that must not be repeated, the executions made, the passes that are
\* armed to make one and the grant of the row stay within the bound in every state.
THEOREM Inductive == Spec => []IInv
<1>1. Init => IInv
  BY InitHolds DEF IInv
<1>2. IInv /\ [Next]_vars => IInv'
  <2> SUFFICES ASSUME IInv, [Next]_vars, Guarded' PROVE Inv'
    BY DEF IInv
  <2>1. CASE Next
    <3>1. Guarded /\ Inv
      BY <2>1, ClassFixed DEF Guarded, IInv
    <3> QED
      BY ZenonT(30), <2>1, <3>1, NextKeeps
  <2>2. CASE UNCHANGED vars
    <3>1. Guarded /\ Inv
      BY <2>2 DEF Guarded, IInv, vars
    <3> QED
      BY ZenonT(30), <2>2, <3>1, StutterKeeps
  <2> QED
    BY <2>1, <2>2
<1> QED
  BY <1>1, <1>2, PTL DEF Spec

------------------------------------------------------------------------------
(* An effect that is invoked once only is never taken up with an attempt left. *)

\* A claim that found the row exhausted counts an attempt before its own.
Counted(todo) ==
    \A i \in 1..Len(todo) :
        todo[i].op = "decide" /\ todo[i].arg = "Exhausted" => todo[i].attempt > 1

SpentInv ==
    /\ row.status = "Exhausted" => row.attempts > 0
    /\ \A w \in Workers : Counted(worker[w].todo)
    /\ class = "NonIdempotent" => respent = 0

LEMMA CountedTail ==
    ASSUME NEW todo \in Seq(Steps), todo # <<>>, Counted(todo)
    PROVE  Tail(todo) \in Seq(Steps) /\ Counted(Tail(todo))
<1>1. /\ Tail(todo) \in Seq(Steps) /\ Len(Tail(todo)) = Len(todo) - 1 /\ Len(todo) \in Nat
      /\ \A i \in 1..Len(Tail(todo)) : Tail(todo)[i] = todo[i + 1] /\ i + 1 \in 1..Len(todo)
  OBVIOUS
<1> QED
  BY ZenonT(30), <1>1 DEF Counted

\* The lists of steps that contain no decision.
LEMMA HarmlessCounted ==
    ASSUME NEW todo, NEW closed, Harmless(todo, closed)
    PROVE  Counted(todo)
<1>1. "decide" \notin {"fleet", "deliver", "row"}
  OBVIOUS
<1> QED
  BY Zenon, <1>1 DEF Harmless, Counted

LEMMA SettlementsCounted ==
    ASSUME NEW todo \in {ParkIndeterminate, RefuseDispatch, Conclude("Succeeded"), Conclude("Failed"),
                         Exhaust, <<Do("fleet", "RetryScheduled")>>, ParkExhausted,
                         SettleAndTell, SettleTicketCancelled}
    PROVE  todo \in Seq(Steps) /\ Counted(todo)
<1>1. CASE todo \in {SettleAndTell, SettleTicketCancelled}
  BY ZenonT(30), <1>1, Withdrawal, HarmlessCounted
<1>2. CASE todo \notin {SettleAndTell, SettleTicketCancelled}
  BY ZenonT(30), <1>2, Settlements, HarmlessCounted
<1> QED
  BY Zenon, <1>1, <1>2

LEMMA SingleCounted ==
    ASSUME NEW op, NEW arg, op # "decide", <<Do(op, arg)>> \in Seq(Steps)
    PROVE  Counted(<<Do(op, arg)>>)
BY DEF Counted, Do

LEMMA AttemptCounted ==
    ASSUME NEW attempt \in Nat
    PROVE  AttemptInvocation(attempt) \in Seq(Steps) /\ Counted(AttemptInvocation(attempt))
<1>1. AttemptInvocation(attempt) \in Seq(Steps)
  BY Zenon, AttemptInvocationSteps
<1>2. Counted(AttemptInvocation(attempt))
  BY DEF Counted, AttemptInvocation, Do, DoAttempt
<1> QED
  BY Zenon, <1>1, <1>2

\* The failures and the reconciliations that a pass goes on to.
LEMMA AskingCounted ==
    /\ \A cause \in {"burn", "attempt", "definitive", "unknown"} :
          <<Do("fail", cause)>> \in Seq(Steps) /\ Counted(<<Do("fail", cause)>>)
    /\ \A arg \in {"live", "winding"} :
          <<Do("reconcile", arg)>> \in Seq(Steps) /\ Counted(<<Do("reconcile", arg)>>)
<1>1. "fail" # "decide" /\ "reconcile" # "decide"
  OBVIOUS
<1> QED
  BY ZenonT(30), <1>1, FailSteps, ReconcileSteps, SingleCounted

\* A step of worker w that decides nothing.
LEMMA SpentStep ==
    ASSUME Inv, SpentInv, NEW w \in Workers, NEW todo \in Seq(Steps), Then(w, todo), Counted(todo),
           class' = class, class = "NonIdempotent" => respent' = respent,
           row'.status = "Exhausted" => row'.attempts > 0
    PROVE  SpentInv'
<1>1. worker \in [Workers -> [todo : Seq(Steps), holds : BOOLEAN]]
  BY Zenon DEF Inv, TypeInv
<1>2. ASSUME NEW v \in Workers PROVE Counted(worker'[v].todo)
  <2>1. CASE v # w
    <3>1. worker'[v] = worker[v]
      BY <1>1, <2>1 DEF Then
    <3> QED
      BY Zenon, <3>1 DEF SpentInv
  <2>2. CASE v = w
    <3>1. worker'[w].todo = todo
      BY <1>1 DEF Then, With, Idle
    <3> QED
      BY Zenon, <2>2, <3>1
  <2> QED
    BY Zenon, <2>1, <2>2
<1>3. class' = "NonIdempotent" => respent' = 0
  BY Zenon DEF SpentInv
<1> QED
  BY Zenon, <1>2, <1>3 DEF SpentInv

\* What a decision leaves to do, and what it counts.
LEMMA DecideSpent ==
    ASSUME Inv, Guarded, SpentInv, NEW w \in Workers, Decide(w)
    PROVE  SpentInv'
<1>1. /\ Doing(w, "decide") /\ Then(w, ExecuteClaim(Now(w).arg, Now(w).attempt))
      /\ class' = class /\ row' = row
      /\ respent' = IF effect = "Ready" /\ Now(w).arg = "Exhausted" /\ Cover(Now(w).attempt) = "covered"
                    THEN respent + 1 ELSE respent
  BY ZenonT(30) DEF Decide, run
<1>2. Now(w) \in Steps /\ Now(w) = worker[w].todo[1] /\ 1 \in 1..Len(worker[w].todo)
  BY <1>1, NowFacts
<1>3. Now(w).op = "decide" /\ Now(w).attempt \in Nat
  BY <1>1, <1>2 DEF Doing, Steps
<1>4. class = "NonIdempotent" => respent' = respent
  <2> SUFFICES ASSUME class = "NonIdempotent", Now(w).arg = "Exhausted"
               PROVE  Cover(Now(w).attempt) # "covered"
    BY Zenon, <1>1
  <2>1. Now(w).attempt > 1
    BY Zenon, <1>2, <1>3 DEF SpentInv, Counted
  <2>2. Budget = 1
    BY Zenon DEF Budget
  <2> QED
    BY <1>3, <2>1, <2>2 DEF Cover
<1>5. ExecuteClaim(Now(w).arg, Now(w).attempt)
        \in {SettleTicketCancelled, SettleAndTell, ParkIndeterminate, AttemptInvocation(Now(w).attempt),
             <<Do("reconcile", "live")>>, <<Do("reconcile", "winding")>>}
  <2>1. RecoverAmbiguous
          \in {ParkIndeterminate, <<Do("reconcile", "live")>>, <<Do("reconcile", "winding")>>}
    <3>1. CASE class = "NonIdempotent"
      BY ZenonT(30), <3>1 DEF RecoverAmbiguous
    <3>2. CASE class = "Reconcileable"
      BY <3>2 DEF RecoverAmbiguous
    <3> QED
      BY Zenon, <3>1, <3>2 DEF Guarded
  <2>2. CASE effect # "Ready"
    BY <2>2 DEF ExecuteClaim
  <2>3. CASE effect = "Ready" /\ IsAmbiguous(Now(w).arg)
    BY <2>1, <2>3 DEF ExecuteClaim
  <2>4. CASE effect = "Ready" /\ ~IsAmbiguous(Now(w).arg)
    BY <2>4 DEF ExecuteClaim
  <2> QED
    BY Zenon, <2>2, <2>3, <2>4
<1>6. /\ ExecuteClaim(Now(w).arg, Now(w).attempt) \in Seq(Steps)
      /\ Counted(ExecuteClaim(Now(w).arg, Now(w).attempt))
  BY ZenonT(30), <1>3, <1>5, SettlementsCounted, AttemptCounted, AskingCounted
<1>7. row'.status = "Exhausted" => row'.attempts > 0
  BY Zenon, <1>1 DEF SpentInv
<1> QED
  BY Zenon, <1>1, <1>4, <1>6, <1>7, SpentStep

LEMMA RecordSpent ==
    ASSUME Inv, SpentInv, NEW w \in Workers, RecordAttempt(w)
    PROVE  SpentInv'
<1> DEFINE cause == Now(w).arg
<1>1. /\ class' = class /\ respent' = respent
      /\ row' = IF cause = "definitive" THEN RecordExhausted(row) ELSE RecordFailure(row)
      /\ Then(w, AfterFailure(cause, row'))
  BY ZenonT(30) DEF RecordAttempt, run, history
<1>2. row'.attempts \in Nat /\ row'.attempts > 0 /\ row'.attempts + 1 \in Nat
  <2>1. row.attempts \in Nat
    BY Typed DEF Rows
  <2>2. row' = RecordExhausted(row) \/ row' = RecordFailure(row)
    BY Zenon, <1>1
  <2>3. row'.attempts = row.attempts + 1
    BY <2>2 DEF RecordExhausted, RecordFailure
  <2> QED
    BY <2>1, <2>3
<1>3. AfterFailure(cause, row')
        \in {ParkExhausted, Exhaust, AttemptInvocation(row'.attempts + 1), <<Do("fleet", "RetryScheduled")>>}
  BY DEF AfterFailure
<1>4. AfterFailure(cause, row') \in Seq(Steps) /\ Counted(AfterFailure(cause, row'))
  BY ZenonT(30), <1>2, <1>3, SettlementsCounted, AttemptCounted
<1> QED
  BY Zenon, <1>1, <1>2, <1>4, SpentStep

\* The steps of a pass that leave the row or write a status that was not exhausted.
LEMMA PassSpent ==
    ASSUME Inv, Guarded, SpentInv, NEW w \in Workers,
           \/ ReadRow(w) \/ Authorize(w) \/ ResolveCredential(w) \/ Invoke(w) \/ Reconcile(w)
    PROVE  SpentInv'
<1>1. class' = class /\ respent' = respent /\ row' = row
  BY DEF ReadRow, Authorize, ResolveCredential, Invoke, Reconcile, run, history
<1>2. row'.status = "Exhausted" => row'.attempts > 0
  BY Zenon, <1>1 DEF SpentInv
<1>3. /\ ~IsIdle(w) => Tail(worker[w].todo) \in Seq(Steps) /\ Counted(Tail(worker[w].todo))
      /\ row.attempts \in Nat /\ row.status \in Statuses
  <2>1. worker[w].todo \in Seq(Steps) /\ Counted(worker[w].todo)
    BY DEF Inv, TypeInv, SpentInv
  <2> QED
    BY <2>1, CountedTail, Typed DEF IsIdle, Rows
<1>4. SettleUndispatchable(Now(w).attempt) = RefuseDispatch
  BY DEF Guarded, SettleUndispatchable
<1>5. CASE ReadRow(w)
  <2> DEFINE todo == <<DoAttempt("decide", row.status, row.attempts + 1)>>
  <2>1. todo \in Seq(Steps)
    BY <1>3 DEF DoAttempt, Steps
  <2>2. Counted(todo)
    <3>1. row.status = "Exhausted" => row.attempts > 0
      BY Zenon DEF SpentInv
    <3> QED
      BY <1>3, <3>1 DEF Counted, DoAttempt
  <2>3. Then(w, todo)
    BY Zenon, <1>5 DEF ReadRow
  <2> HIDE DEF todo
  <2> QED
    BY Zenon, <1>1, <1>2, <2>1, <2>2, <2>3, SpentStep
<1>6. CASE Authorize(w)
  <2>1. \E todo \in {Tail(worker[w].todo), RefuseDispatch, <<Do("fleet", "RetryScheduled")>>} :
          Then(w, todo) /\ ~IsIdle(w)
    BY ZenonT(30), <1>4, <1>6 DEF Authorize, Doing
  <2> QED
    BY ZenonT(30), <1>1, <1>2, <1>3, <2>1, SettlementsCounted, SpentStep
<1>7. CASE ResolveCredential(w)
  <2>1. \E todo \in {Tail(worker[w].todo), RefuseDispatch, <<Do("fail", "attempt")>>,
                     <<Do("fail", "definitive")>>} : Then(w, todo) /\ ~IsIdle(w)
    BY ZenonT(30), <1>4, <1>7 DEF ResolveCredential, Doing
  <2> QED
    BY ZenonT(30), <1>1, <1>2, <1>3, <2>1, SettlementsCounted, AskingCounted, SpentStep
<1>8. CASE Invoke(w)
  <2>1. SettleUnknownOutcome \in {ParkIndeterminate, <<Do("reconcile", "live")>>}
    <3>1. CASE class = "NonIdempotent"
      BY ZenonT(30), <3>1 DEF SettleUnknownOutcome
    <3>2. CASE class = "Reconcileable"
      BY ZenonT(30), <3>2 DEF SettleUnknownOutcome
    <3> QED
      BY Zenon, <3>1, <3>2 DEF Guarded
  <2>2. \E todo \in {Conclude("Succeeded"), Conclude("Failed"), SettleUnknownOutcome,
                     <<Do("fail", "attempt")>>, <<Do("fail", "definitive")>>} : Then(w, todo)
    BY <1>8 DEF Invoke
  <2> QED
    BY ZenonT(30), <1>1, <1>2, <2>1, <2>2, SettlementsCounted, AskingCounted, SpentStep
<1>9. CASE Reconcile(w)
  <2>1. \E todo \in {Conclude("Succeeded"), Conclude("Failed"), ParkIndeterminate, SettleAndTell,
                     <<Do("fail", "burn")>>, <<Do("fail", "unknown")>>} : Then(w, todo)
    BY ZenonT(30), <1>9 DEF Reconcile
  <2> QED
    BY ZenonT(30), <1>1, <1>2, <2>1, SettlementsCounted, AskingCounted, SpentStep
<1> QED
  BY Zenon, <1>5, <1>6, <1>7, <1>8, <1>9

\* What a pass writes on the row.
LEMMA WrittenWord ==
    ASSUME Inv, NEW w \in Workers, Doing(w, "row")
    PROVE  Now(w).arg \in {"Scheduled", "Dispatched", "Cancelled"}
<1> DEFINE todo == worker[w].todo
<1>1. /\ todo \in Seq(Steps) /\ todo # <<>> /\ Now(w) = Head(todo) /\ Head(todo) = todo[1]
      /\ 1 \in 1..Len(todo) /\ Op(todo) = "row" /\ Now(w).op = "row"
  BY NowFacts DEF Doing
<1>2. CASE worker[w].holds
  <2>1. Shape(todo, Closed)
    BY Zenon, <1>2, NowFacts
  <2>2. Harmless(todo, Closed) \/ Head(todo) = Do("row", "Cancelled")
    BY ZenonT(30), <1>1, <2>1, ShapeByOp
  <2>3. CASE Harmless(todo, Closed)
    BY <1>1, <2>3 DEF Harmless
  <2>4. CASE Head(todo) = Do("row", "Cancelled")
    BY <1>1, <2>4 DEF Do
  <2> QED
    BY Zenon, <2>2, <2>3, <2>4
<1>3. CASE ~worker[w].holds
  <2>1. Fencing(todo, winding /\ ~exempt)
    BY Zenon, <1>3 DEF Inv, PassInv
  <2> QED
    BY <1>1, <2>1 DEF Fencing
<1> QED
  BY Zenon, <1>2, <1>3

\* The steps that settle.
LEMMA SettleSpent ==
    ASSUME Inv, SpentInv, NEW w \in Workers,
           Start(w) \/ WriteRow(w) \/ WriteFleet(w) \/ DeliverOutcome(w)
    PROVE  SpentInv'
<1>1. class' = class /\ respent' = respent
  BY DEF Start, WriteRow, WriteFleet, DeliverOutcome, run, history
<1>2. \E todo \in {Tail(worker[w].todo), <<>>} : Then(w, todo) /\ ~IsIdle(w)
  BY ZenonT(30) DEF Start, WriteRow, WriteFleet, DeliverOutcome, Doing
<1>3. Tail(worker[w].todo) \in Seq(Steps) /\ Counted(Tail(worker[w].todo))
  <2>1. worker[w].todo \in Seq(Steps) /\ Counted(worker[w].todo) /\ worker[w].todo # <<>>
    BY <1>2 DEF Inv, TypeInv, SpentInv, IsIdle
  <2> QED
    BY Zenon, <2>1, CountedTail
<1>4. <<>> \in Seq(Steps) /\ Counted(<<>>)
  BY DEF Counted
<1>5. row'.status = "Exhausted" => row'.attempts > 0
  <2>1. row \in Rows /\ (row.status = "Exhausted" => row.attempts > 0)
    BY Typed DEF SpentInv
  <2>2. CASE Start(w)
    BY <2>1, <2>2 DEF Start, RowWrite, MarkDispatching, Rows
  <2>3. CASE WriteRow(w)
    <3>1. Doing(w, "row") /\ row' = RowWrite(row, Now(w).arg)
      BY Zenon, <2>3 DEF WriteRow
    <3>2. Now(w).arg \in {"Scheduled", "Dispatched", "Cancelled"}
      BY <3>1, WrittenWord
    <3>3. RowWrite(row, Now(w).arg) \in {ScheduleOutbox(row), RecordSuccess(row), RecordCancelled(row)}
      BY <3>2 DEF RowWrite
    <3> QED
      BY <2>1, <3>1, <3>3 DEF ScheduleOutbox, RecordSuccess, RecordCancelled, Rows
  <2>4. CASE WriteFleet(w) \/ DeliverOutcome(w)
    BY <2>1, <2>4 DEF WriteFleet, DeliverOutcome, run
  <2> QED
    BY Zenon, <2>2, <2>3, <2>4
<1> QED
  BY ZenonT(30), <1>1, <1>2, <1>3, <1>4, <1>5, SpentStep

\* The steps of the run and of the fleet, and those that begin or end a pass.
LEMMA OtherSpent ==
    ASSUME Inv, SpentInv,
           \/ WindDown \/ FlushRead \/ FlushWrite \/ Register \/ Lapse \/ Overrun
           \/ \E w \in Workers : ClaimDue(w) \/ FenceRun(w) \/ Abort(w)
    PROVE  SpentInv'
<1>1. class' = class /\ respent' = respent /\ (row' = row \/ row' = ScheduleOutbox(row))
  BY DEF WindDown, FlushRead, FlushWrite, Register, Lapse, Overrun, ClaimDue, FenceRun, Abort,
         run, history
<1>2. row'.status = "Exhausted" => row'.attempts > 0
  <2>1. row \in Rows /\ (row.status = "Exhausted" => row.attempts > 0)
    BY Typed DEF SpentInv
  <2> QED
    BY <1>1, <2>1 DEF ScheduleOutbox, Rows
<1>3. CASE worker' = worker
  BY Zenon, <1>1, <1>2, <1>3 DEF SpentInv
<1>4. ASSUME NEW w \in Workers, FenceRun(w) \/ Abort(w) PROVE SpentInv'
  <2>1. \E todo \in {<<>>, FenceTombstone, <<Do("deliver", "Cancelled")>>} : Then(w, todo)
    BY ZenonT(30), <1>4 DEF FenceRun, Abort
  <2>2. <<>> \in Seq(Steps) /\ Counted(<<>>)
    BY DEF Counted
  <2>3. FenceTombstone \in Seq(Steps) /\ Counted(FenceTombstone)
    BY DEF FenceTombstone, Counted, Do, Steps, Statuses
  <2>4. <<Do("deliver", "Cancelled")>> \in Seq(Steps) /\ Counted(<<Do("deliver", "Cancelled")>>)
    BY DEF Counted, Do, Steps, Statuses
  <2> QED
    BY ZenonT(30), <1>1, <1>2, <2>1, <2>2, <2>3, <2>4, SpentStep
<1>5. ASSUME NEW w \in Workers, ClaimDue(w) PROVE SpentInv'
  <2>1. worker' = [worker EXCEPT ![w] = [todo |-> <<Do("read", "none")>>, holds |-> TRUE]]
    BY Zenon, <1>5 DEF ClaimDue
  <2>2. Counted(<<Do("read", "none")>>)
    BY DEF Counted, Do
  <2>3. ASSUME NEW v \in Workers PROVE Counted(worker'[v].todo)
    <3>1. worker'[v].todo \in {worker[v].todo, <<Do("read", "none")>>}
      BY <2>1 DEF Inv, TypeInv
    <3> QED
      BY Zenon, <2>2, <3>1 DEF SpentInv
  <2> QED
    BY Zenon, <1>1, <1>2, <2>3 DEF SpentInv
<1> QED
  BY <1>3, <1>4, <1>5 DEF WindDown, FlushRead, FlushWrite, Register, Lapse, Overrun

\* The exhausted row of an effect that is invoked once only is never taken up again with
\* an attempt of the budget left.
THEOREM SpentInductive == Spec => [](Guarded => SpentInv)
<1>1. Init => SpentInv
  <2> SUFFICES ASSUME Init PROVE SpentInv
    OBVIOUS
  <2>1. /\ worker = [w \in Workers |-> Idle] /\ row = [status |-> "None", attempts |-> 0] /\ respent = 0
    BY SMTT(30) DEF Init
  <2>2. Counted(<<>>)
    BY DEF Counted
  <2> QED
    BY <2>1, <2>2 DEF SpentInv, Idle
<1>2. IInv /\ (Guarded => SpentInv) /\ [Next]_vars => (Guarded => SpentInv)'
  <2> SUFFICES ASSUME IInv, Guarded => SpentInv, [Next]_vars, Guarded' PROVE SpentInv'
    OBVIOUS
  <2>1. CASE Next
    <3>1. Guarded /\ Inv /\ SpentInv
      BY Zenon, <2>1, ClassFixed DEF Guarded, IInv
    <3> QED
      BY ZenonT(30), <2>1, <3>1, DecideSpent, RecordSpent, PassSpent, SettleSpent, OtherSpent
         DEF Next, Step
  <2>2. CASE UNCHANGED vars
    BY Zenon, <2>2 DEF Guarded, SpentInv, Counted, vars
  <2> QED
    BY <2>1, <2>2
<1> QED
  BY <1>1, <1>2, Inductive, PTL DEF Spec

\* Whatever dies, whatever is lost and however the run is wound down, a NonIdempotent
\* effect takes effect at its target at most once, and once more at most for every lease
\* overrun; a Reconcileable one, once more also for every exhausted row taken up again
\* with an attempt left (ExecutedAtMostOnce).
THEOREM AtMostOnce == Spec => []ExecutedAtMostOnce
<1>1. IInv /\ (Guarded => SpentInv) => ExecutedAtMostOnce
  <2> SUFFICES ASSUME Inv, Guarded, SpentInv
               PROVE  /\ target.executed <= 1 + overrun + respent
                      /\ overrun \in Nat /\ (class = "NonIdempotent" => respent = 0)
    BY DEF IInv, ExecutedAtMostOnce, Guarded
  <2>1. ClaimWeight(Turn, Closed, Open, target.executed) \in {0, 1, 2} /\ CountInv
    BY ZenonT(30), Typed, Weights DEF Inv
  <2>2. PICK k \in Nat :
          target.executed + k + ClaimWeight(Turn, Closed, Open, target.executed)
            <= 1 + overrun + respent
    BY Zenon, <2>1 DEF CountInv
  <2>3. target.executed <= 1 + overrun + respent
    BY <2>1, <2>2, Typed
  <2> QED
    BY Zenon, <2>3, Typed DEF SpentInv
<1> QED
  BY <1>1, Inductive, SpentInductive, PTL

------------------------------------------------------------------------------
(* What a pass may do and say when every worker keeps to its lease. *)

Words == {"Succeeded", "Failed", "Refused", "Cancelled", "Indeterminate", "Exhausted"}

\* What WordIsTrue says of one word.
IsTrueWord(word) ==
    /\ word = "Succeeded" => target.executed > 0
    /\ word = "Refused" /\ class # "ReadOnly" /\ (Guarded => retaken = 0)
         => target.executed = 0
    /\ word = "Cancelled" /\ Guarded /\ retaken = 0 => target.executed = 0

TrueWords == {word \in Words : IsTrueWord(word)}

\* The pass invokes nothing more: it delivers words among those given, changes the
\* row only when the run was told, and gives the entry up last unless it is settled.
Settling(todo, told, words) ==
    \A i \in 1..Len(todo) :
        \/ /\ todo[i].op = "fleet"
           /\ \/ todo[i].arg \in {"Completed", "Exhausted", "Cancelled"}
              \/ todo[i].arg = "RetryScheduled" /\ i = Len(todo)
        \/ todo[i].op = "deliver" /\ todo[i].arg \in words
        \/ /\ todo[i].op = "row" /\ todo[i].arg \in {"Cancelled", "Dispatched"}
           /\ told \/ \E j \in 1..(i - 1) : todo[j].op = "deliver"

\* Nothing was executed, as far as an attempt may rely on it: one that is not the first
\* of an Idempotent effect does not, nor one that took up an exhausted row.
Untouched(further) ==
    class # "ReadOnly" /\ (class = "Idempotent" => ~further) /\ (Guarded => retaken = 0)
        => target.executed = 0

\* A worker is at the fence's steps.
FenceActive == \E v \in Workers : ~worker[v].holds /\ worker[v].todo # <<>>

\* Only the claim's pass can tell the run anything or change the row.
Alone ==
    /\ effect = "Ready"
    /\ ~FenceActive
    /\ row.status = "Cancelled" => exempt

\* The status a claim read is still the row's, or the fence has withdrawn the row since.
StillReads(status, attempt) ==
    /\ attempt = row.attempts + 1
    /\ \/ status = row.status
       \/ status = "Pending" /\ row.status = "Cancelled" /\ winding /\ ~exempt

\* What the steps a claim's pass has left say about the effect.
Form(todo) ==
    \/ todo = <<Do("read", "none")>>
    \/ \E status \in Statuses, attempt \in Nat :
          /\ todo = <<DoAttempt("decide", status, attempt)>>
          /\ effect = "Ready" => StillReads(status, attempt)
    \/ \E attempt \in Nat :
          /\ todo \in {FromAuthorize("covered", attempt), FromAuthorize("spent", attempt),
                       FromStart(attempt), FromCredential(attempt)}
          /\ Alone /\ Untouched(attempt > 1)
          /\ todo = FromCredential(attempt) => row.status = "Dispatching"
    \/ todo = FromInvoke /\ Alone /\ row.status = "Dispatching"
    \/ \E arg \in {"winding", "live"} :
          /\ todo = <<Do("reconcile", arg)>>
          /\ Alone /\ class = "Reconcileable"
          /\ arg = "winding" => winding
    \/ \E cause \in {"burn", "attempt", "definitive", "unknown"} :
          /\ todo = <<Do("fail", cause)>>
          /\ Alone
          /\ cause = "burn" => Untouched(TRUE)
    \/ /\ todo = SettleAndTell
       /\ effect = "Ready" => Untouched(row.attempts > 0) /\ (exempt \/ winding)
       /\ "Cancelled" \in TrueWords
    \/ Settling(todo, effect # "Ready", TrueWords)

FenceForms == {FenceTombstone, Tail(FenceTombstone), <<Do("deliver", "Cancelled")>>}

HolderInv(w) ==
    LET todo == worker[w].todo
    IN  /\ todo # <<>>
        /\ Form(todo)
        /\ \/ IsCurrentClaim(w)
           \/ IsTerminalEntry /\ Settling(todo, effect # "Ready", TrueWords)

FencerInv(w) ==
    worker[w].todo # <<>> =>
        /\ winding /\ ~exempt
        /\ worker[w].todo \in FenceForms
        /\ effect = "Ready" => row.status \in Admits

RowFacts ==
    /\ row \in Rows
    /\ row.status = "None" => entry.status = "None" /\ row.attempts = 0
    /\ row.status = "Dispatched" => effect # "Ready"
    /\ row.status = "Cancelled" => Closed \/ exempt
    /\ row.status \in {"Failed", "Exhausted"} => row.attempts > 0
    /\ row.status = "Failed" => class # "NonIdempotent"
    /\ effect = "Ready" /\ row.status \in Admits => Untouched(row.attempts > 0)

WordTypes ==
    /\ class \in Classes /\ exempt \in BOOLEAN /\ winding \in BOOLEAN
    /\ worker \in [Workers -> [todo : Seq(Steps), holds : BOOLEAN]]
    /\ target.executed \in Nat /\ retaken \in Nat
    /\ entry = [status |-> entry.status, holder |-> entry.holder, live |-> entry.live]
    /\ effect \in TrueWords \cup {"Ready"}

PassFacts == \A w \in Workers : IF worker[w].holds THEN HolderInv(w) ELSE FencerInv(w)

Kept == WordTypes /\ RowFacts /\ PassFacts

WordInv == overrun \in Nat /\ (overrun = 0 => Kept)
------------------------------------------------------------------------------
(* The lists of steps, and what is left of them. *)

\* The lists that settle an effect, by the word they tell the run.
LEMMA SettlingLists ==
    ASSUME NEW told, NEW words, NEW todo,
           \/ todo = ParkIndeterminate /\ "Indeterminate" \in words
           \/ todo = RefuseDispatch /\ "Refused" \in words
           \/ \E word \in {"Succeeded", "Failed"} : todo = Conclude(word) /\ word \in words
           \/ todo = Exhaust /\ "Exhausted" \in words
           \/ todo = <<Do("fleet", "RetryScheduled")>>
           \/ todo = ParkExhausted /\ "Indeterminate" \in words
           \/ todo = SettleTicketCancelled /\ told
           \/ todo = Tail(SettleAndTell) /\ "Cancelled" \in words
    PROVE  todo \in Seq(Steps) /\ Settling(todo, told, words) /\ todo # <<>>
<1>1. CASE todo = ParkIndeterminate /\ "Indeterminate" \in words
  BY <1>1 DEF ParkIndeterminate, Settling, Do, Steps, Statuses
<1>2. CASE todo = RefuseDispatch /\ "Refused" \in words
  BY <1>2 DEF RefuseDispatch, Settling, Do, Steps, Statuses
<1>3. ASSUME NEW word \in {"Succeeded", "Failed"}, todo = Conclude(word), word \in words
      PROVE  todo \in Seq(Steps) /\ Settling(todo, told, words) /\ todo # <<>>
  <2>1. todo = <<Do("deliver", word), Do("row", "Dispatched"), Do("fleet", "Completed")>>
    BY Zenon, <1>3 DEF Conclude
  <2> QED
    BY <1>3, <2>1 DEF Settling, Do, Steps, Statuses
<1>4. CASE todo = Exhaust /\ "Exhausted" \in words
  BY <1>4 DEF Exhaust, Settling, Do, Steps, Statuses
<1>5. CASE todo = <<Do("fleet", "RetryScheduled")>>
  BY <1>5 DEF Settling, Do, Steps, Statuses
<1>6. CASE todo = ParkExhausted /\ "Indeterminate" \in words
  BY <1>6 DEF ParkExhausted, Settling, Do, Steps, Statuses
<1>7. CASE todo = SettleTicketCancelled /\ told
  BY <1>7 DEF SettleTicketCancelled, Settling, Do, Steps, Statuses
<1>8. CASE todo = Tail(SettleAndTell) /\ "Cancelled" \in words
  <2>1. todo = <<Do("fleet", "Cancelled"), Do("deliver", "Cancelled")>>
    BY <1>8 DEF SettleAndTell
  <2>2. "Cancelled" \in words
    BY <1>8
  <2> QED
    BY <2>1, <2>2 DEF Settling, Do, Steps, Statuses
<1> QED
  BY Zenon, <1>1, <1>2, <1>3, <1>4, <1>5, <1>6, <1>7, <1>8

\* Past the first step; the run was told meanwhile, or by that step.
LEMMA SettlingTail ==
    ASSUME NEW todo \in Seq(Steps), todo # <<>>, NEW told, NEW later, NEW words,
           Settling(todo, told, words),
           told => later, Op(todo) = "deliver" => later
    PROVE  Settling(Tail(todo), later, words)
<1> DEFINE rest == Tail(todo)
           n == Len(todo)
<1>1. /\ n \in Nat /\ Len(rest) = n - 1
      /\ \A i \in 1..(n - 1) : rest[i] = todo[i + 1]
      /\ Head(todo) = todo[1]
  OBVIOUS
<1>2. \A i \in 1..n :
        \/ /\ todo[i].op = "fleet"
           /\ \/ todo[i].arg \in {"Completed", "Exhausted", "Cancelled"}
              \/ todo[i].arg = "RetryScheduled" /\ i = n
        \/ todo[i].op = "deliver" /\ todo[i].arg \in words
        \/ /\ todo[i].op = "row" /\ todo[i].arg \in {"Cancelled", "Dispatched"}
           /\ told \/ \E j \in 1..(i - 1) : todo[j].op = "deliver"
  BY Zenon DEF Settling
<1>3. todo[1].op = "deliver" => later
  BY Zenon, <1>1 DEF Op
<1> HIDE DEF rest, n
<1>4. ASSUME NEW i \in 1..(n - 1)
      PROVE  \/ /\ rest[i].op = "fleet"
                /\ \/ rest[i].arg \in {"Completed", "Exhausted", "Cancelled"}
                   \/ rest[i].arg = "RetryScheduled" /\ i = n - 1
             \/ rest[i].op = "deliver" /\ rest[i].arg \in words
             \/ /\ rest[i].op = "row" /\ rest[i].arg \in {"Cancelled", "Dispatched"}
                /\ later \/ \E k \in 1..(i - 1) : rest[k].op = "deliver"
  <2>1. i + 1 \in 1..n /\ rest[i] = todo[i + 1] /\ (i + 1) - 1 = i /\ (i + 1 = n => i = n - 1)
    BY <1>1
  <2>2. ASSUME NEW j \in 1..i, todo[j].op = "deliver", ~later
        PROVE  \E k \in 1..(i - 1) : rest[k].op = "deliver"
    <3>1. j # 1
      BY Zenon, <1>3, <2>2
    <3>2. j - 1 \in 1..(i - 1) /\ j - 1 \in 1..(n - 1) /\ (j - 1) + 1 = j
      BY <1>1, <3>1
    <3>3. rest[j - 1] = todo[j]
      BY <1>1, <3>2
    <3> QED
      BY Zenon, <2>2, <3>2, <3>3
  <2> QED
    BY Zenon, <1>2, <2>1, <2>2
<1>5. Settling(rest, later, words)
  BY Zenon, <1>1, <1>4 DEF Settling
<1> QED
  BY Zenon, <1>5 DEF rest

\* What the first step of a settling pass may be.
LEMMA SettlingHead ==
    ASSUME NEW todo \in Seq(Steps), todo # <<>>, NEW told, NEW words, Settling(todo, told, words)
    PROVE  LET step == Head(todo)
           IN  \/ /\ step.op = "fleet"
                  /\ \/ step.arg \in {"Completed", "Exhausted", "Cancelled"}
                     \/ step.arg = "RetryScheduled" /\ Tail(todo) = <<>>
               \/ step.op = "deliver" /\ step.arg \in words
               \/ step.op = "row" /\ step.arg \in {"Cancelled", "Dispatched"} /\ told
<1>1. Head(todo) = todo[1] /\ 1 \in 1..Len(todo) /\ (1 = Len(todo) => Tail(todo) = <<>>)
  OBVIOUS
<1>2. ~ \E j \in 1..(1 - 1) : todo[j].op = "deliver"
  OBVIOUS
<1> QED
  BY Zenon, <1>1, <1>2 DEF Settling

LEMMA SettlingStays ==
    ASSUME NEW todo, NEW told, NEW later, NEW words, told => later, Settling(todo, told, words)
    PROVE  Settling(todo, later, words)
BY Zenon DEF Settling

\* Words that are true whatever the target did.
LEMMA AlwaysTrue == {"Failed", "Indeterminate", "Exhausted"} \subseteq TrueWords
BY Zenon DEF TrueWords, Words, IsTrueWord

\* A step that does not reach the target leaves what is true of it.
LEMMA TargetStays ==
    ASSUME class' = class, target' = target, retaken' = retaken
    PROVE  TrueWords' = TrueWords /\ \A further : Untouched(further)' <=> Untouched(further)
BY Zenon DEF TrueWords, IsTrueWord, Untouched, Guarded

------------------------------------------------------------------------------
(* Who else is there. *)

\* The claim's pass is the only one that executes a claim.
LEMMA OnlyHolder ==
    ASSUME PassFacts, NEW w \in Workers, IsCurrentClaim(w), NEW v \in Workers, v # w
    PROVE  ~worker[v].holds
BY Zenon DEF PassFacts, HolderInv, IsCurrentClaim, IsTerminalEntry

\* There is no claim's pass when the entry is neither settled nor under a live claim.
LEMMA NoHolder ==
    ASSUME PassFacts, ~IsTerminalEntry, \A w \in Workers : ~IsCurrentClaim(w)
    PROVE  \A w \in Workers : ~worker[w].holds
BY Zenon DEF PassFacts, HolderInv

LEMMA RowExists ==
    ASSUME PassFacts, RowFacts, NEW w \in Workers, worker[w].holds
    PROVE  row.status # "None"
BY DEF PassFacts, RowFacts, HolderInv, IsCurrentClaim, IsTerminalEntry

\* What a step of worker w writes.
LEMMA Turns ==
    ASSUME WordTypes, NEW w \in Workers, NEW todo \in Seq(Steps), Then(w, todo)
    PROVE  /\ worker' \in [Workers -> [todo : Seq(Steps), holds : BOOLEAN]]
           /\ worker'[w].todo = todo
           /\ worker'[w].holds <=> todo # <<>> /\ worker[w].holds
           /\ \A v \in Workers : v # w => worker'[v] = worker[v]
<1>1. worker \in [Workers -> [todo : Seq(Steps), holds : BOOLEAN]]
  BY DEF WordTypes
<1>2. worker' = [worker EXCEPT ![w] = With(worker[w], todo)]
  BY Zenon DEF Then
<1>3. With(worker[w], todo) = [todo |-> todo, holds |-> todo # <<>> /\ worker[w].holds]
  <2>1. CASE todo = <<>>
    BY Zenon, <2>1 DEF With, Idle
  <2>2. CASE todo # <<>>
    BY <1>1, <2>2 DEF With
  <2> QED
    BY Zenon, <2>1, <2>2
<1> DEFINE p == With(worker[w], todo)
<1>4. /\ p \in [todo : Seq(Steps), holds : BOOLEAN] /\ p.todo = todo
      /\ p.holds <=> todo # <<>> /\ worker[w].holds
  <2> DEFINE h == todo # <<>> /\ worker[w].holds
  <2>1. h \in BOOLEAN /\ p = [todo |-> todo, holds |-> h]
    BY Zenon, <1>3
  <2> HIDE DEF h, p
  <2>2. p \in [todo : Seq(Steps), holds : BOOLEAN] /\ p.todo = todo /\ p.holds = h
    BY <2>1
  <2> QED
    BY Zenon, <2>2 DEF h
<1> HIDE DEF p
<1>5. /\ [worker EXCEPT ![w] = p] \in [Workers -> [todo : Seq(Steps), holds : BOOLEAN]]
      /\ [worker EXCEPT ![w] = p][w] = p
      /\ \A v \in Workers : v # w => [worker EXCEPT ![w] = p][v] = worker[v]
  BY Zenon, <1>1, <1>4
<1> QED
  BY Zenon, <1>2, <1>4, <1>5 DEF p

\* A pass that executes a claim neither joins the fence nor leaves it.
LEMMA FenceStays ==
    ASSUME WordTypes, NEW w \in Workers, worker[w].holds, NEW todo \in Seq(Steps), Then(w, todo)
    PROVE  FenceActive' <=> FenceActive
<1>1. /\ worker'[w].todo = todo
      /\ worker'[w].holds <=> todo # <<>> /\ worker[w].holds
      /\ \A v \in Workers : v # w => worker'[v] = worker[v]
  BY Zenon, Turns
<1> QED
  BY Zenon, <1>1 DEF FenceActive

\* What the first step of a claim's pass tells of the rest.
LEMMA ByStep ==
    ASSUME WordTypes, NEW w \in Workers, worker[w].todo # <<>>, Form(worker[w].todo)
    PROVE  LET todo == worker[w].todo
           IN  /\ Now(w).op = "read" => todo = <<Do("read", "none")>>
               /\ Now(w).op = "decide" =>
                     /\ Now(w).arg \in Statuses /\ Now(w).attempt \in Nat
                     /\ effect = "Ready" => StillReads(Now(w).arg, Now(w).attempt)
               /\ Now(w).op = "authorize" =>
                     /\ Now(w).attempt \in Nat /\ Tail(todo) = FromStart(Now(w).attempt)
                     /\ Alone /\ Untouched(Now(w).attempt > 1)
               /\ Now(w).op = "start" =>
                     \E attempt \in Nat :
                        Tail(todo) = FromCredential(attempt) /\ Alone /\ Untouched(attempt > 1)
               /\ Now(w).op = "credential" =>
                     /\ Now(w).attempt \in Nat /\ Tail(todo) = FromInvoke
                     /\ Alone /\ Untouched(Now(w).attempt > 1) /\ row.status = "Dispatching"
               /\ Now(w).op = "invoke" => Alone /\ row.status = "Dispatching"
               /\ Now(w).op = "reconcile" =>
                     /\ Now(w).arg \in {"winding", "live"} /\ Alone /\ class = "Reconcileable"
                     /\ Now(w).arg = "winding" => winding
               /\ Now(w).op = "fail" =>
                     /\ Now(w).arg \in {"burn", "attempt", "definitive", "unknown"} /\ Alone
                     /\ Now(w).arg = "burn" => Untouched(TRUE)
               /\ Now(w).op = "row" =>
                     \/ /\ todo = SettleAndTell
                        /\ effect = "Ready" => Untouched(row.attempts > 0) /\ (exempt \/ winding)
                        /\ "Cancelled" \in TrueWords
                     \/ Settling(todo, effect # "Ready", TrueWords)
               /\ Now(w).op \in {"fleet", "deliver"} => Settling(todo, effect # "Ready", TrueWords)
<1> DEFINE todo == worker[w].todo
<1>0. todo \in Seq(Steps)
  BY DEF WordTypes
<1>1. CASE todo = <<Do("read", "none")>>
  <2>1. Now(w).op = "read"
    BY <1>1 DEF Now, Do
  <2> QED
    BY Zenon, <1>1, <2>1
<1>2. ASSUME NEW status \in Statuses, NEW attempt \in Nat,
             todo = <<DoAttempt("decide", status, attempt)>>,
             effect = "Ready" => StillReads(status, attempt)
      PROVE  /\ Now(w).op = "decide"
             /\ Now(w).arg \in Statuses /\ Now(w).attempt \in Nat
             /\ effect = "Ready" => StillReads(Now(w).arg, Now(w).attempt)
  <2>1. Now(w).op = "decide" /\ Now(w).arg = status /\ Now(w).attempt = attempt
    BY <1>2 DEF Now, DoAttempt
  <2> QED
    BY Zenon, <1>2, <2>1
<1>3. ASSUME NEW cover, NEW attempt \in Nat, todo = FromAuthorize(cover, attempt)
      PROVE  Now(w).op = "authorize" /\ Now(w).attempt = attempt /\ Tail(todo) = FromStart(attempt)
  <2>1. Now(w).op = "authorize" /\ Now(w).attempt = attempt
    BY <1>3 DEF Now, FromAuthorize, DoAttempt
  <2> QED
    BY Zenon, <1>3, <2>1, AttemptTails
<1>4. ASSUME NEW attempt \in Nat, todo = FromStart(attempt)
      PROVE  Now(w).op = "start" /\ Tail(todo) = FromCredential(attempt)
  <2>1. Now(w).op = "start"
    BY <1>4 DEF Now, FromStart, Do
  <2> QED
    BY Zenon, <1>4, <2>1, AttemptTails
<1>5. ASSUME NEW attempt \in Nat, todo = FromCredential(attempt)
      PROVE  Now(w).op = "credential" /\ Now(w).attempt = attempt /\ Tail(todo) = FromInvoke
  BY <1>5 DEF Now, FromCredential, FromInvoke, DoAttempt
<1>6. CASE todo = FromInvoke /\ Alone /\ row.status = "Dispatching"
  <2>1. Now(w).op = "invoke"
    BY <1>6 DEF Now, FromInvoke, Do
  <2> QED
    BY Zenon, <1>6, <2>1
<1>7. ASSUME NEW arg, todo = <<Do("reconcile", arg)>> PROVE Now(w).op = "reconcile" /\ Now(w).arg = arg
  BY <1>7 DEF Now, Do
<1>8. ASSUME NEW cause, todo = <<Do("fail", cause)>> PROVE Now(w).op = "fail" /\ Now(w).arg = cause
  BY <1>8 DEF Now, Do
<1>9. todo = SettleAndTell => Now(w).op = "row"
  BY DEF Now, SettleAndTell, Do
<1>10. CASE Settling(todo, effect # "Ready", TrueWords)
  <2>1. Now(w).op \in {"fleet", "deliver", "row"}
    BY Zenon, <1>0, <1>10, SettlingHead DEF Now
  <2> QED
    BY Zenon, <1>10, <2>1
<1>11. CASE \E attempt \in Nat :
               /\ todo \in {FromAuthorize("covered", attempt), FromAuthorize("spent", attempt),
                            FromStart(attempt), FromCredential(attempt)}
               /\ Alone /\ Untouched(attempt > 1)
               /\ todo = FromCredential(attempt) => row.status = "Dispatching"
  <2> PICK attempt \in Nat :
         /\ todo \in {FromAuthorize("covered", attempt), FromAuthorize("spent", attempt),
                      FromStart(attempt), FromCredential(attempt)}
         /\ Alone /\ Untouched(attempt > 1)
         /\ todo = FromCredential(attempt) => row.status = "Dispatching"
    BY Zenon, <1>11
  <2>1. CASE todo \in {FromAuthorize("covered", attempt), FromAuthorize("spent", attempt)}
    <3>1. Now(w).op = "authorize" /\ Now(w).attempt = attempt /\ Tail(todo) = FromStart(attempt)
      BY Zenon, <1>3, <2>1
    <3>2. /\ Now(w).attempt \in Nat /\ Tail(todo) = FromStart(Now(w).attempt)
          /\ Untouched(Now(w).attempt > 1)
      BY Zenon, <3>1
    <3> QED
      BY Zenon, <3>1, <3>2
  <2>2. CASE todo = FromStart(attempt)
    <3>1. Now(w).op = "start" /\ Tail(todo) = FromCredential(attempt)
      BY Zenon, <1>4, <2>2
    <3> QED
      BY Zenon, <3>1
  <2>3. CASE todo = FromCredential(attempt)
    <3>1. Now(w).op = "credential" /\ Now(w).attempt = attempt /\ Tail(todo) = FromInvoke
      BY Zenon, <1>5, <2>3
    <3> QED
      BY Zenon, <2>3, <3>1
  <2> QED
    BY Zenon, <2>1, <2>2, <2>3
<1>12. CASE \E arg \in {"winding", "live"} :
               /\ todo = <<Do("reconcile", arg)>>
               /\ Alone /\ class = "Reconcileable"
               /\ arg = "winding" => winding
  <2>1. /\ Now(w).op = "reconcile"
        /\ Now(w).arg \in {"winding", "live"} /\ Alone /\ class = "Reconcileable"
        /\ Now(w).arg = "winding" => winding
    BY Zenon, <1>7, <1>12
  <2> QED
    BY Zenon, <2>1
<1>13. CASE \E cause \in {"burn", "attempt", "definitive", "unknown"} :
               /\ todo = <<Do("fail", cause)>>
               /\ Alone
               /\ cause = "burn" => Untouched(TRUE)
  <2>1. /\ Now(w).op = "fail"
        /\ Now(w).arg \in {"burn", "attempt", "definitive", "unknown"} /\ Alone
        /\ Now(w).arg = "burn" => Untouched(TRUE)
    BY Zenon, <1>8, <1>13
  <2> QED
    BY Zenon, <2>1
<1>14. CASE \E status \in Statuses, attempt \in Nat :
               /\ todo = <<DoAttempt("decide", status, attempt)>>
               /\ effect = "Ready" => StillReads(status, attempt)
  <2>1. /\ Now(w).op = "decide"
        /\ Now(w).arg \in Statuses /\ Now(w).attempt \in Nat
        /\ effect = "Ready" => StillReads(Now(w).arg, Now(w).attempt)
    BY Zenon, <1>2, <1>14
  <2> QED
    BY Zenon, <2>1
<1>15. CASE /\ todo = SettleAndTell
            /\ effect = "Ready" => Untouched(row.attempts > 0) /\ (exempt \/ winding)
            /\ "Cancelled" \in TrueWords
  BY Zenon, <1>9, <1>15
<1> QED
  BY Zenon, <1>1, <1>14, <1>11, <1>6, <1>12, <1>13, <1>15, <1>10 DEF Form

------------------------------------------------------------------------------
(* The steps of the claim's pass. *)

\* Nobody else executes a claim, so a step has to answer for its own pass, for the row
\* and, where the fence is at work, for the row it will find.
LEMMA ClaimantStep ==
    ASSUME Kept, NEW w \in Workers, IsCurrentClaim(w), NEW todo \in Seq(Steps), Then(w, todo),
           entry' = entry, UNCHANGED <<class, exempt, winding>>,
           target'.executed \in Nat, retaken' \in Nat, effect' \in TrueWords' \cup {"Ready"},
           RowFacts',
           FenceActive /\ effect' = "Ready" => row'.status \in Admits,
           todo # <<>> => Form(worker[w].todo)'
    PROVE  Kept'
<1>1. WordTypes /\ PassFacts
  BY DEF Kept
<1>2. /\ worker' \in [Workers -> [todo : Seq(Steps), holds : BOOLEAN]]
      /\ worker'[w].todo = todo
      /\ worker'[w].holds <=> todo # <<>> /\ worker[w].holds
      /\ \A v \in Workers : v # w => worker'[v] = worker[v]
  BY Zenon, <1>1, Turns
<1>3. WordTypes'
  BY Zenon, <1>1, <1>2 DEF WordTypes
<1>4. worker[w].holds
  BY Zenon DEF IsCurrentClaim
<1>5. IF worker'[w].holds THEN HolderInv(w)' ELSE FencerInv(w)'
  <2>1. CASE todo = <<>>
    BY Zenon, <1>2, <2>1 DEF FencerInv
  <2>2. CASE todo # <<>>
    <3>1. IsCurrentClaim(w)'
      BY Zenon, <1>2, <1>4, <2>2 DEF IsCurrentClaim
    <3> QED
      BY Zenon, <1>2, <1>4, <2>2, <3>1 DEF HolderInv
  <2> QED
    BY Zenon, <2>1, <2>2
<1>6. ASSUME NEW v \in Workers, v # w
      PROVE  IF worker'[v].holds THEN HolderInv(v)' ELSE FencerInv(v)'
  <2>1. worker'[v] = worker[v] /\ ~worker[v].holds /\ FencerInv(v)
    BY Zenon, <1>1, <1>2, <1>6, OnlyHolder DEF PassFacts
  <2>2. worker[v].todo # <<>> => FenceActive
    BY Zenon, <2>1 DEF FenceActive
  <2>3. FencerInv(v)'
    BY Zenon, <2>1, <2>2 DEF FencerInv
  <2> QED
    BY Zenon, <2>1, <2>3
<1>7. PassFacts'
  BY Zenon, <1>5, <1>6 DEF PassFacts
<1> QED
  BY Zenon, <1>3, <1>7 DEF Kept

\* The steps that write nothing but the pass.
LEMMA QuietStep ==
    ASSUME Kept, NEW w \in Workers, IsCurrentClaim(w), NEW todo \in Seq(Steps), Then(w, todo),
           entry' = entry, UNCHANGED <<class, exempt, winding, effect, row, target, retaken>>,
           todo # <<>> => Form(todo)
    PROVE  Kept'
<1>1. WordTypes /\ RowFacts /\ PassFacts /\ worker[w].holds
  BY DEF Kept, IsCurrentClaim
<1>2. TrueWords' = TrueWords /\ \A further : Untouched(further)' <=> Untouched(further)
  BY Zenon, TargetStays
<1>3. FenceActive' <=> FenceActive
  BY Zenon, <1>1, FenceStays
<1>4. target'.executed \in Nat /\ retaken' \in Nat /\ effect' \in TrueWords' \cup {"Ready"}
  BY Zenon, <1>1, <1>2 DEF WordTypes
<1>6. RowFacts'
  <2>1. Untouched(row.attempts > 0)' <=> Untouched(row.attempts > 0)
    BY Zenon DEF Untouched, Guarded
  <2>2. Closed' <=> Closed
    BY DEF Closed
  <2> QED
    BY Zenon, <1>1, <2>1, <2>2 DEF RowFacts
<1>7. FenceActive /\ effect' = "Ready" => row'.status \in Admits
  BY Zenon, <1>1 DEF FenceActive, PassFacts, FencerInv
<1>8. Alone' <=> Alone
  BY Zenon, <1>3 DEF Alone
<1>9. worker'[w].todo = todo
  BY Zenon, <1>1, Turns
<1>10. ASSUME Form(todo) PROVE Form(worker[w].todo)'
  <2>1. Untouched(row.attempts > 0)' <=> Untouched(row.attempts > 0)
    BY DEF Untouched, Guarded
  <2>2. \A status \in Statuses, attempt \in Nat : StillReads(status, attempt)' <=> StillReads(status, attempt)
    BY DEF StillReads
  <2> QED
    BY Zenon, <1>2, <1>8, <1>9, <1>10, <2>1, <2>2
       DEF Form
<1> QED
  BY Zenon, <1>4, <1>6, <1>7, <1>10, ClaimantStep

LEMMA Lists ==
    /\ \A status \in Statuses, attempt \in Nat : <<DoAttempt("decide", status, attempt)>> \in Seq(Steps)
    /\ \A arg \in {"winding", "live"} : <<Do("reconcile", arg)>> \in Seq(Steps)
    /\ \A cause \in {"burn", "attempt", "definitive", "unknown"} : <<Do("fail", cause)>> \in Seq(Steps)
    /\ SettleAndTell \in Seq(Steps)
<1>1. ASSUME NEW status \in Statuses, NEW attempt \in Nat
      PROVE  <<DoAttempt("decide", status, attempt)>> \in Seq(Steps)
  BY DEF DoAttempt, Steps
<1>2. ASSUME NEW arg \in {"winding", "live"} PROVE <<Do("reconcile", arg)>> \in Seq(Steps)
  BY DEF Do, Steps
<1>3. ASSUME NEW cause \in {"burn", "attempt", "definitive", "unknown"}
      PROVE  <<Do("fail", cause)>> \in Seq(Steps)
  BY DEF Do, Steps
<1>4. SettleAndTell \in Seq(Steps)
  BY DEF SettleAndTell, Do, Steps, Statuses
<1> QED
  BY Zenon, <1>1, <1>2, <1>3, <1>4

\* A list that settles the effect with a true word.
LEMMA SettlingForm ==
    ASSUME NEW todo,
           \/ todo \in {ParkIndeterminate, Exhaust, ParkExhausted,
                        <<Do("fleet", "RetryScheduled")>>}
           \/ todo = RefuseDispatch /\ "Refused" \in TrueWords
           \/ \E word \in {"Succeeded", "Failed"} : todo = Conclude(word) /\ word \in TrueWords
           \/ todo = SettleTicketCancelled /\ effect # "Ready"
    PROVE  todo \in Seq(Steps) /\ Form(todo)
<1>1. todo \in Seq(Steps) /\ Settling(todo, effect # "Ready", TrueWords)
  BY Zenon, AlwaysTrue, SettlingLists
<1> QED
  BY Zenon, <1>1 DEF Form

LEMMA UndispatchableForm ==
    ASSUME NEW attempt \in Nat, Untouched(attempt > 1)
    PROVE  SettleUndispatchable(attempt) \in Seq(Steps) /\ Form(SettleUndispatchable(attempt))
<1>1. CASE class = "Idempotent" /\ attempt > 1
  BY Zenon, <1>1, SettlingForm DEF SettleUndispatchable
<1>2. CASE ~(class = "Idempotent" /\ attempt > 1)
  <2>1. "Refused" \in TrueWords
    BY Zenon, <1>2 DEF TrueWords, Words, IsTrueWord, Untouched
  <2> QED
    BY Zenon, <1>2, <2>1, SettlingForm DEF SettleUndispatchable
<1> QED
  BY Zenon, <1>1, <1>2

LEMMA ReadRowKeeps ==
    ASSUME Kept, NEW w \in Workers, IsCurrentClaim(w), ReadRow(w)
    PROVE  Kept'
<1> DEFINE todo == <<DoAttempt("decide", row.status, row.attempts + 1)>>
<1>1. row.status \in Statuses /\ row.attempts + 1 \in Nat
  BY DEF Kept, RowFacts, Rows
<1>2. Form(todo)
  <2>1. StillReads(row.status, row.attempts + 1)
    BY DEF StillReads
  <2> QED
    BY Zenon, <1>1, <2>1 DEF Form
<1>3. todo \in Seq(Steps)
  BY Zenon, <1>1, Lists
<1>4. /\ Then(w, todo) /\ entry' = entry
      /\ UNCHANGED <<class, exempt, winding, effect, row, target, retaken>>
  BY DEF ReadRow, run, history
<1> QED
  BY Zenon, <1>2, <1>3, <1>4, QuietStep

\* What a claim is to do, from a row that is as it read it.
LEMMA ClaimForm ==
    ASSUME WordTypes, RowFacts, effect = "Ready", FenceActive => row.status \in Admits /\ winding /\ ~exempt,
           row.status # "None",
           NEW status \in Statuses, NEW attempt \in Nat, StillReads(status, attempt)
    PROVE  /\ ExecuteClaim(status, attempt) \in Seq(Steps)
           /\ status # "Exhausted" => Form(ExecuteClaim(status, attempt))
           /\ status = "Exhausted" =>
                /\ ~FenceActive /\ row.status = "Exhausted"
                /\ ExecuteClaim(status, attempt) \in {SettleAndTell, AttemptInvocation(attempt)}
                /\ ExecuteClaim(status, attempt) = SettleAndTell => winding
<1>1. CASE IsAmbiguous(status)
  <2>1. ExecuteClaim(status, attempt) = RecoverAmbiguous /\ status # "Exhausted"
    BY Zenon, <1>1 DEF ExecuteClaim, IsAmbiguous
  <2>2. row.status \in {"Dispatching", "Failed"}
    BY Zenon, <1>1 DEF IsAmbiguous, StillReads
  <2>3. Alone
    BY <2>2 DEF Alone, Admits
  <2>4. CASE class = "ReadOnly"
    <3>1. "Cancelled" \in TrueWords /\ Untouched(row.attempts > 0) /\ Untouched(TRUE)
      BY <2>4 DEF TrueWords, Words, IsTrueWord, Untouched, Guarded
    <3>2. CASE winding
      <4>1. RecoverAmbiguous = SettleAndTell
        BY Zenon, <2>4, <3>2 DEF RecoverAmbiguous
      <4> QED
        BY Zenon, <2>1, <3>1, <3>2, <4>1, Lists DEF Form
    <3>3. CASE ~winding
      <4>1. RecoverAmbiguous = <<Do("fail", "burn")>>
        BY Zenon, <2>4, <3>3 DEF RecoverAmbiguous
      <4> QED
        BY Zenon, <2>1, <2>3, <3>1, <4>1, Lists DEF Form
    <3> QED
      BY Zenon, <3>2, <3>3
  <2>5. CASE class = "Idempotent"
    <3>1. Untouched(TRUE)
      BY Zenon, <2>5 DEF Untouched
    <3>2. RecoverAmbiguous = <<Do("fail", "burn")>>
      BY <2>5 DEF RecoverAmbiguous
    <3> QED
      BY Zenon, <2>1, <2>3, <3>1, <3>2, Lists DEF Form
  <2>6. CASE class = "Reconcileable"
    <3>1. RecoverAmbiguous = <<Do("reconcile", IF winding THEN "winding" ELSE "live")>>
      BY <2>6 DEF RecoverAmbiguous
    <3> QED
      BY Zenon, <2>1, <2>3, <2>6, <3>1, Lists DEF Form
  <2>7. CASE class = "NonIdempotent"
    <3>1. RecoverAmbiguous = ParkIndeterminate
      BY <2>7 DEF RecoverAmbiguous
    <3> QED
      BY Zenon, <2>1, <3>1, SettlingForm
  <2> QED
    BY Zenon, <2>4, <2>5, <2>6, <2>7 DEF WordTypes, Classes
<1>2. CASE ~IsAmbiguous(status)
  <2>1. ExecuteClaim(status, attempt) = IF winding /\ ~exempt THEN SettleAndTell ELSE AttemptInvocation(attempt)
    BY <1>2 DEF ExecuteClaim
  <2>2. ExecuteClaim(status, attempt) \in Seq(Steps)
    BY Zenon, <2>1, Lists, AttemptInvocationSteps
  <2>3. CASE status = "Exhausted"
    <3>1. row.status = "Exhausted"
      BY Zenon, <2>3 DEF StillReads
    <3>2. ~FenceActive
      BY <3>1 DEF Admits
    <3>3. CASE winding /\ ~exempt
      <4>1. ExecuteClaim(status, attempt) = SettleAndTell
        BY Zenon, <2>1, <3>3
      <4> QED
        BY Zenon, <2>2, <2>3, <3>1, <3>2, <3>3, <4>1
    <3>4. CASE ~(winding /\ ~exempt)
      <4>1. ExecuteClaim(status, attempt) = AttemptInvocation(attempt) /\ AttemptInvocation(attempt) # SettleAndTell
        <5>1. Op(SettleAndTell) = "row"
          BY DEF SettleAndTell, Op, Do
        <5> QED
          BY Zenon, <2>1, <3>4, <5>1, AttemptInvocationSteps
      <4> QED
        BY Zenon, <2>2, <2>3, <3>1, <3>2, <4>1
    <3> QED
      BY Zenon, <3>3, <3>4
  <2>4. CASE status # "Exhausted"
    <3>1. Untouched(row.attempts > 0) /\ (class \in {"Reconcileable", "NonIdempotent"} => row.status \in Admits)
      <4>1. CASE row.status \in Admits
        BY Zenon, <4>1 DEF RowFacts
      <4>2. CASE row.status \notin Admits
        <5>1. row.status = status /\ status = "Failed"
          BY Zenon, <1>2, <2>4, <4>2 DEF StillReads, Admits, RowFacts, Rows, Statuses, IsAmbiguous
        <5>2. row.attempts > 0 /\ class \in {"ReadOnly", "Idempotent"}
          BY Zenon, <1>2, <5>1 DEF RowFacts, IsAmbiguous, WordTypes, Classes
        <5> QED
          BY Zenon, <5>2 DEF Untouched
      <4> QED
        BY Zenon, <4>1, <4>2
    <3>2. CASE winding /\ ~exempt
      <4>1. "Cancelled" \in TrueWords
        BY Zenon, <3>1 DEF TrueWords, Words, IsTrueWord, Untouched, Guarded
      <4> QED
        BY Zenon, <2>1, <2>2, <2>4, <3>1, <3>2, <4>1 DEF Form
    <3>3. CASE ~(winding /\ ~exempt)
      <4>1. Alone
        BY Zenon, <3>3 DEF Alone, RowFacts, Closed
      <4>2. Untouched(attempt > 1)
        <5>1. attempt > 1 <=> row.attempts > 0
          BY DEF StillReads, RowFacts, Rows
        <5> QED
          BY Zenon, <3>1, <5>1 DEF Untouched
      <4>3. AttemptInvocation(attempt) # FromCredential(attempt)
        BY Zenon, AttemptInvocationSteps, AttemptSteps
      <4> QED
        BY Zenon, <2>1, <2>2, <2>4, <3>3, <4>1, <4>2, <4>3, AttemptForm DEF Form
    <3> QED
      BY Zenon, <3>2, <3>3
  <2> QED
    BY Zenon, <2>2, <2>3, <2>4
<1> QED
  BY Zenon, <1>1, <1>2

LEMMA DecideKeeps ==
    ASSUME Kept, NEW w \in Workers, IsCurrentClaim(w), Decide(w)
    PROVE  Kept'
<1> DEFINE status == Now(w).arg
           attempt == Now(w).attempt
           todo == ExecuteClaim(status, attempt)
<1>1. WordTypes /\ RowFacts /\ PassFacts /\ worker[w].holds /\ retaken \in Nat
  BY DEF Kept, IsCurrentClaim, WordTypes
<1>2. /\ Then(w, todo) /\ entry' = entry /\ UNCHANGED <<class, exempt, winding, effect, row, target>>
      /\ retaken' = IF effect = "Ready" /\ status = "Exhausted" THEN retaken + 1 ELSE retaken
      /\ Now(w).op = "decide" /\ worker[w].todo # <<>>
  BY Zenon DEF Decide, run, Doing, IsIdle
<1>3. Form(worker[w].todo)
  BY Zenon, <1>1 DEF PassFacts, HolderInv
<1>4. /\ status \in Statuses /\ attempt \in Nat
      /\ effect = "Ready" => StillReads(status, attempt)
  BY Zenon, <1>1, <1>2, <1>3, ByStep
<1>5. row.status # "None"
  BY Zenon, <1>1, RowExists
<1>6. FenceActive /\ effect = "Ready" => row.status \in Admits /\ winding /\ ~exempt
  BY Zenon, <1>1 DEF FenceActive, PassFacts, FencerInv
<1>7. CASE effect # "Ready"
  <2>1. todo = SettleTicketCancelled
    BY Zenon, <1>7 DEF ExecuteClaim
  <2>2. todo \in Seq(Steps) /\ Form(todo)
    BY Zenon, <1>7, <2>1, SettlingForm
  <2>3. retaken' = retaken
    BY Zenon, <1>2, <1>7
  <2> QED
    BY Zenon, <1>2, <2>2, <2>3, QuietStep
<1>8. CASE effect = "Ready" /\ status # "Exhausted"
  <2>1. todo \in Seq(Steps) /\ Form(todo)
    BY Zenon, <1>1, <1>4, <1>5, <1>6, <1>8, ClaimForm
  <2>2. retaken' = retaken
    BY Zenon, <1>2, <1>8
  <2> QED
    BY Zenon, <1>2, <2>1, <2>2, QuietStep
<1>9. CASE effect = "Ready" /\ status = "Exhausted"
  <2>0. PICK a \in Nat : attempt = a
    BY Zenon, <1>4
  <2>1. /\ todo \in Seq(Steps) /\ ~FenceActive /\ row.status = "Exhausted"
        /\ todo \in {SettleAndTell, AttemptInvocation(a)}
        /\ todo = SettleAndTell => winding
    BY Zenon, <2>0, <1>1, <1>4, <1>5, <1>6, <1>9, ClaimForm
  <2>2. retaken' \in Nat /\ retaken' # 0 /\ target'.executed \in Nat
    BY <1>1, <1>2, <1>9 DEF WordTypes
  <2>3. "Cancelled" \in TrueWords' /\ Untouched(a > 1)' /\ Untouched(row.attempts > 0)'
    <3>1. row'.attempts > 0 /\ a > 1
      BY <1>1, <1>2, <1>4, <1>9, <2>0, <2>1 DEF RowFacts, Rows, StillReads
    <3>2. ASSUME NEW further, further PROVE Untouched(further)'
      BY Zenon, <1>1, <1>2, <2>2, <3>2 DEF Untouched, Guarded, WordTypes, Classes
    <3>3. "Cancelled" \in TrueWords'
      BY Zenon, <2>2 DEF TrueWords, Words, IsTrueWord
    <3> QED
      BY Zenon, <3>1, <3>2, <3>3
  <2>4. RowFacts'
    <3>1. row' = row /\ row'.status = "Exhausted" /\ row.status = "Exhausted"
      BY Zenon, <1>2, <2>1
    <3>2. row'.status \notin Admits
      BY <3>1 DEF Admits
    <3> QED
      BY Zenon, <1>1, <3>1, <3>2 DEF RowFacts
  <2>5. ~FenceActive'
    BY Zenon, <1>1, <1>2, <2>1, FenceStays
  <2>6. worker'[w].todo = todo
    BY Zenon, <1>1, <1>2, <2>1, Turns
  <2>7. Form(worker[w].todo)'
    <3>1. CASE todo = SettleAndTell
      <4>1. /\ worker'[w].todo = SettleAndTell' /\ winding'
            /\ "Cancelled" \in TrueWords'
        BY Zenon, <1>2, <2>1, <2>3, <2>6, <3>1 DEF SettleAndTell, Do
      <4> QED
        BY Zenon, <2>3, <4>1 DEF Form
    <3>2. CASE todo = AttemptInvocation(a)
      <4>1. Alone'
        BY Zenon, <1>2, <1>9, <2>1, <2>5 DEF Alone
      <4>2. worker'[w].todo = AttemptInvocation(a) /\ AttemptInvocation(a) # FromCredential(a)
        BY Zenon, <2>6, <3>2, AttemptInvocationSteps, AttemptSteps
      <4>3. /\ worker'[w].todo \in {FromAuthorize("covered", a), FromAuthorize("spent", a),
                                   FromStart(a), FromCredential(a)}
            /\ Alone' /\ Untouched(a > 1)'
            /\ worker'[w].todo = FromCredential(a) => row'.status = "Dispatching"
        BY Zenon, <2>3, <4>1, <4>2, AttemptForm
      <4> QED
        BY Zenon, <4>3 DEF Form
    <3> QED
      BY Zenon, <2>1, <3>1, <3>2
  <2>8. effect' \in TrueWords' \cup {"Ready"}
    BY Zenon, <1>2, <1>9
  <2> QED
    BY Zenon, <1>2, <2>1, <2>2, <2>4, <2>7, <2>8, ClaimantStep
<1> QED
  BY Zenon, <1>7, <1>8, <1>9

LEMMA AuthorizeKeeps ==
    ASSUME Kept, NEW w \in Workers, IsCurrentClaim(w), Authorize(w)
    PROVE  Kept'
<1>1. WordTypes /\ Form(worker[w].todo) /\ worker[w].todo # <<>>
  BY Zenon DEF Kept, PassFacts, HolderInv, IsCurrentClaim
<1>2. /\ Now(w).op = "authorize" /\ entry' = entry
      /\ UNCHANGED <<class, exempt, winding, effect, row, target, retaken>>
      /\ \/ Then(w, Tail(worker[w].todo))
         \/ Then(w, SettleUndispatchable(Now(w).attempt))
         \/ Then(w, <<Do("fleet", "RetryScheduled")>>)
  BY Zenon DEF Authorize, Doing, run
<1>3. PICK attempt \in Nat :
         /\ Now(w).attempt = attempt /\ Tail(worker[w].todo) = FromStart(attempt)
         /\ Alone /\ Untouched(attempt > 1)
  BY Zenon, <1>1, <1>2, ByStep
<1>4. FromStart(attempt) \in Seq(Steps) /\ Form(FromStart(attempt))
  <2>1. FromStart(attempt) \in Seq(Steps) /\ FromStart(attempt) # FromCredential(attempt)
    BY Zenon, AttemptSteps
  <2> QED
    BY Zenon, <1>3, <2>1 DEF Form
<1>5. SettleUndispatchable(attempt) \in Seq(Steps) /\ Form(SettleUndispatchable(attempt))
  BY Zenon, <1>3, UndispatchableForm
<1>6. <<Do("fleet", "RetryScheduled")>> \in Seq(Steps) /\ Form(<<Do("fleet", "RetryScheduled")>>)
  BY Zenon, SettlingForm
<1>7. \E todo \in Seq(Steps) : Then(w, todo) /\ Form(todo)
  BY Zenon, <1>2, <1>3, <1>4, <1>5, <1>6
<1> QED
  BY Zenon, <1>2, <1>7, QuietStep

LEMMA StartKeeps ==
    ASSUME Kept, NEW w \in Workers, IsCurrentClaim(w), Start(w)
    PROVE  Kept'
<1>1. /\ WordTypes /\ RowFacts /\ Form(worker[w].todo) /\ worker[w].todo # <<>>
      /\ worker[w].holds
  BY Zenon DEF Kept, PassFacts, HolderInv, IsCurrentClaim
<1>2. /\ Now(w).op = "start" /\ entry' = entry /\ row' = RowWrite(row, "Dispatching")
      /\ UNCHANGED <<class, exempt, winding, effect, target, retaken>>
      /\ Then(w, Tail(worker[w].todo))
  BY Zenon DEF Start, Doing, run, history
<1>3. PICK attempt \in Nat :
         Tail(worker[w].todo) = FromCredential(attempt) /\ Alone /\ Untouched(attempt > 1)
  BY Zenon, <1>1, <1>2, ByStep
<1>4. row' \in Rows /\ row'.status = "Dispatching"
  BY Zenon, <1>1, <1>2 DEF RowWrite, MarkDispatching, RowFacts, Rows, Statuses
<1>5. effect = "Ready" /\ effect' = "Ready" /\ ~FenceActive
  BY Zenon, <1>2, <1>3 DEF Alone
<1>6. RowFacts'
  BY Zenon, <1>4, <1>5 DEF RowFacts, Admits
<1>7. FromCredential(attempt) \in Seq(Steps) /\ Then(w, FromCredential(attempt))
  BY Zenon, <1>2, <1>3, AttemptSteps
<1>8. worker'[w].todo = FromCredential(attempt) /\ ~FenceActive'
  BY Zenon, <1>1, <1>5, <1>7, Turns, FenceStays
<1>9. Alone' /\ Untouched(attempt > 1)'
  <2>1. Alone'
    BY Zenon, <1>4, <1>5, <1>8 DEF Alone
  <2>2. Untouched(attempt > 1)'
    BY Zenon, <1>2, <1>3, TargetStays
  <2> QED
    BY Zenon, <2>1, <2>2
<1>10. Form(worker[w].todo)'
  BY Zenon, <1>4, <1>8, <1>9 DEF Form
<1>11. target'.executed \in Nat /\ retaken' \in Nat /\ effect' \in TrueWords' \cup {"Ready"}
  BY Zenon, <1>1, <1>2, <1>5 DEF WordTypes
<1> QED
  BY Zenon, <1>2, <1>5, <1>6, <1>7, <1>10, <1>11, ClaimantStep

LEMMA CredentialKeeps ==
    ASSUME Kept, NEW w \in Workers, IsCurrentClaim(w), ResolveCredential(w)
    PROVE  Kept'
<1>1. WordTypes /\ Form(worker[w].todo) /\ worker[w].todo # <<>>
  BY Zenon DEF Kept, PassFacts, HolderInv, IsCurrentClaim
<1>2. /\ Now(w).op = "credential" /\ entry' = entry
      /\ UNCHANGED <<class, exempt, winding, effect, row, target, retaken>>
      /\ \/ Then(w, Tail(worker[w].todo))
         \/ Then(w, SettleUndispatchable(Now(w).attempt))
         \/ \E cause \in {"attempt", "definitive"} : Then(w, <<Do("fail", cause)>>)
  BY Zenon DEF ResolveCredential, Doing, run, history
<1>3. PICK attempt \in Nat :
         /\ Now(w).attempt = attempt /\ Tail(worker[w].todo) = FromInvoke
         /\ Alone /\ Untouched(attempt > 1) /\ row.status = "Dispatching"
  BY Zenon, <1>1, <1>2, ByStep
<1>4. FromInvoke \in Seq(Steps) /\ Form(FromInvoke)
  BY Zenon, <1>3, AttemptSteps DEF Form
<1>5. SettleUndispatchable(attempt) \in Seq(Steps) /\ Form(SettleUndispatchable(attempt))
  BY Zenon, <1>3, UndispatchableForm
<1>6. ASSUME NEW cause \in {"attempt", "definitive"}
      PROVE  <<Do("fail", cause)>> \in Seq(Steps) /\ Form(<<Do("fail", cause)>>)
  <2>1. cause \in {"burn", "attempt", "definitive", "unknown"} /\ cause # "burn"
    OBVIOUS
  <2> QED
    BY Zenon, <1>3, <2>1, Lists DEF Form
<1>7. \E todo \in Seq(Steps) : Then(w, todo) /\ Form(todo)
  BY Zenon, <1>2, <1>3, <1>4, <1>5, <1>6
<1> QED
  BY Zenon, <1>2, <1>7, QuietStep

LEMMA ReconcileKeeps ==
    ASSUME Kept, NEW w \in Workers, IsCurrentClaim(w), Reconcile(w)
    PROVE  Kept'
<1>1. WordTypes /\ Form(worker[w].todo) /\ worker[w].todo # <<>>
  BY Zenon DEF Kept, PassFacts, HolderInv, IsCurrentClaim
<1>2. /\ Now(w).op = "reconcile" /\ entry' = entry
      /\ UNCHANGED <<class, exempt, winding, effect, row, target, retaken>>
  BY Zenon DEF Reconcile, Doing, run, history
<1>3. /\ Now(w).arg \in {"winding", "live"} /\ Alone /\ class = "Reconcileable"
      /\ Now(w).arg = "winding" => winding
  BY Zenon, <1>1, <1>2, ByStep
<1>4. ParkIndeterminate \in Seq(Steps) /\ Form(ParkIndeterminate)
  BY Zenon, SettlingForm
<1>5. ASSUME target.executed > 0, NEW word \in {"Succeeded", "Failed"}
      PROVE  Conclude(word) \in Seq(Steps) /\ Form(Conclude(word))
  <2>1. word \in TrueWords
    BY Zenon, <1>5 DEF TrueWords, Words, IsTrueWord
  <2> QED
    BY Zenon, <2>1, SettlingForm
<1>6. ASSUME target.executed = 0, winding PROVE SettleAndTell \in Seq(Steps) /\ Form(SettleAndTell)
  <2>1. "Cancelled" \in TrueWords /\ Untouched(row.attempts > 0)
    BY <1>6 DEF TrueWords, Words, IsTrueWord, Untouched
  <2> QED
    BY Zenon, <1>6, <2>1, Lists DEF Form
<1>7. ASSUME target.executed = 0
      PROVE  <<Do("fail", "burn")>> \in Seq(Steps) /\ Form(<<Do("fail", "burn")>>)
  <2>1. Untouched(TRUE)
    BY <1>7 DEF Untouched
  <2> QED
    BY Zenon, <1>3, <2>1, Lists DEF Form
<1>8. <<Do("fail", "unknown")>> \in Seq(Steps) /\ Form(<<Do("fail", "unknown")>>)
  BY Zenon, <1>3, Lists DEF Form
<1>9. \E todo \in Seq(Steps) : Then(w, todo) /\ Form(todo)
  <2>1. CASE Then(w, ParkIndeterminate)
    BY Zenon, <1>4, <2>1
  <2>2. CASE target.executed > 0 /\ \E word \in {"Succeeded", "Failed"} : Then(w, Conclude(word))
    BY Zenon, <1>5, <2>2
  <2>3. CASE /\ target.executed = 0
             /\ Then(w, IF Now(w).arg = "winding" THEN SettleAndTell ELSE <<Do("fail", "burn")>>)
    BY Zenon, <1>3, <1>6, <1>7, <2>3
  <2>4. CASE Then(w, IF Now(w).arg = "winding" THEN ParkIndeterminate ELSE <<Do("fail", "unknown")>>)
    BY Zenon, <1>4, <1>8, <2>4
  <2> QED
    BY Zenon, <2>1, <2>2, <2>3, <2>4 DEF Reconcile
<1> QED
  BY Zenon, <1>2, <1>9, QuietStep

\* After an invocation the pass tells the truth about it, asks, or records a failure.
LEMMA InvokeKeeps ==
    ASSUME Kept, NEW w \in Workers, IsCurrentClaim(w), Invoke(w)
    PROVE  Kept'
<1>1. /\ WordTypes /\ RowFacts /\ Form(worker[w].todo) /\ worker[w].todo # <<>>
      /\ worker[w].holds /\ class \in Classes /\ target.executed \in Nat /\ retaken \in Nat
  BY Zenon DEF Kept, PassFacts, HolderInv, IsCurrentClaim, WordTypes
<1>2. /\ Now(w).op = "invoke" /\ entry' = entry
      /\ UNCHANGED <<class, exempt, winding, effect, row, retaken>>
  BY Zenon DEF Invoke, Doing, run
<1>3. Alone /\ row.status = "Dispatching"
  BY Zenon, <1>1, <1>2, ByStep
<1>4. effect = "Ready" /\ effect' = "Ready" /\ ~FenceActive
  BY Zenon, <1>2, <1>3 DEF Alone
<1>5. PICK called \in {0, 1}, executed \in {0, 1},
           answer \in {"ok", "failed", "attempt", "definitive", "unknown"} :
         /\ answer = "ok" => executed = 1
         /\ target' = [calls |-> target.calls + called, executed |-> target.executed + executed]
         /\ Then(w, CASE answer = "ok" -> Conclude("Succeeded")
                      [] answer = "failed" -> Conclude("Failed")
                      [] answer = "unknown" -> SettleUnknownOutcome
                      [] answer \in {"attempt", "definitive"} -> <<Do("fail", answer)>>)
  BY Zenon DEF Invoke
<1>6. target'.executed \in Nat /\ (answer = "ok" => target'.executed > 0) /\ retaken' \in Nat
  BY <1>1, <1>2, <1>5
<1>7. RowFacts'
  BY Zenon, <1>1, <1>2, <1>3, <1>4 DEF RowFacts, Admits
<1>8. PICK todo \in Seq(Steps) :
         /\ Then(w, todo)
         /\ \/ todo = Conclude("Succeeded") /\ answer = "ok"
            \/ todo = Conclude("Failed")
            \/ todo = ParkIndeterminate
            \/ todo = <<Do("reconcile", "live")>> /\ class = "Reconcileable"
            \/ \E cause \in {"attempt", "definitive"} : todo = <<Do("fail", cause)>>
  <2>1. CASE answer = "ok"
    <3>1. Conclude("Succeeded") \in Seq(Steps)
      BY Zenon, SettlingLists
    <3>2. Then(w, Conclude("Succeeded"))
      BY Zenon, <1>5, <2>1
    <3> QED
      BY Zenon, <2>1, <3>1, <3>2
  <2>2. CASE answer = "unknown"
    <3>1. Then(w, SettleUnknownOutcome)
      BY Zenon, <1>5, <2>2
    <3>2. ParkIndeterminate \in Seq(Steps)
      BY Zenon, SettlingForm
    <3>3. CASE class \in {"ReadOnly", "Idempotent"}
      <4>1. SettleUnknownOutcome = <<Do("fail", "attempt")>>
        BY <3>3 DEF SettleUnknownOutcome
      <4> QED
        BY Zenon, <3>1, <4>1, Lists
    <3>4. CASE class = "Reconcileable"
      <4>1. SettleUnknownOutcome = <<Do("reconcile", "live")>>
        BY <3>4 DEF SettleUnknownOutcome
      <4> QED
        BY Zenon, <3>1, <3>4, <4>1, Lists
    <3>5. CASE class = "NonIdempotent"
      <4>1. SettleUnknownOutcome = ParkIndeterminate
        BY <3>5 DEF SettleUnknownOutcome
      <4> QED
        BY Zenon, <3>1, <3>2, <4>1
    <3> QED
      BY Zenon, <1>1, <3>3, <3>4, <3>5 DEF Classes
  <2>3. CASE answer \in {"attempt", "definitive"}
    <3>1. Then(w, <<Do("fail", answer)>>)
      BY Zenon, <1>5, <2>3
    <3> QED
      BY Zenon, <2>3, <3>1, Lists
  <2>4. CASE answer = "failed"
    <3>1. Conclude("Failed") \in Seq(Steps)
      BY Zenon, SettlingLists
    <3>2. Then(w, Conclude("Failed"))
      BY Zenon, <1>5, <2>4
    <3> QED
      BY Zenon, <3>1, <3>2
  <2> QED
    BY Zenon, <2>1, <2>2, <2>3, <2>4
<1>9. worker'[w].todo = todo /\ ~FenceActive'
  BY Zenon, <1>1, <1>4, <1>8, Turns, FenceStays
<1>10. Alone'
  BY Zenon, <1>2, <1>3, <1>9 DEF Alone
<1>11. {"Failed", "Indeterminate", "Exhausted"} \subseteq TrueWords' /\ (answer = "ok" => "Succeeded" \in TrueWords')
  BY <1>6 DEF TrueWords, Words, IsTrueWord
<1>12. Form(worker[w].todo)'
  <2>1. CASE todo = Conclude("Succeeded") /\ answer = "ok"
    <3>1. Settling(todo, effect' # "Ready", TrueWords')
      BY Zenon, <1>11, <2>1, SettlingLists
    <3> QED
      BY Zenon, <1>9, <3>1 DEF Form
  <2>2. CASE todo = ParkIndeterminate
    <3>1. Settling(todo, effect' # "Ready", TrueWords')
      BY Zenon, <1>11, <2>2, SettlingLists
    <3> QED
      BY Zenon, <1>9, <3>1 DEF Form
  <2>3. CASE todo = <<Do("reconcile", "live")>> /\ class = "Reconcileable"
    BY Zenon, <1>2, <1>9, <1>10, <2>3 DEF Form
  <2>4. ASSUME NEW cause \in {"attempt", "definitive"}, todo = <<Do("fail", cause)>>
        PROVE  Form(worker[w].todo)'
    <3>1. cause \in {"burn", "attempt", "definitive", "unknown"} /\ cause # "burn"
      OBVIOUS
    <3> QED
      BY Zenon, <1>9, <1>10, <2>4, <3>1 DEF Form
  <2>5. CASE todo = Conclude("Failed")
    <3>1. Settling(todo, effect' # "Ready", TrueWords')
      BY Zenon, <1>11, <2>5, SettlingLists
    <3> QED
      BY Zenon, <1>9, <3>1 DEF Form
  <2> QED
    BY Zenon, <1>8, <2>1, <2>2, <2>3, <2>4, <2>5
<1> QED
  BY Zenon, <1>2, <1>4, <1>6, <1>7, <1>8, <1>12, ClaimantStep

LEMMA RecordAttemptKeeps ==
    ASSUME Kept, NEW w \in Workers, IsCurrentClaim(w), RecordAttempt(w)
    PROVE  Kept'
<1>1. /\ WordTypes /\ RowFacts /\ Form(worker[w].todo) /\ worker[w].todo # <<>>
      /\ worker[w].holds /\ target.executed \in Nat /\ retaken \in Nat
  BY Zenon DEF Kept, PassFacts, HolderInv, IsCurrentClaim, WordTypes
<1>2. /\ Now(w).op = "fail" /\ entry' = entry
      /\ UNCHANGED <<class, exempt, winding, effect, target, retaken>>
      /\ row' = IF Now(w).arg = "definitive" THEN RecordExhausted(row) ELSE RecordFailure(row)
      /\ Then(w, AfterFailure(Now(w).arg, row'))
  BY Zenon DEF RecordAttempt, Doing, run, history
<1>3. PICK cause \in {"burn", "attempt", "definitive", "unknown"} :
         Now(w).arg = cause /\ Alone /\ (cause = "burn" => Untouched(TRUE))
  BY Zenon, <1>1, <1>2, ByStep
<1>4. effect = "Ready" /\ effect' = "Ready" /\ ~FenceActive
  BY Zenon, <1>2, <1>3 DEF Alone
<1>5. /\ row' \in Rows /\ row'.status \in {"Exhausted", "Failed"} /\ row'.attempts > 0
      /\ row'.status = "Failed" => class # "NonIdempotent"
  <2>1. row \in Rows /\ row.attempts \in Nat
    BY Zenon, <1>1 DEF RowFacts, Rows
  <2>2. CASE row' = RecordExhausted(row)
    BY <2>1, <2>2 DEF RecordExhausted, Rows, Statuses
  <2>3. CASE row' = RecordFailure(row)
    <3>1. class = "NonIdempotent" => row.attempts + 1 >= Budget
      BY <2>1 DEF Budget
    <3> QED
      BY <2>1, <2>3, <3>1 DEF RecordFailure, Rows, Statuses
  <2> QED
    BY Zenon, <1>2, <2>2, <2>3
<1>6. RowFacts'
  BY Zenon, <1>2, <1>4, <1>5 DEF RowFacts, Admits
<1>7. PICK next \in Nat : next = row'.attempts + 1 /\ next > 1
  BY <1>5 DEF Rows
<1>8. PICK todo \in Seq(Steps) :
         /\ Then(w, todo)
         /\ \/ todo \in {Exhaust, ParkExhausted, <<Do("fleet", "RetryScheduled")>>}
            \/ todo = AttemptInvocation(next) /\ cause = "burn"
  <2>1. Then(w, AfterFailure(cause, row'))
    BY Zenon, <1>2, <1>3
  <2>2. \/ AfterFailure(cause, row') \in {Exhaust, ParkExhausted, <<Do("fleet", "RetryScheduled")>>}
        \/ AfterFailure(cause, row') = AttemptInvocation(next) /\ cause = "burn"
    BY <1>7 DEF AfterFailure
  <2> QED
    BY Zenon, <1>7, <2>1, <2>2, SettlingForm, AttemptInvocationSteps
<1>9. worker'[w].todo = todo /\ ~FenceActive'
  BY Zenon, <1>1, <1>4, <1>8, Turns, FenceStays
<1>10. Form(worker[w].todo)'
  <2>1. CASE todo \in {Exhaust, ParkExhausted, <<Do("fleet", "RetryScheduled")>>}
    <3>1. {"Indeterminate", "Exhausted"} \subseteq TrueWords'
      BY Zenon DEF TrueWords, Words, IsTrueWord
    <3>2. Settling(todo, effect' # "Ready", TrueWords')
      BY Zenon, <2>1, <3>1, SettlingLists
    <3> QED
      BY Zenon, <1>9, <3>2 DEF Form
  <2>2. CASE todo = AttemptInvocation(next) /\ cause = "burn"
    <3>1. Alone'
      BY Zenon, <1>4, <1>5, <1>9 DEF Alone
    <3>2. Untouched(next > 1)'
      <4>1. Untouched(TRUE)'
        BY Zenon, <1>2, <1>3, <2>2, TargetStays
      <4> QED
        BY Zenon, <1>7, <4>1 DEF Untouched
    <3>3. AttemptInvocation(next) # FromCredential(next)
      BY Zenon, <1>7, AttemptInvocationSteps, AttemptSteps
    <3>4. /\ worker'[w].todo \in {FromAuthorize("covered", next), FromAuthorize("spent", next),
                                 FromStart(next), FromCredential(next)}
          /\ Alone' /\ Untouched(next > 1)'
          /\ worker'[w].todo = FromCredential(next) => row'.status = "Dispatching"
      BY Zenon, <1>9, <2>2, <3>1, <3>2, <3>3, AttemptForm
    <3> QED
      BY Zenon, <1>7, <3>4 DEF Form
  <2> QED
    BY Zenon, <1>8, <2>1, <2>2
<1>11. target'.executed \in Nat /\ retaken' \in Nat
  BY Zenon, <1>1, <1>2
<1> QED
  BY Zenon, <1>2, <1>4, <1>6, <1>8, <1>10, <1>11, ClaimantStep

------------------------------------------------------------------------------
(* The steps that settle the effect, whether the claim is still current. *)

LEMMA RowWrites ==
    ASSUME NEW r \in Rows
    PROVE  /\ RowWrite(r, "Cancelled") \in Rows /\ RowWrite(r, "Cancelled").attempts = r.attempts
           /\ \/ RowWrite(r, "Cancelled").status = r.status
              \/ RowWrite(r, "Cancelled").status = "Cancelled" /\ r.status \in {"Pending", "Dispatching", "Failed"}
           /\ RowWrite(r, "Dispatched") \in Rows /\ RowWrite(r, "Dispatched").attempts = r.attempts
           /\ RowWrite(r, "Dispatched").status = "Dispatched"
           /\ RowWrite(r, "Scheduled") =
                 IF r.status = "None" THEN [status |-> "Pending", attempts |-> 0] ELSE r
<1>1. RowWrite(r, "Cancelled") = IF IsCancellable(r) THEN [r EXCEPT !.status = "Cancelled"] ELSE r
  BY DEF RowWrite, RecordCancelled
<1>2. RowWrite(r, "Dispatched") = [r EXCEPT !.status = "Dispatched"]
  BY DEF RowWrite, RecordSuccess
<1>3. RowWrite(r, "Scheduled") = IF r.status = "None" THEN [status |-> "Pending", attempts |-> 0] ELSE r
  BY DEF RowWrite, ScheduleOutbox
<1>4. /\ RowWrite(r, "Cancelled") \in Rows /\ RowWrite(r, "Cancelled").attempts = r.attempts
      /\ \/ RowWrite(r, "Cancelled").status = r.status
         \/ RowWrite(r, "Cancelled").status = "Cancelled" /\ r.status \in {"Pending", "Dispatching", "Failed"}
  BY <1>1 DEF IsCancellable, Rows, Statuses
<1>5. /\ RowWrite(r, "Dispatched") \in Rows /\ RowWrite(r, "Dispatched").attempts = r.attempts
      /\ RowWrite(r, "Dispatched").status = "Dispatched"
  BY Zenon, <1>2 DEF Rows, Statuses
<1> QED
  BY Zenon, <1>3, <1>4, <1>5

\* A row that is settled when the run was told, or withdrawn from a run that does not
\* want it when nothing was executed.
LEMMA RowWritten ==
    ASSUME RowFacts, row' \in Rows, row'.attempts = row.attempts,
           row'.status \in {row.status, "Cancelled", "Dispatched"},
           entry' = entry, UNCHANGED <<class, exempt, winding, effect, target, retaken>>,
           effect = "Ready" =>
              \/ row'.status = row.status
              \/ row'.status = "Cancelled" /\ (exempt \/ winding) /\ Untouched(row.attempts > 0)
    PROVE  RowFacts'
<1>1. Untouched(row.attempts > 0)' <=> Untouched(row.attempts > 0)
  BY Zenon DEF Untouched, Guarded
<1>2. Closed' <=> Closed
  BY DEF Closed
<1>3. CASE row'.status = row.status
  BY Zenon, <1>1, <1>2, <1>3 DEF RowFacts
<1>4. CASE row'.status = "Cancelled"
  <2>1. Closed' \/ exempt'
    BY Zenon, <1>4 DEF Closed, RowFacts
  <2>2. effect' = "Ready" => Untouched(row.attempts > 0)'
    BY Zenon, <1>1, <1>4 DEF RowFacts, Admits
  <2> QED
    BY Zenon, <1>4, <2>1, <2>2 DEF RowFacts
<1>5. CASE row'.status = "Dispatched" /\ effect # "Ready"
  BY <1>5 DEF RowFacts
<1> QED
  BY Zenon, <1>3, <1>4, <1>5

\* A pass that lost its claim has only an entry that is settled behind it.
LEMMA LateStep ==
    ASSUME Kept, NEW w \in Workers, worker[w].holds, ~IsCurrentClaim(w),
           NEW todo \in Seq(Steps), Then(w, todo),
           entry' = entry, UNCHANGED <<class, exempt, winding, target, retaken>>,
           effect' \in TrueWords \cup {"Ready"}, effect # "Ready" => effect' # "Ready",
           RowFacts', effect' = "Ready" => row' = row,
           todo # <<>> => Settling(todo, effect' # "Ready", TrueWords)
    PROVE  Kept'
<1>1. WordTypes /\ PassFacts
  BY DEF Kept
<1>2. /\ worker' \in [Workers -> [todo : Seq(Steps), holds : BOOLEAN]]
      /\ worker'[w].todo = todo
      /\ worker'[w].holds <=> todo # <<>> /\ worker[w].holds
      /\ \A v \in Workers : v # w => worker'[v] = worker[v]
  BY Zenon, <1>1, Turns
<1>3. TrueWords' = TrueWords
  BY Zenon, TargetStays
<1>4. WordTypes'
  BY Zenon, <1>1, <1>2, <1>3 DEF WordTypes
<1>5. IsTerminalEntry /\ IsTerminalEntry'
  BY Zenon, <1>1 DEF PassFacts, HolderInv, IsTerminalEntry
<1>6. ASSUME NEW v \in Workers, worker'[v].holds PROVE HolderInv(v)'
  <2>1. worker'[v].todo # <<>> /\ Settling(worker'[v].todo, effect' # "Ready", TrueWords')
    <3>1. CASE v = w
      BY Zenon, <1>2, <1>3, <1>6, <3>1
    <3>2. CASE v # w
      <4>1. worker'[v] = worker[v] /\ HolderInv(v) /\ ~IsCurrentClaim(v)
        <5>1. ~IsCurrentClaim(v)
          BY Zenon, <1>5 DEF IsTerminalEntry, IsCurrentClaim
        <5> QED
          BY Zenon, <1>1, <1>2, <1>6, <3>2, <5>1 DEF PassFacts
      <4>2. worker[v].todo # <<>> /\ Settling(worker[v].todo, effect # "Ready", TrueWords)
        BY Zenon, <4>1 DEF HolderInv
      <4> QED
        BY Zenon, <1>3, <4>1, <4>2, SettlingStays
    <3> QED
      BY Zenon, <3>1, <3>2
  <2>2. Form(worker[v].todo)'
    BY Zenon, <2>1 DEF Form
  <2> QED
    BY Zenon, <1>5, <2>1, <2>2 DEF HolderInv
<1>7. ASSUME NEW v \in Workers, ~worker'[v].holds PROVE FencerInv(v)'
  <2>1. CASE v = w
    BY Zenon, <1>2, <1>7, <2>1 DEF FencerInv
  <2>2. CASE v # w
    BY Zenon, <1>1, <1>2, <1>7, <2>2 DEF PassFacts, FencerInv
  <2> QED
    BY Zenon, <2>1, <2>2
<1>8. PassFacts'
  BY Zenon, <1>6, <1>7 DEF PassFacts
<1> QED
  BY Zenon, <1>4, <1>8 DEF Kept

\* The same under the current claim.
LEMMA SettlingStep ==
    ASSUME Kept, NEW w \in Workers, worker[w].holds, NEW todo \in Seq(Steps), Then(w, todo),
           entry' = entry, UNCHANGED <<class, exempt, winding, target, retaken>>,
           effect' \in TrueWords \cup {"Ready"}, effect # "Ready" => effect' # "Ready",
           RowFacts', effect' = "Ready" => row' = row,
           todo # <<>> => Settling(todo, effect' # "Ready", TrueWords)
    PROVE  Kept'
<1>1. CASE ~IsCurrentClaim(w)
  BY Zenon, <1>1, LateStep
<1>2. CASE IsCurrentClaim(w)
  <2>1. WordTypes /\ PassFacts
    BY DEF Kept
  <2>2. TrueWords' = TrueWords
    BY Zenon, TargetStays
  <2>3. target'.executed \in Nat /\ retaken' \in Nat /\ effect' \in TrueWords' \cup {"Ready"}
    BY Zenon, <2>1, <2>2 DEF WordTypes
  <2>4. FenceActive /\ effect' = "Ready" => row'.status \in Admits
    BY Zenon, <2>1 DEF FenceActive, PassFacts, FencerInv
  <2>5. worker'[w].todo = todo
    BY Zenon, <2>1, Turns
  <2>6. todo # <<>> => Form(worker[w].todo)'
    BY Zenon, <2>2, <2>5 DEF Form
  <2> QED
    BY Zenon, <1>2, <2>3, <2>4, <2>6, ClaimantStep
<1> QED
  BY Zenon, <1>1, <1>2

LEMMA HolderWriteRowKeeps ==
    ASSUME Kept, NEW w \in Workers, worker[w].holds, WriteRow(w)
    PROVE  Kept'
<1> DEFINE todo == worker[w].todo
<1>1. /\ WordTypes /\ RowFacts /\ PassFacts /\ HolderInv(w) /\ Form(todo) /\ todo # <<>>
      /\ todo \in Seq(Steps) /\ row \in Rows
  BY Zenon DEF Kept, PassFacts, HolderInv, WordTypes, RowFacts
<1>2. /\ Now(w).op = "row" /\ entry' = entry /\ row' = RowWrite(row, Now(w).arg)
      /\ UNCHANGED <<class, exempt, winding, effect, target, retaken>>
      /\ Then(w, Tail(todo))
  BY Zenon DEF WriteRow, Doing, run, history
<1>3. Tail(todo) \in Seq(Steps)
  BY <1>1
<1>4. effect \in TrueWords \cup {"Ready"}
  BY Zenon, <1>1 DEF WordTypes
<1>5. CASE Settling(todo, effect # "Ready", TrueWords)
  <2>1. Now(w).arg \in {"Cancelled", "Dispatched"} /\ effect # "Ready"
    BY Zenon, <1>1, <1>2, <1>5, SettlingHead DEF Now
  <2>2. Settling(Tail(todo), effect # "Ready", TrueWords)
    BY Zenon, <1>1, <1>5, <2>1, SettlingTail
  <2>3. row' \in Rows /\ row'.attempts = row.attempts /\ row'.status \in {row.status, "Cancelled", "Dispatched"}
    <3>1. CASE Now(w).arg = "Cancelled"
      <4>1. row' = RowWrite(row, "Cancelled")
        BY Zenon, <1>2, <3>1
      <4> QED
        BY Zenon, <1>1, <4>1, RowWrites
    <3>2. CASE Now(w).arg = "Dispatched"
      <4>1. row' = RowWrite(row, "Dispatched")
        BY Zenon, <1>2, <3>2
      <4> QED
        BY Zenon, <1>1, <4>1, RowWrites
    <3> QED
      BY Zenon, <2>1, <3>1, <3>2
  <2>4. RowFacts'
    BY Zenon, <1>1, <1>2, <2>1, <2>3, RowWritten
  <2> QED
    BY Zenon, <1>2, <1>3, <1>4, <2>1, <2>2, <2>4, SettlingStep
<1>6. CASE /\ todo = SettleAndTell /\ ~Settling(todo, effect # "Ready", TrueWords)
           /\ effect = "Ready" => Untouched(row.attempts > 0) /\ (exempt \/ winding)
           /\ "Cancelled" \in TrueWords
  <2>1. IsCurrentClaim(w)
    BY Zenon, <1>1, <1>6 DEF HolderInv
  <2>2. Now(w).arg = "Cancelled"
    BY <1>6 DEF Now, SettleAndTell, Do
  <2>3. /\ row' \in Rows /\ row'.attempts = row.attempts
        /\ \/ row'.status = row.status
           \/ row'.status = "Cancelled"
    <3>1. row' = RowWrite(row, "Cancelled")
      BY Zenon, <1>2, <2>2
    <3> QED
      BY Zenon, <1>1, <3>1, RowWrites
  <2>4. RowFacts'
    BY Zenon, <1>1, <1>2, <1>6, <2>3, RowWritten
  <2>5. TrueWords' = TrueWords
    BY Zenon, <1>2, TargetStays
  <2>6. Settling(Tail(todo), effect' # "Ready", TrueWords')
    BY Zenon, <1>6, <2>5, SettlingLists
  <2>7. worker'[w].todo = Tail(todo)
    BY Zenon, <1>1, <1>2, <1>3, Turns
  <2>8. Form(worker[w].todo)'
    BY Zenon, <2>6, <2>7 DEF Form
  <2>9. FenceActive /\ effect' = "Ready" => row'.status \in Admits
    <3>1. FenceActive /\ effect = "Ready" => row.status \in Admits
      BY Zenon, <1>1 DEF FenceActive, PassFacts, FencerInv
    <3> QED
      BY Zenon, <1>2, <2>3, <3>1 DEF Admits
  <2>10. target'.executed \in Nat /\ retaken' \in Nat /\ effect' \in TrueWords' \cup {"Ready"}
    BY Zenon, <1>1, <1>2, <2>5 DEF WordTypes
  <2> QED
    BY Zenon, <1>2, <1>3, <2>1, <2>4, <2>8, <2>9, <2>10, ClaimantStep
<1> QED
  BY Zenon, <1>1, <1>2, <1>5, <1>6, ByStep

LEMMA HolderDeliverKeeps ==
    ASSUME Kept, NEW w \in Workers, worker[w].holds, DeliverOutcome(w)
    PROVE  Kept'
<1> DEFINE todo == worker[w].todo
<1>1. /\ WordTypes /\ RowFacts /\ PassFacts /\ Form(todo) /\ todo # <<>>
      /\ todo \in Seq(Steps) /\ effect \in TrueWords \cup {"Ready"}
  BY Zenon DEF Kept, PassFacts, HolderInv, WordTypes
<1>2. /\ Now(w).op = "deliver" /\ entry' = entry
      /\ effect' = IF effect = "Ready" THEN Now(w).arg ELSE effect
      /\ UNCHANGED <<class, exempt, winding, row, target, retaken>>
      /\ Then(w, Tail(todo))
  BY Zenon DEF DeliverOutcome, Doing, run, history
<1>3. Settling(todo, effect # "Ready", TrueWords)
  BY Zenon, <1>1, <1>2, ByStep
<1>4. Now(w).arg \in TrueWords
  BY Zenon, <1>1, <1>2, <1>3, SettlingHead DEF Now
<1>5. effect' \in TrueWords /\ effect' # "Ready"
  BY Zenon, <1>1, <1>2, <1>4 DEF TrueWords, Words
<1>6. Tail(todo) \in Seq(Steps)
  BY <1>1
<1>7. Settling(Tail(todo), effect' # "Ready", TrueWords)
  BY Zenon, <1>1, <1>3, <1>5, SettlingTail
<1>8. RowFacts'
  BY Zenon, <1>1, <1>2, <1>5 DEF RowFacts, Closed
<1> QED
  BY Zenon, <1>2, <1>5, <1>6, <1>7, <1>8, SettlingStep

LEMMA HolderFleetKeeps ==
    ASSUME Kept, NEW w \in Workers, worker[w].holds, WriteFleet(w)
    PROVE  Kept'
<1> DEFINE todo == worker[w].todo
<1>1. /\ WordTypes /\ RowFacts /\ PassFacts /\ Form(todo) /\ todo # <<>>
      /\ todo \in Seq(Steps) /\ effect \in TrueWords \cup {"Ready"}
  BY Zenon DEF Kept, PassFacts, HolderInv, WordTypes
<1>2. /\ Now(w).op = "fleet"
      /\ UNCHANGED <<class, exempt, winding, effect, row, target, retaken>>
      /\ \/ /\ IsCurrentClaim(w)
            /\ entry' = [NoEntry EXCEPT !.status = Now(w).arg]
            /\ Then(w, Tail(worker[w].todo))
         \/ ~IsCurrentClaim(w) /\ entry' = entry /\ Then(w, <<>>)
  BY Zenon DEF WriteFleet, Doing, run, history
<1>3. Settling(todo, effect # "Ready", TrueWords)
  BY Zenon, <1>1, <1>2, ByStep
<1>4. row.status # "None"
  BY Zenon, <1>1, RowExists
<1>5. Untouched(row.attempts > 0)' <=> Untouched(row.attempts > 0)
  BY <1>2 DEF Untouched, Guarded
<1>6. Closed' <=> Closed
  BY Zenon, <1>2 DEF Closed
<1>7. RowFacts'
  BY Zenon, <1>1, <1>2, <1>4, <1>5, <1>6 DEF RowFacts
<1>8. CASE ~IsCurrentClaim(w)
  <2>1. <<>> \in Seq(Steps)
    OBVIOUS
  <2> QED
    BY Zenon, <1>1, <1>2, <1>7, <1>8, <2>1, LateStep
<1>9. CASE IsCurrentClaim(w)
  <2>1. /\ entry' = [status |-> Now(w).arg, holder |-> NoWorker, live |-> FALSE]
        /\ Then(w, Tail(todo)) /\ Tail(todo) \in Seq(Steps)
    BY <1>1, <1>2, <1>9 DEF NoEntry
  <2>2. /\ worker' \in [Workers -> [todo : Seq(Steps), holds : BOOLEAN]]
        /\ worker'[w].todo = Tail(todo)
        /\ worker'[w].holds <=> Tail(todo) # <<>> /\ worker[w].holds
        /\ \A v \in Workers : v # w => worker'[v] = worker[v]
    BY Zenon, <1>1, <2>1, Turns
  <2>3. TrueWords' = TrueWords
    BY Zenon, <1>2, TargetStays
  <2>4. WordTypes'
    <3>1. entry' = [status |-> entry'.status, holder |-> entry'.holder, live |-> entry'.live]
      BY Zenon, <2>1
    <3> QED
      BY Zenon, <1>1, <1>2, <2>2, <2>3, <3>1 DEF WordTypes
  <2>5. Now(w).arg \in {"Completed", "Exhausted", "Cancelled"} \/ Tail(todo) = <<>>
    BY Zenon, <1>1, <1>2, <1>3, SettlingHead DEF Now
  <2>6. ASSUME NEW v \in Workers, worker'[v].holds PROVE HolderInv(v)'
    <3>1. v = w /\ Tail(todo) # <<>>
      BY Zenon, <1>1, <1>9, <2>2, <2>6, OnlyHolder
    <3>2. IsTerminalEntry'
      BY Zenon, <2>1, <2>5, <3>1 DEF IsTerminalEntry
    <3>3. Settling(worker'[v].todo, effect' # "Ready", TrueWords')
      <4>1. effect' = effect /\ Op(todo) # "deliver"
        BY Zenon, <1>1, <1>2 DEF Op, Now
      <4>2. Settling(Tail(todo), effect # "Ready", TrueWords)
        BY Zenon, <1>1, <1>3, <4>1, SettlingTail
      <4> QED
        BY Zenon, <2>2, <2>3, <3>1, <4>1, <4>2
    <3>4. Form(worker[v].todo)'
      BY Zenon, <3>3 DEF Form
    <3> QED
      BY Zenon, <2>2, <3>1, <3>2, <3>3, <3>4 DEF HolderInv
  <2>7. ASSUME NEW v \in Workers, ~worker'[v].holds PROVE FencerInv(v)'
    <3>1. CASE v = w
      BY Zenon, <2>2, <2>7, <3>1 DEF FencerInv
    <3>2. CASE v # w
      BY Zenon, <1>1, <1>2, <2>2, <2>7, <3>2 DEF PassFacts, FencerInv
    <3> QED
      BY Zenon, <3>1, <3>2
  <2>8. PassFacts'
    BY Zenon, <2>6, <2>7 DEF PassFacts
  <2> QED
    BY Zenon, <1>7, <2>4, <2>8 DEF Kept
<1> QED
  BY Zenon, <1>8, <1>9

------------------------------------------------------------------------------
(* The fence, and what the pass of a claim sees of it. *)

\* What others may do without disturbing a pass.
LEMMA FormStays ==
    ASSUME NEW v \in Workers, Form(worker[v].todo), worker'[v].todo = worker[v].todo,
           UNCHANGED <<class, exempt, target, retaken>>, winding => winding',
           effect # "Ready" => effect' # "Ready",
           Alone => Alone' /\ row' = row,
           effect' = "Ready" =>
              /\ row'.attempts = row.attempts
              /\ \/ row'.status = row.status
                 \/ row.status = "Pending" /\ row'.status = "Cancelled" /\ winding' /\ ~exempt
    PROVE  Form(worker[v].todo)'
<1> DEFINE todo == worker[v].todo
<1>1. TrueWords' = TrueWords /\ \A further : Untouched(further)' <=> Untouched(further)
  BY Zenon, TargetStays
<1>2. effect' = "Ready" => effect = "Ready" /\ (Untouched(row.attempts > 0)' <=> Untouched(row.attempts > 0))
  BY Zenon DEF Untouched, Guarded
<1>3. ASSUME NEW status \in Statuses, NEW attempt \in Nat, effect' = "Ready", StillReads(status, attempt)
      PROVE  StillReads(status, attempt)'
  BY <1>3 DEF StillReads
<1>4. CASE Settling(todo, effect # "Ready", TrueWords)
  <2>1. Settling(todo, effect' # "Ready", TrueWords')
    BY Zenon, <1>1, <1>4, SettlingStays
  <2> QED
    BY Zenon, <2>1 DEF Form
<1>5. CASE ~Settling(todo, effect # "Ready", TrueWords)
  BY Zenon, <1>1, <1>2, <1>3, <1>5 DEF Form
<1> QED
  BY Zenon, <1>4, <1>5

\* A step of the fence: it schedules the row, withdraws a row nobody marked, or tells
\* the run.  No claim's pass is past its decision meanwhile.
LEMMA FencerStep ==
    ASSUME Kept, NEW w \in Workers, ~worker[w].holds, worker[w].todo # <<>>,
           NEW todo \in FenceForms \cup {<<>>}, todo \in Seq(Steps), Then(w, todo),
           entry' = entry, UNCHANGED <<class, exempt, winding, target, retaken>>,
           effect' \in TrueWords \cup {"Ready"}, effect # "Ready" => effect' # "Ready", RowFacts',
           effect' = "Ready" =>
              /\ row'.status \in Admits /\ row'.attempts = row.attempts
              /\ \/ row'.status = row.status
                 \/ row.status = "None"
                 \/ row.status = "Pending" /\ row'.status = "Cancelled"
    PROVE  Kept'
<1>1. WordTypes /\ RowFacts /\ PassFacts
  BY DEF Kept
<1>2. /\ worker' \in [Workers -> [todo : Seq(Steps), holds : BOOLEAN]]
      /\ worker'[w].todo = todo
      /\ worker'[w].holds <=> todo # <<>> /\ worker[w].holds
      /\ \A v \in Workers : v # w => worker'[v] = worker[v]
  BY Zenon, <1>1, Turns
<1>3. TrueWords' = TrueWords
  BY Zenon, TargetStays
<1>4. WordTypes'
  BY Zenon, <1>1, <1>2, <1>3 DEF WordTypes
<1>5. winding /\ ~exempt /\ FenceActive /\ ~Alone
  BY Zenon, <1>1 DEF PassFacts, FencerInv, FenceActive, Alone
<1>6. ASSUME NEW v \in Workers, worker'[v].holds PROVE HolderInv(v)'
  <2>1. v # w /\ worker'[v] = worker[v] /\ worker[v].holds
    BY Zenon, <1>2, <1>6
  <2>2. HolderInv(v) /\ Form(worker[v].todo) /\ row.status # "None"
    BY Zenon, <1>1, <2>1, RowExists DEF PassFacts, HolderInv
  <2>3. Form(worker[v].todo)'
    BY Zenon, <1>5, <2>1, <2>2, FormStays
  <2>4. IsCurrentClaim(v) => IsCurrentClaim(v)'
    BY Zenon, <2>1 DEF IsCurrentClaim
  <2>5. IsTerminalEntry => IsTerminalEntry'
    BY Zenon DEF IsTerminalEntry
  <2>6. Settling(worker[v].todo, effect # "Ready", TrueWords)
          => Settling(worker'[v].todo, effect' # "Ready", TrueWords')
    BY Zenon, <1>3, <2>1, SettlingStays
  <2> QED
    BY Zenon, <2>1, <2>2, <2>3, <2>4, <2>5, <2>6 DEF HolderInv
<1>7. ASSUME NEW v \in Workers, ~worker'[v].holds PROVE FencerInv(v)'
  <2>1. CASE v = w
    BY Zenon, <1>2, <1>5, <2>1 DEF FencerInv
  <2>2. CASE v # w
    BY Zenon, <1>1, <1>2, <1>5, <1>7, <2>2 DEF PassFacts, FencerInv
  <2> QED
    BY Zenon, <2>1, <2>2
<1>8. PassFacts'
  BY Zenon, <1>6, <1>7 DEF PassFacts
<1> QED
  BY Zenon, <1>4, <1>8 DEF Kept

LEMMA FenceLists ==
    /\ FenceTombstone \in Seq(Steps) /\ Op(FenceTombstone) = "row"
    /\ Head(FenceTombstone).arg = "Scheduled"
    /\ Tail(FenceTombstone) \in Seq(Steps) /\ Op(Tail(FenceTombstone)) = "row"
    /\ Head(Tail(FenceTombstone)).arg = "Cancelled"
    /\ Tail(Tail(FenceTombstone)) = <<Do("deliver", "Cancelled")>>
    /\ <<Do("deliver", "Cancelled")>> \in Seq(Steps) /\ Op(<<Do("deliver", "Cancelled")>>) = "deliver"
    /\ Head(<<Do("deliver", "Cancelled")>>).arg = "Cancelled"
    /\ Tail(<<Do("deliver", "Cancelled")>>) = <<>>
    /\ <<>> \in Seq(Steps)
<1>1. Tail(FenceTombstone) = <<Do("row", "Cancelled"), Do("deliver", "Cancelled")>>
  BY DEF FenceTombstone
<1>2. FenceTombstone \in Seq(Steps) /\ Op(FenceTombstone) = "row" /\ Head(FenceTombstone).arg = "Scheduled"
  BY DEF FenceTombstone, Op, Do, Steps, Statuses
<1>3. /\ Tail(FenceTombstone) \in Seq(Steps) /\ Op(Tail(FenceTombstone)) = "row"
      /\ Head(Tail(FenceTombstone)).arg = "Cancelled"
      /\ Tail(Tail(FenceTombstone)) = <<Do("deliver", "Cancelled")>>
  <2> DEFINE rest == <<Do("row", "Cancelled"), Do("deliver", "Cancelled")>>
  <2>1. rest \in Seq(Steps) /\ Op(rest) = "row" /\ Head(rest).arg = "Cancelled"
    BY DEF Op, Do, Steps, Statuses
  <2>2. Tail(rest) = <<Do("deliver", "Cancelled")>>
    OBVIOUS
  <2> HIDE DEF rest
  <2>3. Tail(FenceTombstone) = rest
    BY Zenon, <1>1 DEF rest
  <2> QED
    BY Zenon, <2>1, <2>2, <2>3
<1>4. /\ <<Do("deliver", "Cancelled")>> \in Seq(Steps) /\ Op(<<Do("deliver", "Cancelled")>>) = "deliver"
      /\ Head(<<Do("deliver", "Cancelled")>>).arg = "Cancelled"
      /\ Tail(<<Do("deliver", "Cancelled")>>) = <<>>
      /\ <<>> \in Seq(Steps)
  BY DEF Op, Do, Steps, Statuses
<1> QED
  BY Zenon, <1>2, <1>3, <1>4

\* Where the fence is.
LEMMA FenceAt ==
    ASSUME Kept, NEW w \in Workers, ~worker[w].holds, worker[w].todo # <<>>
    PROVE  /\ winding /\ ~exempt /\ (effect = "Ready" => row.status \in Admits)
           /\ Tail(worker[w].todo) \in Seq(Steps)
           /\ \/ /\ Now(w).op = "row" /\ Now(w).arg = "Scheduled"
                 /\ Tail(worker[w].todo) = Tail(FenceTombstone)
              \/ /\ Now(w).op = "row" /\ Now(w).arg = "Cancelled"
                 /\ Tail(worker[w].todo) = <<Do("deliver", "Cancelled")>>
              \/ Now(w).op = "deliver" /\ Now(w).arg = "Cancelled" /\ Tail(worker[w].todo) = <<>>
<1> DEFINE todo == worker[w].todo
<1>1. winding /\ ~exempt /\ todo \in FenceForms /\ (effect = "Ready" => row.status \in Admits)
  BY Zenon DEF Kept, PassFacts, FencerInv
<1>2. Op(todo) = Now(w).op
  BY Zenon DEF Op, Now
<1>3. CASE todo = FenceTombstone
  BY Zenon, <1>1, <1>2, <1>3, FenceLists DEF Now
<1>4. CASE todo = Tail(FenceTombstone)
  BY Zenon, <1>1, <1>2, <1>4, FenceLists DEF Now
<1>5. CASE todo = <<Do("deliver", "Cancelled")>>
  BY Zenon, <1>1, <1>2, <1>5, FenceLists DEF Now
<1> QED
  BY Zenon, <1>1, <1>3, <1>4, <1>5 DEF FenceForms

LEMMA FenceWriteRowKeeps ==
    ASSUME Kept, NEW w \in Workers, ~worker[w].holds, WriteRow(w)
    PROVE  Kept'
<1>1. /\ Now(w).op = "row" /\ entry' = entry /\ row' = RowWrite(row, Now(w).arg)
      /\ UNCHANGED <<class, exempt, winding, effect, target, retaken>>
      /\ Then(w, Tail(worker[w].todo)) /\ worker[w].todo # <<>>
  BY Zenon DEF WriteRow, Doing, run, history, IsIdle
<1>2. /\ winding /\ ~exempt /\ (effect = "Ready" => row.status \in Admits)
      /\ Tail(worker[w].todo) \in Seq(Steps)
      /\ \/ Now(w).arg = "Scheduled" /\ Tail(worker[w].todo) = Tail(FenceTombstone)
         \/ Now(w).arg = "Cancelled" /\ Tail(worker[w].todo) = <<Do("deliver", "Cancelled")>>
  BY Zenon, <1>1, FenceAt
<1>3. RowFacts /\ row \in Rows /\ effect \in TrueWords \cup {"Ready"} /\ (row.status = "None" => row.attempts = 0)
  BY Zenon DEF Kept, RowFacts, WordTypes
<1>4. Tail(worker[w].todo) \in FenceForms \cup {<<>>}
  BY Zenon, <1>2 DEF FenceForms
<1>5. Closed' <=> Closed
  BY Zenon, <1>1 DEF Closed
<1>6. CASE Now(w).arg = "Scheduled" /\ row.status = "None"
  <2>1. row' = [status |-> "Pending", attempts |-> 0]
    <3>1. row' = RowWrite(row, "Scheduled")
      BY Zenon, <1>1, <1>6
    <3> QED
      BY Zenon, <1>3, <1>6, <3>1, RowWrites
  <2>2. row'.status = "Pending" /\ row'.attempts = row.attempts /\ row' \in Rows /\ row'.status \in Admits
    BY Zenon, <1>3, <1>6, <2>1 DEF Rows, Statuses, Admits
  <2>3. Untouched(row.attempts > 0)' <=> Untouched(row.attempts > 0)
    BY Zenon, <1>1, <2>2 DEF Untouched, Guarded
  <2>4. RowFacts'
    <3>1. effect = "Ready" => Untouched(row.attempts > 0)
      BY Zenon, <1>2, <1>3 DEF RowFacts
    <3> QED
      BY Zenon, <1>1, <2>2, <2>3, <3>1 DEF RowFacts
  <2> QED
    BY Zenon, <1>1, <1>2, <1>3, <1>4, <1>6, <2>2, <2>4, FencerStep
<1>7. CASE Now(w).arg = "Scheduled" /\ row.status # "None"
  <2>1. row' = row
    <3>1. row' = RowWrite(row, "Scheduled")
      BY Zenon, <1>1, <1>7
    <3> QED
      BY <1>3, <1>7, <3>1, RowWrites
  <2>2. RowFacts'
    BY Zenon, <1>1, <1>3, <2>1, RowWritten
  <2> QED
    BY Zenon, <1>1, <1>2, <1>3, <1>4, <2>1, <2>2, FencerStep
<1>8. CASE Now(w).arg = "Cancelled"
  <2>1. row' = RowWrite(row, "Cancelled")
    BY Zenon, <1>1, <1>8
  <2>2. /\ row' \in Rows /\ row'.attempts = row.attempts
        /\ \/ row'.status = row.status
           \/ row'.status = "Cancelled" /\ row.status \in {"Pending", "Dispatching", "Failed"}
    BY Zenon, <1>3, <2>1, RowWrites
  <2>3. effect = "Ready" =>
           /\ row'.status \in Admits /\ Untouched(row.attempts > 0)
           /\ row'.status = row.status \/ (row.status = "Pending" /\ row'.status = "Cancelled")
    BY Zenon, <1>2, <1>3, <2>2 DEF Admits, RowFacts
  <2>4. RowFacts'
    BY Zenon, <1>1, <1>2, <1>3, <2>2, <2>3, RowWritten
  <2> QED
    BY Zenon, <1>1, <1>2, <1>3, <1>4, <2>2, <2>3, <2>4, FencerStep
<1> QED
  BY Zenon, <1>2, <1>6, <1>7, <1>8

LEMMA FenceDeliverKeeps ==
    ASSUME Kept, NEW w \in Workers, ~worker[w].holds, DeliverOutcome(w)
    PROVE  Kept'
<1>1. /\ Now(w).op = "deliver" /\ entry' = entry
      /\ effect' = IF effect = "Ready" THEN Now(w).arg ELSE effect
      /\ UNCHANGED <<class, exempt, winding, row, target, retaken>>
      /\ Then(w, Tail(worker[w].todo)) /\ worker[w].todo # <<>>
  BY Zenon DEF DeliverOutcome, Doing, run, history, IsIdle
<1>2. /\ effect = "Ready" => row.status \in Admits
      /\ Tail(worker[w].todo) \in Seq(Steps) /\ Now(w).arg = "Cancelled" /\ Tail(worker[w].todo) = <<>>
  BY Zenon, <1>1, FenceAt
<1>3. RowFacts /\ effect \in TrueWords \cup {"Ready"}
  BY Zenon DEF Kept, WordTypes
<1>4. effect = "Ready" => "Cancelled" \in TrueWords
  <2> SUFFICES ASSUME effect = "Ready" PROVE "Cancelled" \in TrueWords
    BY Zenon
  <2>1. Untouched(row.attempts > 0)
    BY Zenon, <1>2, <1>3 DEF RowFacts
  <2> QED
    BY Zenon, <2>1 DEF Untouched, TrueWords, Words, IsTrueWord, Guarded
<1>5. effect' \in TrueWords /\ effect' # "Ready"
  BY Zenon, <1>1, <1>2, <1>3, <1>4 DEF TrueWords, Words
<1>6. RowFacts'
  BY Zenon, <1>1, <1>3, <1>5 DEF RowFacts, Closed
<1> QED
  BY Zenon, <1>1, <1>2, <1>5, <1>6, FencerStep

------------------------------------------------------------------------------
(* The other steps. *)

\* A step that leaves the entry alone, ends the pass of at most one worker or opens the
\* fence, and takes nothing from the row.
LEMMA PassesStay ==
    ASSUME Kept, WordTypes', RowFacts', entry' = entry,
           UNCHANGED <<class, exempt, effect, row, target, retaken>>, winding => winding',
           \A v \in Workers :
              \/ worker'[v] = worker[v]
              \/ worker'[v] = Idle
              \/ ~worker'[v].holds /\ FencerInv(v)',
           Alone => ~FenceActive'
    PROVE  Kept'
<1>1. WordTypes /\ PassFacts
  BY DEF Kept
<1>2. Alone => Alone'
  BY Zenon DEF Alone
<1>3. TrueWords' = TrueWords
  BY Zenon, TargetStays
<1>4. ~Idle.holds /\ Idle.todo = <<>>
  BY DEF Idle
<1>5. ASSUME NEW v \in Workers, worker'[v].holds PROVE HolderInv(v)'
  <2>1. worker'[v] = worker[v] /\ worker[v].holds /\ HolderInv(v) /\ Form(worker[v].todo)
    BY Zenon, <1>1, <1>4, <1>5 DEF PassFacts, HolderInv
  <2>2. Form(worker[v].todo)'
    BY Zenon, <1>2, <2>1, FormStays
  <2>3. (IsCurrentClaim(v) => IsCurrentClaim(v)') /\ (IsTerminalEntry => IsTerminalEntry')
    BY Zenon, <2>1 DEF IsCurrentClaim, IsTerminalEntry
  <2>4. Settling(worker[v].todo, effect # "Ready", TrueWords)
          => Settling(worker'[v].todo, effect' # "Ready", TrueWords')
    BY Zenon, <1>3, <2>1
  <2> QED
    BY Zenon, <2>1, <2>2, <2>3, <2>4 DEF HolderInv
<1>6. ASSUME NEW v \in Workers, ~worker'[v].holds PROVE FencerInv(v)'
  <2>1. CASE worker'[v] = worker[v]
    BY Zenon, <1>1, <1>6, <2>1 DEF PassFacts, FencerInv
  <2>2. CASE worker'[v] = Idle
    BY Zenon, <1>4, <2>2 DEF FencerInv
  <2> QED
    BY Zenon, <2>1, <2>2
<1>7. PassFacts'
  BY Zenon, <1>5, <1>6 DEF PassFacts
<1> QED
  BY Zenon, <1>7 DEF Kept

\* The row's facts do not depend on the passes.
LEMMA RowStays ==
    ASSUME RowFacts, UNCHANGED <<class, exempt, effect, row, target, retaken>>, winding => winding',
           row.status = "None" => entry'.status = "None"
    PROVE  RowFacts'
<1>1. Untouched(row.attempts > 0)' <=> Untouched(row.attempts > 0)
  BY Zenon DEF Untouched, Guarded
<1>2. Closed => Closed'
  BY DEF Closed
<1> QED
  BY Zenon, <1>1, <1>2 DEF RowFacts

LEMMA WindDownKeeps ==
    ASSUME Kept, WindDown
    PROVE  Kept'
<1>1. /\ winding' = TRUE
      /\ UNCHANGED <<class, exempt, effect, row, entry, worker, target, retaken>>
  BY Zenon DEF WindDown, history
<1>2. WordTypes'
  <2>1. TrueWords' = TrueWords
    BY Zenon, <1>1, TargetStays
  <2> QED
    BY Zenon, <1>1, <2>1 DEF WordTypes, Kept
<1>3. RowFacts'
  BY Zenon, <1>1, RowStays DEF Kept, RowFacts
<1>4. Alone => ~FenceActive'
  BY Zenon, <1>1 DEF Alone, FenceActive
<1> QED
  BY Zenon, <1>1, <1>2, <1>3, <1>4, PassesStay

LEMMA AbortKeeps ==
    ASSUME Kept, NEW w \in Workers, Abort(w)
    PROVE  Kept'
<1>1. /\ UNCHANGED <<class, exempt, winding, effect, row, entry, target, retaken>>
      /\ Then(w, <<>>)
  BY Zenon DEF Abort, run
<1>2. WordTypes /\ RowFacts
  BY DEF Kept
<1>3. <<>> \in Seq(Steps)
  OBVIOUS
<1>4. /\ worker' \in [Workers -> [todo : Seq(Steps), holds : BOOLEAN]]
      /\ worker'[w].todo = <<>>
      /\ ~worker'[w].holds
      /\ \A v \in Workers : v # w => worker'[v] = worker[v]
  BY Zenon, <1>1, <1>2, <1>3, Turns
<1>5. WordTypes'
  <2>1. TrueWords' = TrueWords
    BY Zenon, <1>1, TargetStays
  <2> QED
    BY Zenon, <1>1, <1>2, <1>4, <2>1 DEF WordTypes
<1>6. RowFacts'
  BY Zenon, <1>1, <1>2, RowStays DEF RowFacts
<1>7. FencerInv(w)'
  BY Zenon, <1>4 DEF FencerInv
<1>8. Alone => ~FenceActive'
  BY Zenon, <1>4 DEF Alone, FenceActive
<1> QED
  BY Zenon, <1>1, <1>4, <1>5, <1>6, <1>7, <1>8, PassesStay

LEMMA FenceRunKeeps ==
    ASSUME Kept, NEW w \in Workers, FenceRun(w)
    PROVE  Kept'
<1>1. /\ UNCHANGED <<class, exempt, winding, effect, row, entry, target, retaken>>
      /\ worker[w].todo = <<>> /\ winding /\ ~exempt /\ effect = "Ready"
      /\ \/ row.status = "None" /\ Then(w, FenceTombstone)
         \/ row.status = "Cancelled" /\ Then(w, <<Do("deliver", "Cancelled")>>)
  BY Zenon DEF FenceRun, IsIdle, run, history
<1>2. WordTypes /\ RowFacts /\ PassFacts
  BY DEF Kept
<1>3. PICK todo \in FenceForms : todo \in Seq(Steps) /\ Then(w, todo) /\ row.status \in {"None", "Cancelled"}
  BY Zenon, <1>1, FenceLists DEF FenceForms
<1>4. ~worker[w].holds
  BY Zenon, <1>1, <1>2 DEF PassFacts, HolderInv
<1>5. /\ worker' \in [Workers -> [todo : Seq(Steps), holds : BOOLEAN]]
      /\ worker'[w].todo = todo
      /\ ~worker'[w].holds
      /\ \A v \in Workers : v # w => worker'[v] = worker[v]
  BY Zenon, <1>2, <1>3, <1>4, Turns
<1>6. WordTypes'
  <2>1. TrueWords' = TrueWords
    BY Zenon, <1>1, TargetStays
  <2> QED
    BY Zenon, <1>1, <1>2, <1>5, <2>1 DEF WordTypes
<1>7. RowFacts'
  BY Zenon, <1>1, <1>2, RowStays DEF RowFacts
<1>8. FencerInv(w)'
  <2>1. row'.status \in Admits
    BY Zenon, <1>1, <1>3 DEF Admits
  <2> QED
    BY Zenon, <1>1, <1>3, <1>5, <2>1 DEF FencerInv
<1>9. CASE row.status = "Cancelled"
  <2>1. ~Alone
    BY Zenon, <1>1, <1>9 DEF Alone
  <2> QED
    BY Zenon, <1>1, <1>5, <1>6, <1>7, <1>8, <2>1, PassesStay
<1>10. CASE row.status = "None"
  <2>1. \A v \in Workers : ~worker[v].holds
    BY Zenon, <1>2, <1>10, RowExists
  <2>2. ASSUME NEW v \in Workers PROVE ~worker'[v].holds /\ FencerInv(v)'
    <3>1. CASE v = w
      BY Zenon, <1>5, <1>8, <3>1
    <3>2. CASE v # w
      BY Zenon, <1>1, <1>2, <1>5, <2>1, <3>2 DEF PassFacts, FencerInv
    <3> QED
      BY Zenon, <3>1, <3>2
  <2>3. PassFacts'
    BY Zenon, <2>2 DEF PassFacts
  <2> QED
    BY Zenon, <1>6, <1>7, <2>3 DEF Kept
<1> QED
  BY Zenon, <1>3, <1>9, <1>10

\* The entry or the row changes while nobody executes a claim.
LEMMA NobodyHolds ==
    ASSUME Kept, \A v \in Workers : ~worker[v].holds,
           UNCHANGED <<class, exempt, winding, effect, worker, target, retaken>>,
           entry' = [status |-> entry'.status, holder |-> entry'.holder, live |-> entry'.live],
           RowFacts', row.status \in Admits => row'.status \in Admits
    PROVE  Kept'
<1>1. WordTypes /\ PassFacts
  BY DEF Kept
<1>2. TrueWords' = TrueWords
  BY Zenon, TargetStays
<1>3. WordTypes'
  BY Zenon, <1>1, <1>2 DEF WordTypes
<1>4. PassFacts'
  BY Zenon, <1>1 DEF PassFacts, FencerInv
<1> QED
  BY Zenon, <1>3, <1>4 DEF Kept

LEMMA FlushWriteKeeps ==
    ASSUME Kept, FlushWrite
    PROVE  Kept'
<1>1. /\ UNCHANGED <<class, exempt, winding, effect, entry, worker, target, retaken>>
      /\ row' = ScheduleOutbox(row)
  BY Zenon DEF FlushWrite, history
<1>2. WordTypes /\ RowFacts /\ PassFacts /\ row \in Rows
  BY DEF Kept, RowFacts
<1>3. CASE row.status # "None"
  <2>1. row' = row
    BY Zenon, <1>1, <1>3 DEF ScheduleOutbox
  <2>2. WordTypes'
    <3>1. TrueWords' = TrueWords
      BY Zenon, <1>1, TargetStays
    <3> QED
      BY Zenon, <1>1, <1>2, <3>1 DEF WordTypes
  <2>3. RowFacts'
    BY Zenon, <1>1, <1>2, <2>1, RowStays DEF RowFacts
  <2>4. Alone => ~FenceActive'
    BY Zenon, <1>1 DEF Alone, FenceActive
  <2> QED
    BY Zenon, <1>1, <2>1, <2>2, <2>3, <2>4, PassesStay
<1>4. CASE row.status = "None"
  <2>1. \A v \in Workers : ~worker[v].holds
    BY Zenon, <1>2, <1>4, RowExists
  <2>2. row' = [status |-> "Pending", attempts |-> 0] /\ row.attempts = 0
    BY Zenon, <1>1, <1>2, <1>4 DEF ScheduleOutbox, RowFacts
  <2>3. row'.status = "Pending" /\ row'.attempts = row.attempts /\ row' \in Rows /\ row'.status \in Admits
    BY Zenon, <2>2 DEF Rows, Statuses, Admits
  <2>4. Untouched(row.attempts > 0)' <=> Untouched(row.attempts > 0)
    BY Zenon, <1>1, <2>3 DEF Untouched, Guarded
  <2>5. RowFacts'
    <3>1. effect = "Ready" => Untouched(row.attempts > 0)
      BY Zenon, <1>2, <1>4 DEF RowFacts, Admits
    <3> QED
      BY Zenon, <1>1, <2>3, <2>4, <3>1 DEF RowFacts
  <2>6. entry' = [status |-> entry'.status, holder |-> entry'.holder, live |-> entry'.live]
    BY Zenon, <1>1, <1>2 DEF WordTypes
  <2> QED
    BY Zenon, <1>1, <2>1, <2>3, <2>5, <2>6, NobodyHolds
<1> QED
  BY Zenon, <1>3, <1>4

LEMMA RegisterKeeps ==
    ASSUME Kept, Register
    PROVE  Kept'
<1>1. /\ UNCHANGED <<class, exempt, winding, effect, row, worker, target, retaken>>
      /\ IsDue(row) /\ entry' = [NoEntry EXCEPT !.status = "Pending"]
      /\ entry.status = "None" \/ (entry.status = "Claimed" /\ ~entry.live)
  BY Zenon DEF Register, history
<1>2. WordTypes /\ RowFacts /\ PassFacts
  BY DEF Kept
<1>3. \A v \in Workers : ~worker[v].holds
  <2>1. ~IsTerminalEntry /\ \A v \in Workers : ~IsCurrentClaim(v)
    BY Zenon, <1>1 DEF IsTerminalEntry, IsCurrentClaim
  <2> QED
    BY Zenon, <1>2, <2>1, NoHolder
<1>4. row.status # "None"
  BY Zenon, <1>1 DEF IsDue
<1>5. entry' = [status |-> entry'.status, holder |-> entry'.holder, live |-> entry'.live]
  BY Zenon, <1>1 DEF NoEntry
<1>6. RowFacts'
  BY Zenon, <1>1, <1>2, <1>4, RowStays
<1> QED
  BY Zenon, <1>1, <1>3, <1>5, <1>6, NobodyHolds

LEMMA LapseKeeps ==
    ASSUME Kept, Lapse
    PROVE  Kept'
<1>1. /\ UNCHANGED <<class, exempt, winding, effect, row, worker, target, retaken>>
      /\ entry.status = "Claimed" /\ ~worker[entry.holder].holds
      /\ entry' = [entry EXCEPT !.live = FALSE]
  BY Zenon DEF Lapse, history
<1>2. WordTypes /\ RowFacts /\ PassFacts
  BY DEF Kept
<1>3. \A v \in Workers : ~worker[v].holds
  <2>1. ~IsTerminalEntry /\ \A v \in Workers : ~IsCurrentClaim(v)
    BY Zenon, <1>1 DEF IsTerminalEntry, IsCurrentClaim
  <2> QED
    BY Zenon, <1>2, <2>1, NoHolder
<1>4. row.status # "None"
  BY Zenon, <1>1, <1>2 DEF RowFacts
<1>5. entry' = [status |-> entry'.status, holder |-> entry'.holder, live |-> entry'.live]
  <2>1. entry = [status |-> entry.status, holder |-> entry.holder, live |-> entry.live]
    BY Zenon, <1>2 DEF WordTypes
  <2> QED
    BY Zenon, <1>1, <2>1
<1>6. RowFacts'
  BY Zenon, <1>1, <1>2, <1>4, RowStays
<1> QED
  BY Zenon, <1>1, <1>3, <1>5, <1>6, NobodyHolds

LEMMA ClaimDueKeeps ==
    ASSUME Kept, NEW w \in Workers, ClaimDue(w)
    PROVE  Kept'
<1> DEFINE p == [todo |-> <<Do("read", "none")>>, holds |-> TRUE]
<1>1. /\ UNCHANGED <<class, exempt, winding, effect, row, target, retaken>>
      /\ IsClaimable /\ entry' = [status |-> "Claimed", holder |-> w, live |-> TRUE]
      /\ worker' = [worker EXCEPT ![w] = p]
  BY Zenon DEF ClaimDue, history
<1>2. WordTypes /\ RowFacts /\ PassFacts
  BY DEF Kept
<1>3. \A v \in Workers : ~worker[v].holds
  <2>1. ~IsTerminalEntry /\ \A v \in Workers : ~IsCurrentClaim(v)
    BY Zenon, <1>1 DEF IsTerminalEntry, IsCurrentClaim, IsClaimable
  <2> QED
    BY Zenon, <1>2, <2>1, NoHolder
<1>4. row.status # "None"
  BY Zenon, <1>1, <1>2 DEF RowFacts, IsClaimable
<1>5. RowFacts'
  BY Zenon, <1>1, <1>2, <1>4, RowStays
<1>6. /\ p \in [todo : Seq(Steps), holds : BOOLEAN] /\ p.holds /\ p.todo = <<Do("read", "none")>>
      /\ p.todo # <<>>
  <2>1. <<Do("read", "none")>> \in Seq(Steps) /\ <<Do("read", "none")>> # <<>>
    BY DEF Do, Steps
  <2> DEFINE todo == <<Do("read", "none")>>
  <2> HIDE DEF todo
  <2>2. [todo |-> todo, holds |-> TRUE] \in [todo : Seq(Steps), holds : BOOLEAN]
    BY Zenon, <2>1 DEF todo
  <2> QED
    BY Zenon, <2>1, <2>2 DEF todo
<1>7. worker \in [Workers -> [todo : Seq(Steps), holds : BOOLEAN]]
  BY Zenon, <1>2 DEF WordTypes
<1> HIDE DEF p
<1>8. /\ worker' \in [Workers -> [todo : Seq(Steps), holds : BOOLEAN]]
      /\ worker'[w] = p
      /\ \A v \in Workers : v # w => worker'[v] = worker[v]
  BY Zenon, <1>1, <1>6, <1>7
<1>9. WordTypes'
  <2>1. TrueWords' = TrueWords
    BY Zenon, <1>1, TargetStays
  <2>2. entry' = [status |-> entry'.status, holder |-> entry'.holder, live |-> entry'.live]
    BY Zenon, <1>1
  <2> QED
    BY Zenon, <1>1, <1>2, <1>8, <2>1, <2>2 DEF WordTypes
<1>10. HolderInv(w)'
  <2>1. IsCurrentClaim(w)'
    BY Zenon, <1>1, <1>6, <1>8 DEF IsCurrentClaim
  <2>2. Form(worker[w].todo)'
    BY Zenon, <1>6, <1>8 DEF Form
  <2> QED
    BY Zenon, <1>6, <1>8, <2>1, <2>2 DEF HolderInv
<1>11. ASSUME NEW v \in Workers, v # w PROVE ~worker'[v].holds /\ FencerInv(v)'
  BY Zenon, <1>1, <1>2, <1>3, <1>8, <1>11 DEF PassFacts, FencerInv
<1>12. PassFacts'
  BY Zenon, <1>6, <1>8, <1>10, <1>11 DEF PassFacts
<1> QED
  BY Zenon, <1>5, <1>9, <1>12 DEF Kept

LEMMA PassStepKeeps ==
    ASSUME Kept, NEW w \in Workers, Step(w)
    PROVE  Kept'
<1> DEFINE todo == worker[w].todo
<1>1. WordTypes /\ PassFacts /\ todo \in Seq(Steps) /\ todo # <<>>
  BY Zenon DEF Kept, WordTypes, Step, ReadRow, Decide, Authorize, Start, ResolveCredential, Invoke,
     Reconcile, RecordAttempt, WriteRow, WriteFleet, DeliverOutcome, Doing, IsIdle
<1>2. CASE ~worker[w].holds
  <2>1. Now(w).op \in {"row", "deliver"}
    BY Zenon, <1>1, <1>2, FenceAt
  <2>2. WriteRow(w) \/ DeliverOutcome(w)
    BY Zenon, <2>1 DEF Step, ReadRow, Decide, Authorize, Start, ResolveCredential, Invoke,
       Reconcile, RecordAttempt, WriteFleet, Doing
  <2> QED
    BY Zenon, <1>2, <2>2, FenceWriteRowKeeps, FenceDeliverKeeps
<1>3. CASE worker[w].holds /\ ~IsCurrentClaim(w)
  <2>1. Settling(todo, effect # "Ready", TrueWords)
    BY Zenon, <1>1, <1>3 DEF PassFacts, HolderInv
  <2>2. Now(w).op \in {"row", "deliver", "fleet"}
    BY Zenon, <1>1, <2>1, SettlingHead DEF Now
  <2>3. WriteRow(w) \/ DeliverOutcome(w) \/ WriteFleet(w)
    BY Zenon, <2>2 DEF Step, ReadRow, Decide, Authorize, Start, ResolveCredential, Invoke,
       Reconcile, RecordAttempt, Doing
  <2> QED
    BY Zenon, <1>3, <2>3, HolderWriteRowKeeps, HolderDeliverKeeps, HolderFleetKeeps
<1>4. CASE worker[w].holds /\ IsCurrentClaim(w)
  BY Zenon, <1>4, ReadRowKeeps, DecideKeeps, AuthorizeKeeps, StartKeeps, CredentialKeeps, InvokeKeeps,
     ReconcileKeeps, RecordAttemptKeeps, HolderWriteRowKeeps, HolderDeliverKeeps, HolderFleetKeeps
     DEF Step
<1> QED
  BY Zenon, <1>2, <1>3, <1>4

------------------------------------------------------------------------------
(* The results. *)

LEMMA InitKept == Init => WordInv
<1> SUFFICES ASSUME Init PROVE overrun = 0 /\ Kept
  BY DEF WordInv
<1>1. /\ class \in Classes /\ exempt \in BOOLEAN /\ winding = FALSE /\ effect = "Ready"
      /\ row = [status |-> "None", attempts |-> 0] /\ entry = NoEntry
      /\ worker = [w \in Workers |-> Idle] /\ target = [calls |-> 0, executed |-> 0]
      /\ overrun = 0 /\ retaken = 0
  BY DEF Init
<1>2. WordTypes
  <2>1. Idle \in [todo : Seq(Steps), holds : BOOLEAN]
    BY DEF Idle
  <2>2. worker \in [Workers -> [todo : Seq(Steps), holds : BOOLEAN]]
    BY Zenon, <1>1, <2>1
  <2>3. entry = [status |-> entry.status, holder |-> entry.holder, live |-> entry.live]
    BY Zenon, <1>1 DEF NoEntry
  <2>4. target.executed \in Nat /\ retaken \in Nat /\ winding \in BOOLEAN
    BY Zenon, <1>1
  <2> QED
    BY Zenon, <1>1, <2>2, <2>3, <2>4 DEF WordTypes
<1>3. RowFacts
  <2>1. row \in Rows /\ row.status = "None" /\ row.attempts = 0 /\ entry.status = "None"
    BY Zenon, <1>1 DEF Rows, Statuses, NoEntry
  <2>2. Untouched(row.attempts > 0)
    BY Zenon, <1>1 DEF Untouched
  <2> QED
    BY <2>1, <2>2 DEF RowFacts
<1>4. PassFacts
  <2>1. \A w \in Workers : ~worker[w].holds /\ worker[w].todo = <<>>
    BY Zenon, <1>1 DEF Idle
  <2> QED
    BY Zenon, <2>1 DEF PassFacts, FencerInv
<1> QED
  BY Zenon, <1>1, <1>2, <1>3, <1>4 DEF Kept

LEMMA WordNext == WordInv /\ [Next]_vars => WordInv'
<1> SUFFICES ASSUME WordInv, [Next]_vars PROVE WordInv'
  BY Zenon
<1>1. overrun \in Nat /\ (overrun = 0 => Kept)
  BY Zenon DEF WordInv
<1>2. CASE Overrun
  <2>1. overrun' = overrun + 1
    BY Zenon, <1>2 DEF Overrun
  <2>2. overrun' \in Nat /\ overrun' # 0
    BY <1>1, <2>1
  <2> QED
    BY Zenon, <2>2 DEF WordInv
<1>3. ASSUME Next, ~Overrun PROVE overrun' = overrun
  BY Zenon, <1>3 DEF Next, WindDown, FlushRead, FlushWrite, Register, Lapse, ClaimDue, Step, FenceRun, Abort,
     ReadRow, Decide, Authorize, Start, ResolveCredential, Invoke, Reconcile, RecordAttempt, WriteRow,
     WriteFleet, DeliverOutcome, history
<1>4. CASE Next /\ ~Overrun /\ overrun = 0
  <2>1. Kept
    BY Zenon, <1>1, <1>4
  <2>2. ASSUME FlushRead PROVE Kept'
    <3>1. /\ UNCHANGED <<class, exempt, winding, effect, row, entry, worker, target, retaken>>
      BY Zenon, <2>2 DEF FlushRead, history
    <3>2. WordTypes'
      <4>1. TrueWords' = TrueWords
        BY Zenon, <3>1, TargetStays
      <4> QED
        BY Zenon, <2>1, <3>1, <4>1 DEF WordTypes, Kept
    <3>3. RowFacts'
      BY Zenon, <2>1, <3>1, RowStays DEF Kept, RowFacts
    <3>4. Alone => ~FenceActive'
      BY Zenon, <3>1 DEF Alone, FenceActive
    <3> QED
      BY Zenon, <2>1, <3>1, <3>2, <3>3, <3>4, PassesStay
  <2>3. Kept'
    BY Zenon, <1>4, <2>1, <2>2, WindDownKeeps, FlushWriteKeeps, RegisterKeeps, LapseKeeps, ClaimDueKeeps,
       PassStepKeeps, FenceRunKeeps, AbortKeeps DEF Next
  <2> QED
    BY Zenon, <1>1, <1>3, <1>4, <2>3 DEF WordInv
<1>5. CASE Next /\ ~Overrun /\ overrun # 0
  BY Zenon, <1>1, <1>3, <1>5 DEF WordInv
<1>6. CASE vars' = vars
  <2>1. UNCHANGED <<class, exempt, winding, effect, row, entry, worker, target, retaken, overrun>>
    BY Zenon, <1>6 DEF vars
  <2>2. ASSUME Kept PROVE Kept'
    <3>1. WordTypes'
      <4>1. TrueWords' = TrueWords
        BY Zenon, <2>1, TargetStays
      <4> QED
        BY Zenon, <2>1, <2>2, <4>1 DEF WordTypes, Kept
    <3>2. RowFacts'
      BY Zenon, <2>1, <2>2, RowStays DEF Kept, RowFacts
    <3>3. Alone => ~FenceActive'
      BY Zenon, <2>1 DEF Alone, FenceActive
    <3> QED
      BY Zenon, <2>1, <2>2, <3>1, <3>2, <3>3, PassesStay
  <2> QED
    BY Zenon, <1>1, <2>1, <2>2 DEF WordInv
<1> QED
  BY Zenon, <1>2, <1>4, <1>5, <1>6

\* The invariant about a run whose workers keep to their leases holds throughout.
THEOREM WordInductive == Spec => []WordInv
BY InitKept, WordNext, PTL DEF Spec

\* The word the run is given is true of what the target did, for any number of workers,
\* attempts and faults (settle_undispatchable, the fence of execute_claim, fence_run).
THEOREM WordHolds == Spec => []WordIsTrue
<1>1. WordInv => WordIsTrue
  <2> SUFFICES ASSUME WordInv, overrun = 0, effect # "Ready" PROVE IsTrueWord(effect)
    BY Zenon DEF WordIsTrue, IsTrueWord
  <2>1. effect \in TrueWords
    BY DEF WordInv, Kept, WordTypes
  <2> QED
    BY Zenon, <2>1 DEF TrueWords
<1> QED
  BY <1>1, WordInductive, PTL

\* No worker invokes the target of an effect whose word the run holds, for any number of
\* workers, attempts and faults: a pass that is about to invoke is alone with the effect.
THEOREM ResolvedUntouched == Spec => ResolvedStaysPut
<1>1. WordInv /\ [Next]_vars => [overrun' = 0 /\ effect # "Ready" => target' = target]_vars
  <2> SUFFICES ASSUME WordInv, Next, overrun' = 0, effect # "Ready" PROVE target' = target
    BY Zenon DEF vars
  <2>1. ~ \E w \in Workers : Invoke(w)
    <3> SUFFICES ASSUME NEW w \in Workers, Invoke(w) PROVE FALSE
      OBVIOUS
    <3>1. overrun = 0 /\ Now(w).op = "invoke" /\ worker[w].todo # <<>>
      BY Zenon DEF Invoke, Doing, IsIdle
    <3>2. Kept
      BY Zenon, <3>1 DEF WordInv
    <3>3. worker[w].holds
      BY Zenon, <3>1, <3>2, FenceAt
    <3>4. WordTypes /\ Form(worker[w].todo)
      BY Zenon, <3>2, <3>3 DEF Kept, PassFacts, HolderInv
    <3>5. Alone
      BY Zenon, <3>1, <3>4, ByStep
    <3> QED
      BY Zenon, <3>5 DEF Alone
  <2> QED
    BY Zenon, <2>1 DEF Next, WindDown, FlushRead, FlushWrite, Register, Lapse, Overrun, ClaimDue, Step,
       FenceRun, Abort, ReadRow, Decide, Authorize, Start, ResolveCredential, Reconcile, RecordAttempt,
       WriteRow, WriteFleet, DeliverOutcome, history
<1> QED
  BY <1>1, WordInductive, PTL DEF Spec, ResolvedStaysPut
=============================================================================
