--------------------------- MODULE EffectDispatch ---------------------------
(***************************************************************************)
(* The dispatch of one effect generation: the run's flush of its ticket to *)
(* the durable outbox, the fleet entry workers lease it through, and every *)
(* durable step a worker takes from its claim to the word it delivers to   *)
(* the run (crates/rakka-agent/src/dispatch.rs, over the outbox rows of    *)
(* rakka-workflow and the fleet index of rakka-agent-workflow).            *)
(*                                                                         *)
(* A worker's pass is the sequence of steps it still has to take: each is  *)
(* one await of the code, between which other workers run, the process can *)
(* die, a compare-and-set can be lost or a lease can lapse.  Time is       *)
(* abstract: a retry is due as soon as it is scheduled, and a lease is     *)
(* live until it lapses.                                                   *)
(***************************************************************************)
EXTENDS Naturals, Sequences, FiniteSets

CONSTANTS
    Workers,        \* the dispatcher workers sharing the fleet index
    NoWorker,       \* the holder of an entry nobody has claimed
    MaxAttempts,    \* the attempt budget of an effect that may be retried
    MaxFaults,      \* bound: aborted passes, overrun leases and deferrals
    OverrunCost     \* how many of these faults an overrun lease counts for

ASSUME DispatchAssumption ==
    /\ IsFiniteSet(Workers) /\ NoWorker \notin Workers
    /\ MaxAttempts \in Nat \ {0}
    /\ MaxFaults \in Nat
    /\ OverrunCost \in Nat \ {0}

VARIABLES
    class,      \* the intent's safety class; fixed
    exempt,     \* its kind is exempt from the wind-down fence; fixed
    effect,     \* the run's record of the generation
    winding,    \* the run has a terminal reason
    flushing,   \* a flush of the ticket has read the run and not yet written
    row,        \* the outbox row: [status, attempts]
    entry,      \* the fleet entry: [status, holder, live]
    worker,     \* the pass of each worker
    target,     \* what the target saw: [calls, executed]
    faults,     \* faults so far
    overrun,    \* history: leases that lapsed under a worker executing them
    retaken,    \* history: claims that found a live intent's row Exhausted
    respent     \* history: those of them with an attempt of the budget left

vars == <<class, exempt, effect, winding, flushing, row, entry, worker,
          target, faults, overrun, retaken, respent>>

Classes == {"ReadOnly", "Idempotent", "Reconcileable", "NonIdempotent"}

-----------------------------------------------------------------------------
(* The outbox row. *)

\* A NonIdempotent policy is validated to a single attempt.
Budget == IF class = "NonIdempotent" THEN 1 ELSE MaxAttempts

IsDue(r) == r.status \in {"Pending", "Failed", "Dispatching"}

IsCancellable(r) == r.status \in {"Pending", "Dispatching", "Failed"}

ScheduleOutbox(r) ==
    IF r.status = "None" THEN [status |-> "Pending", attempts |-> 0] ELSE r

\* Whatever the row's status is.
MarkDispatching(r) == [r EXCEPT !.status = "Dispatching"]

RecordSuccess(r) == [r EXCEPT !.status = "Dispatched"]

RecordCancelled(r) ==
    IF IsCancellable(r) THEN [r EXCEPT !.status = "Cancelled"] ELSE r

RecordFailure(r) ==
    [status |-> IF r.attempts + 1 >= Budget THEN "Exhausted" ELSE "Failed",
     attempts |-> r.attempts + 1]

RecordExhausted(r) ==
    [status |-> "Exhausted", attempts |-> r.attempts + 1]

RowWrite(r, write) ==
    CASE write = "Scheduled"   -> ScheduleOutbox(r)
      [] write = "Dispatching" -> MarkDispatching(r)
      [] write = "Dispatched"  -> RecordSuccess(r)
      [] write = "Cancelled"   -> RecordCancelled(r)

-----------------------------------------------------------------------------
(* The fleet entry. *)

NoEntry == [status |-> "None", holder |-> NoWorker, live |-> FALSE]

IsTerminalEntry == entry.status \in {"Completed", "Exhausted", "Cancelled"}

IsClaimable ==
    \/ entry.status \in {"Pending", "RetryScheduled"}
    \/ entry.status = "Claimed" /\ ~entry.live

\* A worker runs one pass at a time, so the entry's fencing token is the
\* worker's own exactly when the worker is the holder and still executing.
IsCurrentClaim(w) ==
    /\ worker[w].holds
    /\ entry.status = "Claimed"
    /\ entry.holder = w
    /\ entry.live

-----------------------------------------------------------------------------
(* A worker's pass: the steps left to take, and whether it executes a      *)
(* claim.  A step carries what the code read earlier and still uses: the   *)
(* row's status, the wind-down, and the number of the attempt.             *)

Idle == [todo |-> <<>>, holds |-> FALSE]

IsIdle(w) == worker[w].todo = <<>>

Do(op, arg) == [op |-> op, arg |-> arg, attempt |-> 0]

DoAttempt(op, arg, attempt) == [op |-> op, arg |-> arg, attempt |-> attempt]

Now(w) == Head(worker[w].todo)

Doing(w, op) == ~IsIdle(w) /\ Now(w).op = op

With(p, todo) == IF todo = <<>> THEN Idle ELSE [p EXCEPT !.todo = todo]

Then(w, todo) == worker' = [worker EXCEPT ![w] = With(@, todo)]

SettleTicketCancelled == <<Do("row", "Cancelled"), Do("fleet", "Cancelled")>>

\* The row is settled before the word is delivered.
SettleAndTell ==
    <<Do("row", "Cancelled"), Do("fleet", "Cancelled"), Do("deliver", "Cancelled")>>

\* The word is delivered before the row is settled.
ParkIndeterminate ==
    <<Do("deliver", "Indeterminate"), Do("row", "Cancelled"), Do("fleet", "Cancelled")>>

\* The failure whose code says that the dispatch was refused: nothing was invoked.
RefuseDispatch ==
    <<Do("deliver", "Refused"), Do("row", "Cancelled"), Do("fleet", "Cancelled")>>

\* mutant: the ticket is settled before the result is delivered.
ConcludeThenTell(word) ==
    <<Do("row", "Dispatched"), Do("fleet", "Completed"), Do("deliver", word)>>

\* The outcome of a concluded call, whatever it says, is delivered before the
\* ticket is settled.
Conclude(word) ==
    <<Do("deliver", word), Do("row", "Dispatched"), Do("fleet", "Completed")>>

Exhaust == <<Do("fleet", "Exhausted"), Do("deliver", "Exhausted")>>

ParkExhausted ==
    <<Do("fleet", "Exhausted"), Do("deliver", "Indeterminate"),
      Do("row", "Cancelled"), Do("fleet", "Cancelled")>>

\* Whether a grant covers the attempt: it allows as many as the budget.
Cover(attempt) == IF attempt <= Budget THEN "covered" ELSE "spent"

AttemptInvocation(attempt) ==
    <<DoAttempt("authorize", Cover(attempt), attempt), Do("start", "none"),
      DoAttempt("credential", "none", attempt), Do("invoke", "none")>>

\* mutant: a refused recovery retry asserts that nothing was invoked.
RefuseAlways(attempt) == RefuseDispatch

\* A further attempt of an Idempotent effect follows one that may have executed.
SettleUndispatchable(attempt) ==
    IF class = "Idempotent" /\ attempt > 1
    THEN ParkIndeterminate
    ELSE RefuseDispatch

\* Dispatching is the durable ambiguity marker; a Reconcileable intent is
\* ambiguous on a retry-scheduled row too.
IsAmbiguous(status) ==
    \/ status = "Dispatching"
    \/ status = "Failed" /\ class = "Reconcileable"

RecoverAmbiguous ==
    CASE class = "ReadOnly" ->
            IF winding THEN SettleAndTell ELSE <<Do("fail", "burn")>>
      [] class = "Idempotent"    -> <<Do("fail", "burn")>>
      [] class = "Reconcileable" ->
            <<Do("reconcile", IF winding THEN "winding" ELSE "live")>>
      [] class = "NonIdempotent" -> ParkIndeterminate

\* mutant: a claim does not look whether the intent is resolved.
ExecuteClaimBlindly(status, attempt) ==
    CASE IsAmbiguous(status) -> RecoverAmbiguous
      [] ~IsAmbiguous(status) ->
            IF winding /\ ~exempt
            THEN SettleAndTell ELSE AttemptInvocation(attempt)

\* What a claim does, from the row it read and the run as it is now.
ExecuteClaim(status, attempt) ==
    CASE effect # "Ready"        -> SettleTicketCancelled
      [] effect = "Ready" /\ IsAmbiguous(status) -> RecoverAmbiguous
      [] effect = "Ready" /\ ~IsAmbiguous(status) ->
            IF winding /\ ~exempt
            THEN SettleAndTell ELSE AttemptInvocation(attempt)

\* An executor that does not know the outcome of its invocation: the attempt
\* was admitted by the fence, so a wind-down since does not count.
SettleUnknownOutcome ==
    CASE class \in {"ReadOnly", "Idempotent"} -> <<Do("fail", "attempt")>>
      [] class = "Reconcileable" -> <<Do("reconcile", "live")>>
      [] class = "NonIdempotent" -> ParkIndeterminate

\* mutant: a failed attempt is retried at once, without asking the protocol.
RetryAtOnce(cause, r) ==
    CASE r.status = "Exhausted" -> Exhaust
      [] r.status # "Exhausted" /\ cause = "burn" -> AttemptInvocation(r.attempts + 1)
      [] r.status # "Exhausted" /\ cause # "burn" ->
            <<Do("start", "none"), Do("invoke", "none")>>

\* What follows a failure recorded on the row, which leaves it r, by the caller
\* that records it: a burned attempt is followed by the next under the claim.
AfterFailure(cause, r) ==
    CASE r.status = "Exhausted" /\ cause = "unknown" -> ParkExhausted
      [] r.status = "Exhausted" /\ cause # "unknown" -> Exhaust
      [] r.status # "Exhausted" /\ cause = "burn" -> AttemptInvocation(r.attempts + 1)
      [] r.status # "Exhausted" /\ cause # "burn" -> <<Do("fleet", "RetryScheduled")>>

-----------------------------------------------------------------------------
(* The run: its flush of the ticket, and its wind-down. *)

Init ==
    /\ class \in Classes
    /\ exempt \in BOOLEAN
    /\ effect = "Ready"
    /\ winding = FALSE
    /\ flushing = FALSE
    /\ row = [status |-> "None", attempts |-> 0]
    /\ entry = NoEntry
    /\ worker = [w \in Workers |-> Idle]
    /\ target = [calls |-> 0, executed |-> 0]
    /\ faults = 0
    /\ overrun = 0
    /\ retaken = 0
    /\ respent = 0

history == <<target, faults, overrun, retaken, respent>>

WindDown ==
    /\ ~winding
    /\ winding' = TRUE
    /\ UNCHANGED <<class, exempt, effect, flushing, row, entry, worker,
                   history>>

\* The settle pass reads the run, and writes the ticket after an await: the
\* write can land after the run was wound down and fenced.  (A flush that finds
\* the row changes nothing, so only one begun before there is a row matters.)
FlushRead ==
    /\ ~flushing
    /\ effect = "Ready"
    /\ row.status = "None"
    /\ winding => exempt
    /\ flushing' = TRUE
    /\ UNCHANGED <<class, exempt, effect, winding, row, entry, worker,
                   history>>

FlushWrite ==
    /\ flushing
    /\ flushing' = FALSE
    /\ row' = ScheduleOutbox(row)
    /\ UNCHANGED <<class, exempt, effect, winding, entry, worker, history>>

-----------------------------------------------------------------------------
(* The fleet. *)

\* register_run indexes the due row, and frees an entry whose lease lapsed.
Register ==
    /\ IsDue(row)
    /\ \/ entry.status = "None"
       \/ entry.status = "Claimed" /\ ~entry.live
    /\ entry' = [NoEntry EXCEPT !.status = "Pending"]
    /\ UNCHANGED <<class, exempt, effect, winding, flushing, row, worker,
                   history>>

ClaimDue(w) ==
    /\ IsIdle(w)
    /\ IsClaimable
    /\ entry' = [status |-> "Claimed", holder |-> w, live |-> TRUE]
    /\ worker' = [worker EXCEPT ![w] =
            [todo |-> <<Do("read", "none")>>, holds |-> TRUE]]
    /\ UNCHANGED <<class, exempt, effect, winding, flushing, row, history>>

\* The lease of a worker that no longer executes its claim.
Lapse ==
    /\ entry.status = "Claimed" /\ entry.live
    /\ ~worker[entry.holder].holds
    /\ entry' = [entry EXCEPT !.live = FALSE]
    /\ UNCHANGED <<class, exempt, effect, winding, flushing, row, worker,
                   history>>

\* The lease of a worker that is slower than its lease.
Overrun ==
    /\ faults + OverrunCost <= MaxFaults
    /\ entry.status = "Claimed" /\ entry.live
    /\ worker[entry.holder].holds
    /\ entry' = [entry EXCEPT !.live = FALSE]
    /\ faults' = faults + OverrunCost
    /\ overrun' = overrun + 1
    /\ UNCHANGED <<class, exempt, effect, winding, flushing, row, worker,
                   target, retaken, respent>>

-----------------------------------------------------------------------------
(* The steps of a worker's pass. *)

run == <<class, exempt, winding, flushing>>

ReadRow(w) ==
    /\ Doing(w, "read")
    /\ Then(w, <<DoAttempt("decide", row.status, row.attempts + 1)>>)
    /\ UNCHANGED <<run, effect, row, entry, history>>

Decide(w) ==
    /\ Doing(w, "decide")
    /\ Then(w, ExecuteClaim(Now(w).arg, Now(w).attempt))
    /\ IF effect = "Ready" /\ Now(w).arg = "Exhausted"
       THEN /\ retaken' = retaken + 1
            /\ respent' = IF Cover(Now(w).attempt) = "covered" THEN respent + 1 ELSE respent
       ELSE UNCHANGED <<retaken, respent>>
    /\ UNCHANGED <<run, effect, row, entry, target, faults, overrun>>

\* Granted, refused for good, or deferred: a deferral writes only the entry.
\* A grant that does not cover the attempt is a refusal.
Authorize(w) ==
    /\ Doing(w, "authorize")
    /\ \/ /\ Now(w).arg = "covered"
          /\ Then(w, Tail(worker[w].todo))
          /\ faults' = faults
       \/ /\ Then(w, SettleUndispatchable(Now(w).attempt))
          /\ faults' = faults
       \/ /\ faults < MaxFaults
          /\ faults' = faults + 1
          /\ Then(w, <<Do("fleet", "RetryScheduled")>>)
    /\ UNCHANGED <<run, effect, row, entry, target, overrun, retaken, respent>>

\* Durable Started: the row is marked, whoever holds the lease by now.
Start(w) ==
    /\ Doing(w, "start")
    /\ row' = RowWrite(row, "Dispatching")
    /\ Then(w, Tail(worker[w].todo))
    /\ UNCHANGED <<run, effect, entry, history>>

\* Resolved or not needed, no resolver configured, or failed to resolve.
ResolveCredential(w) ==
    /\ Doing(w, "credential")
    /\ \/ Then(w, Tail(worker[w].todo))
       \/ Then(w, SettleUndispatchable(Now(w).attempt))
       \/ \E cause \in {"attempt", "definitive"} :
              Then(w, <<Do("fail", cause)>>)
    /\ UNCHANGED <<run, effect, row, entry, history>>

\* The target executes the request or not, and the executor answers what it
\* can: a failure it reports may be wrong about the target.  A call that was
\* made concludes with a failure when the target's answer is refused (the
\* review of reviewed_tool_outcome and reviewed_model_outcome, a conflict, a
\* refusal of the peer's), and so does one that cannot be made for want of an
\* executor (invoke).
Invoke(w) ==
    /\ Doing(w, "invoke")
    /\ \E called \in {0, 1}, executed \in {0, 1},
          answer \in {"ok", "failed", "attempt", "definitive", "unknown"} :
         /\ executed <= called
         /\ called = 0 => answer = "failed"
         /\ answer = "ok" => executed = 1
         /\ target' = [calls |-> target.calls + called,
                       executed |-> target.executed + executed]
         /\ Then(w, CASE answer = "ok" -> Conclude("Succeeded")
                      [] answer = "failed" -> Conclude("Failed")
                      [] answer = "unknown" -> SettleUnknownOutcome
                      [] answer \in {"attempt", "definitive"} ->
                            <<Do("fail", answer)>>)
    /\ UNCHANGED <<run, effect, row, entry, faults, overrun, retaken, respent>>

\* The finding of the protocol: it is right about the target, or unknown.  The
\* outcome of an execution it finds is delivered as it is.
Reconcile(w) ==
    /\ Doing(w, "reconcile")
    /\ \/ Then(w, ParkIndeterminate)
       \/ /\ target.executed > 0
          /\ \E word \in {"Succeeded", "Failed"} : Then(w, Conclude(word))
       \/ /\ target.executed = 0
          /\ Then(w, IF Now(w).arg = "winding"
                     THEN SettleAndTell ELSE <<Do("fail", "burn")>>)
       \/ Then(w, IF Now(w).arg = "winding"
                  THEN ParkIndeterminate ELSE <<Do("fail", "unknown")>>)
    /\ UNCHANGED <<run, effect, row, entry, history>>

\* A failed attempt on the row, and what its caller does with the answer.
RecordAttempt(w) ==
    /\ Doing(w, "fail")
    /\ LET cause == Now(w).arg IN
         /\ row' = IF cause = "definitive"
                   THEN RecordExhausted(row) ELSE RecordFailure(row)
         /\ Then(w, AfterFailure(cause, row'))
    /\ UNCHANGED <<run, effect, entry, history>>

WriteRow(w) ==
    /\ Doing(w, "row")
    /\ row' = RowWrite(row, Now(w).arg)
    /\ Then(w, Tail(worker[w].todo))
    /\ UNCHANGED <<run, effect, entry, history>>

\* A fleet transition is fenced by the claim; a fenced one fails the pass.
WriteFleet(w) ==
    /\ Doing(w, "fleet")
    /\ \/ /\ IsCurrentClaim(w)
          /\ entry' = [NoEntry EXCEPT !.status = Now(w).arg]
          /\ Then(w, Tail(worker[w].todo))
       \/ /\ ~IsCurrentClaim(w)
          /\ entry' = entry
          /\ Then(w, <<>>)
    /\ UNCHANGED <<run, effect, row, history>>

\* The run keeps the first word of the generation.
DeliverOutcome(w) ==
    /\ Doing(w, "deliver")
    /\ effect' = IF effect = "Ready" THEN Now(w).arg ELSE effect
    /\ Then(w, Tail(worker[w].todo))
    /\ UNCHANGED <<run, row, entry, history>>

FenceTombstone ==
    <<Do("row", "Scheduled"), Do("row", "Cancelled"), Do("deliver", "Cancelled")>>

\* fence_run: the sweep of a winding-down run, outside any claim.
FenceRun(w) ==
    /\ IsIdle(w)
    /\ winding /\ ~exempt /\ effect = "Ready"
    /\ \/ row.status = "None" /\ Then(w, FenceTombstone)
       \/ row.status = "Cancelled" /\ Then(w, <<Do("deliver", "Cancelled")>>)
    /\ UNCHANGED <<run, effect, row, entry, history>>

\* The process dies, a compare-and-set of the shared fleet record is lost, or
\* a call to the run or the reconciler fails: the pass ends where it is.
Abort(w) ==
    /\ ~IsIdle(w)
    /\ faults < MaxFaults
    /\ faults' = faults + 1
    /\ Then(w, <<>>)
    /\ UNCHANGED <<run, effect, row, entry, target, overrun, retaken, respent>>

Step(w) ==
    \/ ReadRow(w) \/ Decide(w) \/ Authorize(w) \/ Start(w)
    \/ ResolveCredential(w) \/ Invoke(w) \/ Reconcile(w) \/ RecordAttempt(w)
    \/ WriteRow(w) \/ WriteFleet(w) \/ DeliverOutcome(w)

Next ==
    \/ WindDown \/ FlushRead \/ FlushWrite
    \/ Register \/ Lapse \/ Overrun
    \/ \E w \in Workers : ClaimDue(w) \/ Step(w) \/ FenceRun(w) \/ Abort(w)

Spec == Init /\ [][Next]_vars

\* The settle pass re-drives the flush, hosts keep pumping (registration, the
\* fence, claims), a worker that is not stopped takes its next step, and the
\* clock reaches the end of an abandoned lease.
FairSpec ==
    /\ Spec
    /\ WF_vars(FlushRead) /\ WF_vars(FlushWrite)
    /\ WF_vars(Register) /\ WF_vars(Lapse)
    /\ WF_vars(\E w \in Workers : ClaimDue(w))
    /\ WF_vars(\E w \in Workers : FenceRun(w))
    /\ \A w \in Workers : WF_vars(Step(w))

-----------------------------------------------------------------------------
(* Properties. *)

\* Crash and timeout recovery per safety class (dispatch.rs 48-76): whatever
\* dies, whatever is lost and however the run is wound down, a NonIdempotent
\* effect takes effect at its target at most once, and once more at most for
\* every lease overrun; a Reconcileable one, once more also for every exhausted
\* row taken up again with an attempt left, which is invoked unasked.
ExecutedAtMostOnce ==
    /\ class = "NonIdempotent" => target.executed <= 1 + overrun
    /\ class = "Reconcileable" => target.executed <= 1 + overrun + respent

\* A class whose effects must not be repeated.
Guarded == class \in {"Reconcileable", "NonIdempotent"}

\* The word the run is given is true of the target while workers keep to their
\* leases: Succeeded was executed; Refused and Cancelled, which say that nothing
\* was invoked, were not executed (settle_undispatchable, the fence of
\* execute_claim, fence_run), but for the exhausted row of a guarded effect that
\* was taken up again.  Failed is the target's own conclusion and says nothing.
\* A read has no consequence, and an Idempotent effect may be Cancelled after a
\* failed attempt.
WordIsTrue ==
    overrun = 0 =>
        /\ effect = "Succeeded" => target.executed > 0
        /\ effect = "Refused" /\ class # "ReadOnly" /\ (Guarded => retaken = 0)
                => target.executed = 0
        /\ effect = "Cancelled" /\ Guarded /\ retaken = 0
                => target.executed = 0

\* A resolved generation revokes its own dispatch eligibility (dispatch.rs
\* 78-82): no worker invokes the target of an effect whose word the run holds.
ResolvedStaysPut ==
    [][overrun' = 0 /\ effect # "Ready" => target' = target]_vars

\* The word was lost: the row and the entry are settled, the worker died before
\* it delivered, and the fence repairs only a Cancelled row of a kind it covers.
WordLost == IsTerminalEntry /\ (row.status = "Exhausted" \/ exempt)

\* Every committed effect is eventually given its word, whatever dies on the
\* way, but for a word lost after the last durable write and for a lease a
\* worker overran (recovery by re-claim, claim_and_execute; fence_run).
OutcomeArrives ==
    effect = "Ready" ~> (effect # "Ready" \/ WordLost \/ overrun > 0)

\* "A definitive refusal fails the effect ... unless a prior attempt of the
\* generation may already have executed, in which case the generation parks
\* Indeterminate, because "nothing was invoked" would be a lie" (dispatch.rs
\* 40-43), for the class whose effects are invoked once only, and where every
\* worker keeps to its lease.
RefusalIsTrue ==
    class = "NonIdempotent" /\ overrun = 0 /\ effect = "Refused"
        => target.executed = 0
=============================================================================
