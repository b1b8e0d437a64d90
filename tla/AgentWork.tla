------------------------------ MODULE AgentWork ------------------------------
(***************************************************************************)
(* A task and the runs it assigns, composed: two kinds of entity, each     *)
(* with its own durable record, that change one another's state only       *)
(* through exchanges (crates/rakka-agent/src/task.rs, run.rs, budget.rs).  *)
(* Every action is one durable compare-and-set of one entity, the          *)
(* exchanges it owes included.                                             *)
(*                                                                         *)
(* The exchanges themselves (choreography.rs) are modelled in detail in    *)
(* AgentChoreography; here one is pending at its initiator, answered in    *)
(* its receiver's log and settled at its initiator, which is what that     *)
(* module shows. The receiver's log is bounded, so an answer may be        *)
(* forgotten before the initiator has it: the exchange is then delivered   *)
(* again and meets the receiver's domain state instead of the log. For a   *)
(* result proposal that is a second judgement of the same result.          *)
(*                                                                         *)
(* The dispatcher's side of an effect is its outcome. A Ready effect gets  *)
(* one, Cancelled only where the wind-down fence applies.                  *)
(***************************************************************************)
EXTENDS AgentRunLoop, AgentTaskDecisions

CONSTANTS
    Forgettable,        \* exchange kinds whose answer may have left the log
    MaxForgets,         \* bound on how often one does
    Promotions          \* whether memory promotions are requested

ASSUME AgentWorkAssumption ==
    /\ Forgettable \subseteq {"Assignment", "RunCancel", "Proposal", "TopUp",
                              "Settlement", "Return"}
    /\ MaxForgets \in Nat /\ Promotions \in BOOLEAN

VARIABLES
    task,       \* the task's record
    runs,       \* generation -> the run's record, NoRun or Unacceptable
    pending,    \* exchanges owed: [op, arg]
    settled,    \* operations their initiator has settled
    log,        \* answers their receiver has applied: [op, answer]
    forgets,    \* how many answers have left the log
    forgotten   \* the proposals they answered, a history variable

vars == <<task, runs, pending, settled, log, forgets, forgotten>>

Generations == 1..MaxAssignments

\* A run entity nothing was assigned to, and one whose assignment does not
\* validate, which is a fact about the assignment: it is refused every time.
NoRun == [status |-> "none"]
Unacceptable == [status |-> "unacceptable"]
Exists(g) == runs[g] \notin {NoRun, Unacceptable}

Op(kind, g, sequence) == [kind |-> kind, generation |-> g, sequence |-> sequence]
Envelope(op, arg) == [op |-> op, arg |-> arg]
Answer(verdict, amount, code) == [verdict |-> verdict, amount |-> amount, code |-> code]

HasInitiated(op) == op \in settled \/ \E e \in pending : e.op = op
Fresh(envelopes) == {e \in envelopes : ~HasInitiated(e.op)}

(***************************************************************************)
(* Commits: an entity's next record and the exchanges it owes with it.     *)
(***************************************************************************)
OwedTopUp(g, r) == Envelope(Op("TopUp", g, PendingTopUp(r)), 0)
OwedSettlement(g, r) == Envelope(Op("Settlement", g, 0), r.consumed)
OwedReturn(g) == Envelope(Op("Return", g, 0), 0)

OwedByRunKeepsEscrow(g, r) ==
    CASE r.parked /\ ~IsTerminal(r)             -> {OwedTopUp(g, r)}
      [] IsTerminal(r) /\ r.settlement = "Owed" -> {OwedSettlement(g, r)}
      [] OTHER                                  -> {}

\* owed_ledger_exchange: the settlement's amount is what the run had consumed
\* when it was first owed.
OwedByRun(g, r) ==
    CASE r.parked /\ ~IsTerminal(r)                -> {OwedTopUp(g, r)}
      [] IsTerminal(r) /\ r.settlement = "Owed"    -> {OwedSettlement(g, r)}
      [] IsTerminal(r) /\ r.settlement = "Settled" -> {OwedReturn(g)}
      [] OTHER                                     -> {}

OwedByTask(t) ==
    IF OwesRunCancel(t) THEN {Envelope(Op("RunCancel", t.generation, 0), 0)} ELSE {}

CommitRun(g, r, extra) ==
    /\ runs' = [runs EXCEPT ![g] = r]
    /\ pending' = pending \cup Fresh(OwedByRun(g, r) \cup extra)
    /\ UNCHANGED <<task, settled, log, forgets, forgotten>>

CommitTask(t, owed) ==
    /\ task' = t
    /\ pending' = pending \cup Fresh(owed)
    /\ UNCHANGED <<runs, settled, log, forgets, forgotten>>

(***************************************************************************)
(* The task's own steps.                                                   *)
(***************************************************************************)
DecideAssignment ==
    /\ AwaitsAssignment(task)
    /\ \/ /\ AssignmentsExhausted(task)
          /\ CommitTask(EndTask(task, "Failed"), {})
       \/ /\ CanOffer(task)
          /\ LET offered == Offer(task)
             IN  CommitTask(offered, {Envelope(Op("Assignment", offered.generation, 0),
                                               OfferedAllocation(offered))})

\* The request, every answer to an offer and every return of an escrow already
\* owe the run its cancel and finalize a closed ledger, so the settle pass's own
\* sweep of a requested cancellation finds nothing left to advance (SweepIsIdle
\* in AgentWorkProofs) and is no action here.
CancelTask ==
    /\ ~TaskIsTerminal(task) /\ ~task.cancelling
    /\ LET requested == RequestCancellation(task)
       IN  CommitTask(requested, OwedByTask(requested))

(***************************************************************************)
(* The run's own steps.                                                    *)
(***************************************************************************)
AdvanceRun(g) ==
    /\ Exists(g) /\ CanAdvance(runs[g])
    /\ CommitRun(g, Advance(runs[g]),
                 IF Proposes(runs[g])
                 THEN {Envelope(Op("Proposal", g, runs[g].turn), runs[g].output)}
                 ELSE {})

\* park_or_terminate, where the reservation fails in a dimension no parent can
\* top up: the deadline has passed, or too many effects run at once.
RunOut(g) ==
    /\ Exists(g) /\ Reserves(runs[g])
    /\ CommitRun(g, Exhaust(runs[g]), {})

DispatchEffects(g) ==
    /\ Exists(g) /\ CanMarkReady(runs[g])
    /\ CommitRun(g, MarkReady(runs[g]), {})

\* An attempt reached the target unless the outcome says otherwise.
MadeBy(outcome) ==
    IF outcome \in {"Succeeded", "Indeterminate"} THEN 1..Attempts ELSE 0..Attempts

Outputs == {"good", "bad", "tools", "continue"}

RecordTurnEffect(g) ==
    /\ Exists(g) /\ ~IsTerminal(runs[g]) /\ runs[g].effect = "Ready"
    /\ \E outcome \in {"Succeeded", "Failed", "Indeterminate", "Cancelled"} :
         /\ outcome = "Cancelled" => WindingDown(runs[g])
         /\ \E made \in MadeBy(outcome), output \in Outputs :
               CommitRun(g, RecordTurnResult(runs[g], outcome, output, made), {})

RecordPromotionEffect(g) ==
    /\ Exists(g) /\ runs[g].promotion = "Ready"
    /\ \E outcome \in {"Succeeded", "Failed", "Indeterminate"} :
         \E made \in MadeBy(outcome) :
            CommitRun(g, RecordPromotionResult(runs[g], outcome, made), {})

PromoteMemory(g) ==
    /\ Promotions
    /\ Exists(g) /\ CanPromote(runs[g])
    /\ CommitRun(g, Promote(runs[g]), {})

\* resolve_indeterminate_effect: a decision by a person, on the turn's effect of
\* a live run or on a promotion. A redispatch the budget cannot cover is refused.
ResolveTurnEffect(g) ==
    /\ Exists(g) /\ ~IsTerminal(runs[g]) /\ runs[g].effect = "Indeterminate"
    /\ \/ \E outcome \in {"Succeeded", "Failed"}, output \in Outputs :
             CommitRun(g, ConfirmTurnExecuted(runs[g], outcome, output), {})
       \/ /\ Redispatches(runs[g]) => CanReserve(runs[g])
          /\ CommitRun(g, ConfirmTurnNotExecuted(runs[g]), {})

ResolvePromotion(g) ==
    /\ Exists(g) /\ runs[g].promotion = "Indeterminate"
    /\ \/ \E outcome \in {"Succeeded", "Failed"} :
             CommitRun(g, ConfirmPromotionExecuted(runs[g], outcome), {})
       \/ /\ Redispatches(runs[g]) => CanReserve(runs[g])
          /\ CommitRun(g, ConfirmPromotionNotExecuted(runs[g]), {})

\* AgentRunCommand::Cancel, an operator's.
CancelRun(g) ==
    /\ Exists(g) /\ ~IsTerminal(runs[g])
    /\ CommitRun(g, Cancel(runs[g]), {})

(***************************************************************************)
(* Exchanges: delivered to their receiver, which applies and answers them  *)
(* in one commit, then settled by their initiator. A duplicate delivery is *)
(* answered from the log and changes nothing.                              *)
(***************************************************************************)
Logged(op) == \E entry \in log : entry.op = op
Deliverable(kind) == {e \in pending : e.op.kind = kind /\ ~Logged(e.op)}

AppliedAtRun(e, r, owed, answer) ==
    /\ runs' = [runs EXCEPT ![e.op.generation] = r]
    /\ pending' = pending \cup Fresh(owed)
    /\ log' = log \cup {[op |-> e.op, answer |-> answer]}
    /\ UNCHANGED <<task, settled, forgets, forgotten>>

AppliedAtTask(e, t, answer) ==
    /\ task' = t
    /\ log' = log \cup {[op |-> e.op, answer |-> answer]}
    /\ UNCHANGED <<runs, pending, settled, forgets, forgotten>>

\* accept_assignment: a run that exists accepts its own generation again.
AcceptAssignment(e) ==
    LET r == runs[e.op.generation]
    IN  \/ /\ r = NoRun
           /\ AppliedAtRun(e, Accepted(e.arg), {}, Answer("Accepted", 0, ""))
        \/ /\ r \in {NoRun, Unacceptable}
           /\ AppliedAtRun(e, Unacceptable, {}, Answer("Rejected", 0, ""))
        \/ /\ Exists(e.op.generation)
           /\ AppliedAtRun(e, r, {}, Answer("Accepted", 0, ""))

\* accept_run_cancel: a run that already winds down acknowledges and no more.
AcceptRunCancel(e) ==
    LET r == runs[e.op.generation]
        after == IF IsTerminal(r) \/ WindingDown(r) THEN r ELSE Cancel(r)
    IN  /\ Exists(e.op.generation)
        /\ AppliedAtRun(e, after, OwedByRun(e.op.generation, after), Answer("Accepted", 0, ""))

\* apply_result_proposal: refuse what does not decode, or whose causation does not
\* fit, before any gate; refuse at a gate; or validate the content, and still
\* refuse a valid result the record has no room for, which accept_result_core
\* rolls back. The result that stands did decode and did fit.
ApplyProposal(e) ==
    LET gate == ProposalGate(task, e.op.generation)
        rejected == RejectResult(task)
    IN  \/ gate # "open" /\ AppliedAtTask(e, task, Answer("Refused", 0, gate))
        \/ /\ task.result # e.op.generation
           /\ AppliedAtTask(e, task, Answer("Refused", 0, "unacceptable"))
        \/ /\ gate = "open" /\ e.arg = "good"
           /\ AppliedAtTask(e, AcceptResult(task, e.op.generation), Answer("Accepted", 0, ""))
        \/ /\ gate = "open" /\ e.arg = "bad"
           /\ AppliedAtTask(e, rejected, Answer("Rejected", RemainingRejections(rejected), ""))

\* apply_ledger_exchange
ApplyLedgerExchange(e) ==
    LET g == e.op.generation
    IN  \/ /\ e.op.kind = "Settlement"
           /\ AppliedAtTask(e, ApplySettlement(task, g, e.arg), Answer("Accepted", 0, ""))
        \/ /\ e.op.kind = "Return"
           /\ AppliedAtTask(e, ApplyReturn(task, g), Answer("Accepted", 0, ""))
        \/ /\ e.op.kind = "TopUp"
           /\ AppliedAtTask(e, ApplyTopUp(task, g, e.op.sequence),
                            Answer("Accepted", AnsweredGrant(task, g, e.op.sequence), ""))

Deliver ==
    \/ \E e \in Deliverable("Assignment") : AcceptAssignment(e)
    \/ \E e \in Deliverable("RunCancel") : AcceptRunCancel(e)
    \/ \E e \in Deliverable("Proposal") : ApplyProposal(e)
    \/ \E kind \in {"TopUp", "Settlement", "Return"} :
          \E e \in Deliverable(kind) : ApplyLedgerExchange(e)

Settled(e, owed) ==
    /\ pending' = (pending \ {e}) \cup Fresh(owed)
    /\ settled' = settled \cup {e.op}
    /\ UNCHANGED <<log, forgets, forgotten>>

\* The task's settle: an assignment moves it, and it may then owe a run cancel.
SettleAtTask(e, answer) ==
    LET after == IF e.op.kind = "Assignment"
                 THEN SettleAssignment(task, e.op.generation, answer.verdict = "Accepted")
                 ELSE FinalizeCancellation(task)
    IN  /\ task' = after
        /\ Settled(e, OwedByTask(after))
        /\ UNCHANGED runs

SettledRun(r, kind, answer) ==
    CASE kind = "Proposal" /\ answer.verdict = "Accepted" -> ProposalAccepted(r)
      [] kind = "Proposal" /\ answer.verdict = "Rejected" -> ProposalRejected(r, answer.amount)
      [] kind = "Proposal" /\ answer.verdict = "Refused"  -> ProposalRefused(r, answer.code)
      [] kind = "TopUp"      -> CreditTopUp(r, answer.amount)
      [] kind = "Settlement" -> [r EXCEPT !.settlement = "Settled"]
      [] kind = "Return"     -> [r EXCEPT !.settlement = "Returned"]

\* The run's settle, which owes whatever the run owes next.
SettleAtRun(e, answer) ==
    LET g == e.op.generation
        after == SettledRun(runs[g], e.op.kind, answer)
    IN  /\ runs' = [runs EXCEPT ![g] = after]
        /\ Settled(e, OwedByRun(g, after))
        /\ UNCHANGED task

Settle ==
    \E e \in pending, entry \in log :
        /\ entry.op = e.op
        /\ \/ e.op.kind \in {"Assignment", "RunCancel"} /\ SettleAtTask(e, entry.answer)
           \/ e.op.kind \notin {"Assignment", "RunCancel"} /\ SettleAtRun(e, entry.answer)

\* push_resolved evicts: the receiver no longer knows an exchange it applied.
Forget ==
    /\ forgets < MaxForgets
    /\ \E entry \in log :
          /\ entry.op.kind \in Forgettable
          /\ \E e \in pending : e.op = entry.op
          /\ log' = log \ {entry}
          /\ forgotten' = forgotten \cup {op \in {entry.op} : op.kind = "Proposal"}
    /\ forgets' = forgets + 1
    /\ UNCHANGED <<task, runs, pending, settled>>

Init ==
    /\ task = NewTask
    /\ runs = [g \in Generations |-> NoRun]
    /\ pending = {} /\ settled = {} /\ log = {}
    /\ forgets = 0 /\ forgotten = {}

RunSteps(g) ==
    \/ AdvanceRun(g) \/ RunOut(g) \/ DispatchEffects(g)
    \/ RecordTurnEffect(g) \/ RecordPromotionEffect(g)
    \/ PromoteMemory(g) \/ ResolveTurnEffect(g) \/ ResolvePromotion(g) \/ CancelRun(g)

Next ==
    \/ DecideAssignment \/ CancelTask
    \/ \E g \in Generations : RunSteps(g)
    \/ Deliver \/ Settle \/ Forget

Spec == Init /\ [][Next]_vars

\* Both entities run a settle pass on every command, on recovery and on their
\* timer, and the dispatcher is pumped: their own steps, the delivery of what is
\* owed and the outcome of what was dispatched all happen. Cancellations,
\* promotions and a person's reconciliation decisions need not.
FairSpec ==
    /\ Spec
    /\ WF_vars(DecideAssignment)
    /\ WF_vars(Deliver) /\ WF_vars(Settle)
    /\ \A g \in Generations :
          /\ WF_vars(AdvanceRun(g)) /\ WF_vars(DispatchEffects(g))
          /\ WF_vars(RecordTurnEffect(g)) /\ WF_vars(RecordPromotionEffect(g))

(***************************************************************************)
(* Properties.                                                             *)
(***************************************************************************)
EffectStatus == {"none", "Pending", "Ready", "Succeeded", "Failed", "Cancelled", "Indeterminate"}

RunRecord ==
    [status : TerminalStatus \cup {"Accepted", "Running", "WaitingForEffect", "Cancelling",
                                   "WaitingForReconciliation"},
     phase : {"PreparingContext", "AwaitingModel", "EvaluatingModelOutput", "AwaitingTools",
              "RecordingTurn", "DecidingContinuation", "Complete"},
     reason : {NoReason, "ResultAccepted", "ResultRejectionsExhausted", "BudgetExhausted",
               "EffectFailed", "CancellationRequested", "Superseded",
               "RefusedByCompletedTask", "RefusedByCancelledTask", "RefusedByTask"},
     turn : Nat, output : Outputs \cup {"none"}, proposal : {"none", "good", "bad"},
     effect : EffectStatus, promotion : EffectStatus,
     allocation : Nat, consumed : Nat, reserved : Nat, topUps : Nat, parked : BOOLEAN,
     settlement : {"Owed", "Settled", "Returned"}, session : BOOLEAN]

\* Every record keeps its shape, and no run is held by a task that never
\* generated it (AgentRun, AgentTask).
TypeOK ==
    /\ task.status \in TerminalTaskStatus \cup {"Created", "Assigned", "InProgress"}
    /\ task.generation \in 0..MaxAssignments
    /\ task.assignment \in {"none", "Offered", "Accepted"}
    /\ task.rejections \in 0..MaxRejections
    /\ task.result \in 0..task.generation
    /\ \A g \in Generations : runs[g] \in RunRecord \cup {NoRun, Unacceptable}
    /\ \A g \in Generations : g > task.generation => runs[g] = NoRun

\* The run's last proposal was applied and its answer left the task's log, so
\* the task judged it a second time.
JudgedAgain(g) == Op("Proposal", g, runs[g].turn) \in forgotten

\* Whatever a cancellation, a rejection, a refusal or a redelivery did in
\* between, a run that ends Completed is the one whose result the task took, and
\* the run whose result stands ends Completed. The one exception is a proposal
\* judged again after its answer was forgotten: the completed task then refuses
\* the result it took, and the run ends Superseded for exactly that reason
\* (accept_result, apply_result_proposal, settle_proposal, push_resolved).
OutcomesAgree ==
    \A g \in Generations : Exists(g) =>
        /\ runs[g].status = "Completed" => task.status = "Completed" /\ task.result = g
        /\ IsTerminal(runs[g]) /\ task.result = g =>
              \/ runs[g].status = "Completed"
              \/ JudgedAgain(g) /\ runs[g].reason = "RefusedByCompletedTask"

\* A task reports Cancelled only once no work of its runs can still happen: every
\* run it started has ended and nothing of its turn is at the dispatcher
\* (finalize_task_cancellation waits for the escrows).
CancelledIsQuiescent ==
    task.status = "Cancelled" =>
        /\ DOMAIN task.ledger.outstanding = {}
        /\ \A g \in Generations : Exists(g) =>
              IsTerminal(runs[g]) /\ ~IsOutstanding(runs[g].effect)

\* Budget is conserved across the two entities: what settled runs consumed plus
\* what unsettled ones were escrowed never exceeds the task's allocation, and a
\* run spends within its escrow (AgentEscrowLedger, AgentRunBudget).
EscrowConserved ==
    LET ledger == task.ledger
        unsettled == {g \in DOMAIN ledger.outstanding : ledger.outstanding[g].settled = NoAmount}
    IN  /\ ledger.consumed + SumFunction([g \in unsettled |-> ledger.outstanding[g].allocated])
             <= ledger.allocation
        /\ \A g \in unsettled : Exists(g) =>
              runs[g].consumed + runs[g].reserved <= ledger.outstanding[g].allocated

\* The books of the two entities agree however often an exchange is delivered: a
\* live run that waits for no top-up holds what the task's ledger escrowed for it
\* (top_up_child's sequence fence, credit), and the task is charged no more than
\* its runs consumed (settle_child charges a run once).
BooksAgree ==
    /\ \A g \in Generations : Exists(g) /\ ~IsTerminal(runs[g]) /\ ~runs[g].parked =>
          /\ g \in DOMAIN task.ledger.outstanding
          /\ runs[g].allocation = task.ledger.outstanding[g].allocated
    /\ task.ledger.consumed <=
          SumFunction([g \in {h \in Generations : Exists(h)} |-> runs[g].consumed])

\* An ended run's escrow comes back: settlement and return reach the task's
\* ledger through every redelivery (owed_ledger_exchange).
EscrowReturns ==
    \A g \in Generations :
        (Exists(g) /\ IsTerminal(runs[g])) ~>
            (Exists(g) /\ runs[g].settlement = "Returned"
                       /\ g \notin DOMAIN task.ledger.outstanding)

\* What is left when a winding-down run never ends: the task has refused its
\* proposal, which the run still records as outstanding, or an effect committed
\* behind the fence is never dispatched.
Stranded(g) ==
    /\ Exists(g) /\ ~IsTerminal(runs[g]) /\ WindingDown(runs[g])
    /\ \/ runs[g].proposal # "none" /\ Op("Proposal", g, runs[g].turn) \in settled
       \/ runs[g].effect = "Pending"

\* A requested cancellation reaches a terminal task, unless a person's
\* reconciliation decision is awaited or the run is stranded as above
\* (request_task_cancellation, accept_run_cancel, settle_run_disposition).
CancellationConverges ==
    task.cancelling ~> \/ TaskIsTerminal(task)
                       \/ \E g \in Generations :
                             Stranded(g) \/ (Exists(g) /\ HasIndeterminate(runs[g]))

\* A requested cancellation reaches a terminal task, short of a person's
\* reconciliation decision (apply_result_proposal: a racing proposal "converges
\* on the wind-down whichever message arrives first").
CancellationTerminates ==
    task.cancelling ~> \/ TaskIsTerminal(task)
                       \/ \E g \in Generations : Exists(g) /\ HasIndeterminate(runs[g])
=============================================================================
