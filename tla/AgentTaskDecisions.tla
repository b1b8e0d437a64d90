-------------------------- MODULE AgentTaskDecisions --------------------------
(***************************************************************************)
(* One agent-owned task (crates/rakka-agent/src/task.rs): the transitions  *)
(* its entity commits, each a function from the task's record to its next  *)
(* record. A task offers itself to one run at a time, each offer a new     *)
(* generation, escrows the run's budget in its ledger, decides the results *)
(* the run proposes and winds down on a cancellation.                      *)
(*                                                                         *)
(* assignment_generation and assignments move together here, so the record *)
(* keeps the first. Dependencies, goals, delegation, teams, handoff and    *)
(* human-owned tasks are left out.                                         *)
(***************************************************************************)
EXTENDS EscrowLedger

CONSTANTS
    TaskBudget,         \* attempts granted to the task
    RunRequest,         \* definition.run_allocation_request()
    MaxAssignments,     \* limits.max_assignments
    MaxRejections       \* limits.max_result_rejections

ASSUME TaskLimitsAssumption ==
    /\ TaskBudget \in Nat /\ RunRequest \in Nat
    /\ MaxAssignments \in Nat \ {0} /\ MaxRejections \in Nat \ {0}

TerminalTaskStatus == {"Completed", "Failed", "Cancelled"}
TaskIsTerminal(t) == t.status \in TerminalTaskStatus

NoResult == 0

NewTask ==
    [status |-> "Created", generation |-> 0, assignment |-> "none", cancelling |-> FALSE,
     rejections |-> 0, result |-> NoResult, ledger |-> NewLedger(TaskBudget)]

\* terminate
EndTask(t, status) == [t EXCEPT !.status = status, !.assignment = "none"]

AwaitsAssignment(t) == t.status = "Created" /\ t.assignment = "none" /\ ~t.cancelling

\* decide_assignment: exhaust the assignments, or escrow a run and offer.
AssignmentsExhausted(t) == t.generation >= MaxAssignments
CanOffer(t) == ~AssignmentsExhausted(t) /\ ~CannotEscrow(t.ledger, RunRequest)
Offer(t) ==
    [t EXCEPT !.status = "Assigned", !.assignment = "Offered", !.generation = @ + 1,
              !.ledger = OpenChild(@, t.generation + 1, RunRequest)]
OfferedAllocation(t) == t.ledger.outstanding[t.generation].allocated

FinalizeAtOnce(t) ==
    IF t.cancelling /\ ~TaskIsTerminal(t) THEN EndTask(t, "Cancelled") ELSE t

FinalizeUnassigned(t) ==
    IF /\ t.cancelling /\ ~TaskIsTerminal(t) /\ DOMAIN t.ledger.outstanding = {}
       /\ t.assignment = "none"
    THEN EndTask(t, "Cancelled")
    ELSE t

\* finalize_task_cancellation: only once every escrow has returned.
FinalizeCancellation(t) ==
    IF t.cancelling /\ ~TaskIsTerminal(t) /\ DOMAIN t.ledger.outstanding = {}
    THEN EndTask(t, "Cancelled")
    ELSE t

\* request_task_cancellation
RequestCancellation(t) == FinalizeCancellation([t EXCEPT !.cancelling = TRUE])

\* owed_run_cancel, but for the journal's own record of having sent it.
OwesRunCancel(t) == t.cancelling /\ ~TaskIsTerminal(t) /\ t.assignment = "Accepted"

\* settle_assignment, followed by the finalization in the participant's settle.
\* An answer for a generation the task no longer holds changes nothing.
SettleAssignment(t, generation, accepted) ==
    FinalizeCancellation(
        IF t.assignment = "none" \/ t.generation # generation THEN t
        ELSE IF accepted THEN [t EXCEPT !.assignment = "Accepted", !.status = "InProgress"]
        ELSE [t EXCEPT !.assignment = "none", !.status = "Created",
                       !.ledger = ReturnChild(SettleChild(@, generation, 0), generation)])

\* apply_result_proposal: the gates before the content is looked at.
ProposalGate(t, generation) ==
    IF TaskIsTerminal(t) THEN t.status
    ELSE IF t.assignment = "none" THEN "not-assigned"
    ELSE IF t.generation # generation THEN "stale-generation"
    ELSE IF t.cancelling THEN "cancel-requested"
    ELSE "open"

\* accept_result_core
AcceptResult(t, generation) == [EndTask(t, "Completed") EXCEPT !.result = generation]

\* reject_result_core: the last permitted rejection ends the task.
RejectResult(t) ==
    LET counted == [t EXCEPT !.rejections = @ + 1]
    IN  IF counted.rejections >= MaxRejections THEN EndTask(counted, "Failed") ELSE counted
RemainingRejections(t) == SaturatingSub(MaxRejections, t.rejections)

\* apply_settlement, apply_return and apply_top_up, each followed by the
\* finalization in the participant's apply.
ApplySettlement(t, generation, consumed) ==
    FinalizeCancellation([t EXCEPT !.ledger = SettleChild(@, generation, consumed)])
ApplyReturn(t, generation) ==
    FinalizeCancellation([t EXCEPT !.ledger = ReturnChild(@, generation)])
ApplyTopUp(t, generation, sequence) ==
    FinalizeCancellation(
        IF TopUpRefused(t.ledger, generation, sequence) THEN t
        ELSE [t EXCEPT !.ledger = TopUpChild(@, generation, sequence, RunRequest)])
\* The grant answered; a refusal grants nothing.
AnsweredGrant(t, generation, sequence) ==
    IF TopUpRefused(t.ledger, generation, sequence) THEN 0
    ELSE TopUpGrant(t.ledger, generation, sequence, RunRequest)
=============================================================================
