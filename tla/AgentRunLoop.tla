---------------------------- MODULE AgentRunLoop ----------------------------
(***************************************************************************)
(* One agent run (crates/rakka-agent/src/run.rs, loop_runtime.rs): the     *)
(* transitions its entity commits, each a function from the run's record   *)
(* to its next record.                                                     *)
(*                                                                         *)
(* A turn goes PreparingContext (reserve budget, commit a model effect),   *)
(* AwaitingModel, EvaluatingModelOutput, AwaitingTools when the output     *)
(* calls tools, RecordingTurn, DecidingContinuation, and either the next   *)
(* turn or a result proposal sent to the task. Beside the turn's effect    *)
(* the record holds one effect outside the turn, a memory promotion, which *)
(* the wind-down fence exempts. The tool calls of one turn are one effect. *)
(* Approval and authorization waits, suspension, delegation, fan-in, goal  *)
(* evaluation and handoff are left out.                                    *)
(***************************************************************************)
EXTENDS Integers

CONSTANTS Attempts      \* max_attempts an effect reserves before it dispatches

ASSUME AttemptsAssumption == Attempts \in Nat \ {0}

NoReason == "none"
TerminalStatus == {"Completed", "Failed", "Cancelled", "Superseded"}

\* AgentRunTerminalReason::status
StatusOf(reason) ==
    CASE reason = "ResultAccepted"                           -> "Completed"
      [] reason \in {"Superseded", "RefusedByCompletedTask"} -> "Superseded"
      [] reason \in {"CancellationRequested", "RefusedByCancelledTask"} -> "Cancelled"
      [] OTHER -> "Failed"

IsTerminal(r) == r.status \in TerminalStatus
PermitsProgress(r) ==
    r.status \notin TerminalStatus \cup {"Cancelling", "WaitingForReconciliation"}
WindingDown(r) == r.reason # NoReason \/ r.status = "Cancelling"

IsOutstanding(effect) == effect \in {"Pending", "Ready"}
BlocksSettlement(effect) == IsOutstanding(effect) \/ effect = "Indeterminate"
HasIndeterminate(r) == "Indeterminate" \in {r.effect, r.promotion}
AwaitsSettlement(r) ==
    BlocksSettlement(r.effect) \/ BlocksSettlement(r.promotion) \/ r.proposal # "none"

\* accept_assignment, AgentRunBudget::allocate: a fresh run.
Accepted(allocation) ==
    [status |-> "Accepted", phase |-> "PreparingContext", reason |-> NoReason,
     turn |-> 1, output |-> "none", proposal |-> "none",
     effect |-> "none", promotion |-> "none",
     allocation |-> allocation, consumed |-> 0, reserved |-> 0,
     topUps |-> 0, parked |-> FALSE, settlement |-> "Owed", session |-> FALSE]

\* AgentRunBudget::check_amount in the attempts dimension.
CanReserve(r) == r.consumed + r.reserved + Attempts <= r.allocation
Reserve(r) == [r EXCEPT !.reserved = @ + Attempts]

Terminate(r, reason) ==
    IF IsTerminal(r)
    THEN r
    ELSE [r EXCEPT !.status = StatusOf(reason), !.phase = "Complete",
                   !.parked = FALSE, !.reason = reason]

\* park_for_top_up, for a dimension of the escrow.
Park(r) == [r EXCEPT !.parked = TRUE, !.status = "Running"]
PendingTopUp(r) == r.topUps + 1

\* fence_unsent_effects: the reservation of an effect it cancels is kept.
FenceUnsent(r) == IF r.effect = "Pending" THEN [r EXCEPT !.effect = "Cancelled"] ELSE r

\* settle_run_disposition
SettleDisposition(r) ==
    IF IsTerminal(r) THEN r
    ELSE IF HasIndeterminate(r) THEN [r EXCEPT !.status = "WaitingForReconciliation"]
    ELSE IF ~WindingDown(r) THEN r
    ELSE IF AwaitsSettlement(r) THEN [r EXCEPT !.status = "Cancelling"]
    ELSE Terminate(r, IF r.reason = NoReason THEN "CancellationRequested" ELSE r.reason)

\* cancel, of a run that has not ended.
Cancel(r) ==
    SettleDisposition(
        [FenceUnsent(r) EXCEPT !.status = "Cancelling",
                               !.reason = IF @ = NoReason THEN "CancellationRequested" ELSE @])

(***************************************************************************)
(* The loop.                                                               *)
(***************************************************************************)
CanAdvance(r) ==
    /\ PermitsProgress(r)
    /\ ~r.parked
    /\ \/ r.phase \in {"PreparingContext", "EvaluatingModelOutput", "RecordingTurn"}
       \/ r.phase = "DecidingContinuation" /\ r.proposal = "none"

\* prepare_context: the first turn's input opens the session, and the budget is
\* charged before the effect exists.
PrepareContext(r) ==
    LET opened == [r EXCEPT !.session = TRUE]
    IN  IF CanReserve(r)
        THEN [Reserve(opened) EXCEPT !.effect = "Pending", !.phase = "AwaitingModel",
                                     !.status = "WaitingForEffect"]
        ELSE Park(opened)

\* evaluate_model_output: the whole fan-out is reserved or none of it, and a
\* turn without calls is recorded as it is.
CommitToolCalls(r) ==
    IF CanReserve(r)
    THEN [Reserve(r) EXCEPT !.effect = "Pending", !.phase = "AwaitingTools",
                            !.status = "WaitingForEffect"]
    ELSE Park(r)
EvaluateModelOutput(r) ==
    IF r.output = "tools" THEN CommitToolCalls(r)
    ELSE [r EXCEPT !.phase = "RecordingTurn", !.status = "Running"]

\* park_or_terminate, for a dimension that is no part of the escrow (the deadline,
\* the concurrency): a reservation of the loop that fails there ends the run.
Reserves(r) ==
    /\ CanAdvance(r)
    /\ \/ r.phase = "PreparingContext"
       \/ r.phase = "EvaluatingModelOutput" /\ r.output = "tools"
Exhaust(r) ==
    Terminate([r EXCEPT !.session = @ \/ r.phase = "PreparingContext"], "BudgetExhausted")

RecordTurn(r) == [r EXCEPT !.phase = "DecidingContinuation", !.status = "Running"]

\* clear_turn: an effect that still blocks the settlement outlives its turn.
Kept(effect) == IF BlocksSettlement(effect) THEN effect ELSE "none"
ClearTurn(r) ==
    [r EXCEPT !.output = "none", !.effect = Kept(@), !.promotion = Kept(@)]
BeginTurn(r) ==
    [r EXCEPT !.turn = @ + 1, !.phase = "PreparingContext", !.proposal = "none",
              !.status = "Running"]

\* decide_continuation: iterate, or propose what the model concluded. The
\* content of a proposal is "good" when the task's validation accepts it.
Proposes(r) == r.phase = "DecidingContinuation" /\ r.output \in {"good", "bad"}
DecideContinuation(r) ==
    IF Proposes(r)
    THEN [ClearTurn(r) EXCEPT !.proposal = r.output, !.status = "Running"]
    ELSE BeginTurn(ClearTurn(r))

\* advance_once
Advance(r) ==
    CASE r.phase = "PreparingContext"      -> PrepareContext(r)
      [] r.phase = "EvaluatingModelOutput" -> EvaluateModelOutput(r)
      [] r.phase = "RecordingTurn"         -> RecordTurn(r)
      [] r.phase = "DecidingContinuation"  -> DecideContinuation(r)

(***************************************************************************)
(* Effects.                                                                *)
(***************************************************************************)
\* dispatch_effects, its durable half: a winding-down run dispatches only what
\* the fence exempts.
CanMarkReady(r) ==
    r.promotion = "Pending" \/ (r.effect = "Pending" /\ ~IsTerminal(r) /\ ~WindingDown(r))
MarkReady(r) ==
    [r EXCEPT !.promotion = IF @ = "Pending" THEN "Ready" ELSE @,
              !.effect = IF @ = "Pending" /\ ~IsTerminal(r) /\ ~WindingDown(r)
                         THEN "Ready" ELSE @]

\* AgentRunBudget::settle_effect
SettleEffect(r, made) == [r EXCEPT !.consumed = @ + made, !.reserved = @ - Attempts]

\* apply_effect_outcome on the turn's effect: a model turn goes on to its
\* output, a tool turn rests; a failure winds the run down.
TurnSucceeds(r, output) ==
    LET done == [r EXCEPT !.effect = "Succeeded"]
    IN  IF r.phase = "AwaitingModel"
        THEN [done EXCEPT !.output = output, !.phase = "EvaluatingModelOutput",
                          !.status = IF WindingDown(r) THEN @ ELSE "Running"]
        ELSE IF WindingDown(r) THEN done
        ELSE [done EXCEPT !.phase = "RecordingTurn", !.status = "Running"]
TurnFails(r) ==
    [FenceUnsent([r EXCEPT !.effect = "Failed"])
        EXCEPT !.reason = IF @ = NoReason THEN "EffectFailed" ELSE @]
ApplyTurnOutcome(r, outcome, output) ==
    CASE outcome = "Succeeded" -> TurnSucceeds(r, output)
      [] outcome = "Failed"    -> TurnFails(r)
      [] outcome \in {"Indeterminate", "Cancelled"} -> [r EXCEPT !.effect = outcome]

\* record_effect_result: the outcome, the attempts it made, the disposition.
\* Only an effect outside the turn is still answered once the run has ended.
RecordTurnResult(r, outcome, output, made) ==
    SettleDisposition(SettleEffect(ApplyTurnOutcome(r, outcome, output), made))
RecordPromotionResult(r, outcome, made) ==
    SettleDisposition(SettleEffect([r EXCEPT !.promotion = outcome], made))

\* promote_memory: committed beside the turn, moving neither status nor phase.
\* An ended run takes one while its memory window is open, which the model
\* leaves open. One promotion is held at a time.
CanPromote(r) ==
    /\ r.promotion \notin {"Pending", "Ready", "Indeterminate"}
    /\ r.status # "Superseded"
    /\ r.session
    /\ CanReserve(r)
Promote(r) == [Reserve(r) EXCEPT !.promotion = "Pending"]

\* apply_indeterminate_resolution: what ConfirmedNotExecuted makes of an effect
\* is Cancelled on a run that winds down and a next, reserved generation
\* otherwise, an ended run's promotion included.
Redispatches(r) == r.reason = NoReason \/ IsTerminal(r)
RedispatchStatus(r) == IF IsTerminal(r) THEN r.status ELSE "WaitingForEffect"
ConfirmTurnExecuted(r, outcome, output) ==
    SettleDisposition(ApplyTurnOutcome(r, outcome, output))
ConfirmTurnNotExecuted(r) ==
    SettleDisposition(IF Redispatches(r)
                      THEN [Reserve(r) EXCEPT !.effect = "Pending", !.status = RedispatchStatus(r)]
                      ELSE [r EXCEPT !.effect = "Cancelled"])
ConfirmPromotionExecuted(r, outcome) == SettleDisposition([r EXCEPT !.promotion = outcome])
ConfirmPromotionNotExecuted(r) ==
    SettleDisposition(IF Redispatches(r)
                      THEN [Reserve(r) EXCEPT !.promotion = "Pending", !.status = RedispatchStatus(r)]
                      ELSE [r EXCEPT !.promotion = "Cancelled"])

(***************************************************************************)
(* What the run's exchanges with its task change once they settle.         *)
(***************************************************************************)
\* apply_top_up_grant
CreditTopUp(r, grant) ==
    LET credited == [r EXCEPT !.allocation = @ + grant, !.topUps = PendingTopUp(r),
                              !.parked = FALSE]
    IN  IF ~r.parked THEN r
        ELSE IF grant > 0 THEN [credited EXCEPT !.status = "Running"]
        ELSE Terminate(credited, "BudgetExhausted")

ProposalAcceptedTooLate(r) ==
    Terminate(r, IF r.status = "Cancelling" THEN r.reason ELSE "ResultAccepted")

\* settle_proposal, one arm per decision of the task. An acceptance stands even
\* where the run was winding down for another reason.
ProposalAccepted(r) == Terminate(r, "ResultAccepted")
ProposalRejected(r, remaining) ==
    IF IsTerminal(r) THEN r
    ELSE IF r.status = "Cancelling"
         THEN Terminate(r, IF r.reason = NoReason THEN "CancellationRequested" ELSE r.reason)
    ELSE IF remaining = 0 THEN Terminate(r, "ResultRejectionsExhausted")
    ELSE BeginTurn(r)
ProposalRefused(r, code) ==
    IF IsTerminal(r) THEN r
    ELSE IF code = "cancel-requested" THEN Cancel(r)
    ELSE Terminate(r, CASE code = "stale-generation" -> "Superseded"
                        [] code = "Completed"        -> "RefusedByCompletedTask"
                        [] code = "Cancelled"        -> "RefusedByCancelledTask"
                        [] OTHER                     -> "RefusedByTask")
=============================================================================
