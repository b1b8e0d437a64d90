---------------------------- MODULE EscrowLedger ----------------------------
(***************************************************************************)
(* The escrow ledger a task keeps for the runs it assigns                  *)
(* (crates/rakka-agent/src/budget.rs): what the task was granted, what its *)
(* settled runs consumed, and one escrow per run that has not returned.    *)
(*                                                                         *)
(* The eight conserved dimensions of the code obey the same arithmetic     *)
(* independently of one another; the model carries one of them, effect     *)
(* attempts, and leaves the others unbounded.                              *)
(***************************************************************************)
EXTENDS Integers, FiniteSets, Functions

CONSTANTS ChildCapacity     \* AGENT_ESCROW_CHILD_CAPACITY

ASSUME ChildCapacityAssumption == ChildCapacity \in Nat \ {0}

\* escrow.settled = None, escrow.last_top_up = None
NoAmount == -1

SaturatingSub(a, b) == IF a > b THEN a - b ELSE 0

NotNarrowed(request, available) == request

\* AgentBudgetAllocation::narrowed_to, in one dimension.
NarrowedTo(request, available) == IF request < available THEN request ELSE available

NewLedger(grant) ==
    [allocation |-> grant, consumed |-> 0, outstanding |-> [c \in {} |-> NoAmount]]

Escrowed(ledger) ==
    SumFunction([c \in DOMAIN ledger.outstanding |-> ledger.outstanding[c].allocated])

\* AgentEscrowLedger::available. A child that has settled and not yet returned
\* still holds its whole escrow here, beside the consumption it reported.
Available(ledger) ==
    SaturatingSub(SaturatingSub(ledger.allocation, ledger.consumed), Escrowed(ledger))

\* task_budget_refusal: no escrow slot is left, or an attempt was asked for and
\* none is available.
CannotEscrow(ledger, request) ==
    \/ Cardinality(DOMAIN ledger.outstanding) >= ChildCapacity
    \/ request > 0 /\ NarrowedTo(request, Available(ledger)) = 0

\* AgentEscrowLedger::open_child: idempotent on the child.
OpenChild(ledger, child, request) ==
    IF child \in DOMAIN ledger.outstanding
    THEN ledger
    ELSE [ledger EXCEPT !.outstanding =
            [c \in DOMAIN @ \cup {child} |->
                IF c \in DOMAIN @ THEN @[c]
                ELSE [allocated |-> NarrowedTo(request, Available(ledger)),
                      grantedThrough |-> 0, lastTopUp |-> NoAmount, settled |-> NoAmount]]]

\* The sequence of a top-up is the fence: one at or below grantedThrough grants
\* nothing new, and the latest is answered with its original grant.
IsReplayedTopUp(escrow, sequence) ==
    sequence = escrow.grantedThrough /\ escrow.lastTopUp # NoAmount

TopUpRefused(ledger, child, sequence) ==
    \/ child \notin DOMAIN ledger.outstanding
    \/ LET escrow == ledger.outstanding[child]
       IN  \/ sequence <= escrow.grantedThrough /\ ~IsReplayedTopUp(escrow, sequence)
           \/ sequence > escrow.grantedThrough /\ escrow.settled # NoAmount

\* The grant of AgentEscrowLedger::top_up_child when it does not refuse.
TopUpGrant(ledger, child, sequence, request) ==
    IF IsReplayedTopUp(ledger.outstanding[child], sequence)
    THEN ledger.outstanding[child].lastTopUp
    ELSE NarrowedTo(request, Available(ledger))

TopUpChildUnfenced(ledger, child, sequence, request) ==
    LET escrow == ledger.outstanding[child]
        grant == NarrowedTo(request, Available(ledger))
    IN  [ledger EXCEPT !.outstanding[child] =
           [escrow EXCEPT !.allocated = escrow.allocated + grant,
                          !.grantedThrough = sequence, !.lastTopUp = grant]]

TopUpChild(ledger, child, sequence, request) ==
    LET escrow == ledger.outstanding[child]
        grant == NarrowedTo(request, Available(ledger))
    IN  IF IsReplayedTopUp(escrow, sequence)
        THEN ledger
        ELSE [ledger EXCEPT !.outstanding[child] =
                [escrow EXCEPT !.allocated = escrow.allocated + grant,
                               !.grantedThrough = sequence, !.lastTopUp = grant]]

\* AgentEscrowLedger::settle_child: the first report stands.
SettleChild(ledger, child, consumed) ==
    IF \/ child \notin DOMAIN ledger.outstanding
       \/ ledger.outstanding[child].settled # NoAmount
    THEN ledger
    ELSE [ledger EXCEPT !.consumed = @ + consumed,
                        !.outstanding[child].settled = consumed]

\* AgentEscrowLedger::return_child: only a settled child returns.
ReturnChild(ledger, child) ==
    IF \/ child \notin DOMAIN ledger.outstanding
       \/ ledger.outstanding[child].settled = NoAmount
    THEN ledger
    ELSE [ledger EXCEPT !.outstanding = [c \in DOMAIN @ \ {child} |-> @[c]]]
=============================================================================
