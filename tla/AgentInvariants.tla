--------------------------- MODULE AgentInvariants ---------------------------
(***************************************************************************)
(* The inductive invariants of AgentWork that its proofs go by. IInv ties  *)
(* the exchanges under way to the entities that owe them and that answered *)
(* them. MoneyInv ties the escrows in the task's ledger to the budgets the *)
(* runs hold.                                                              *)
(*                                                                         *)
(* The parts about a single record (RunInv, BudgetInv, LedgerInv,          *)
(* LimitInv) come from AgentRunProofs.                                     *)
(***************************************************************************)
EXTENDS AgentWork, AgentRunProofs

(***************************************************************************)
(* The inductive invariant.                                                *)
(***************************************************************************)
TaskFields == {"status", "generation", "assignment", "cancelling", "rejections", "result", "ledger"}

Escrows(t) == DOMAIN t.ledger.outstanding

\* The task's record on its own.
TaskInv(t) ==
    /\ t = [f \in TaskFields |-> t[f]]
    /\ t.ledger = [f \in LedgerFields |-> t.ledger[f]]
    /\ t.generation \in Nat
    /\ t.result # NoResult => t.status = "Completed"
    /\ t.assignment # "none" => ~TaskIsTerminal(t) /\ t.generation \in Generations
    /\ t.status = "Cancelled" => Escrows(t) = {}

RunsInv ==
    /\ runs = [g \in Generations |-> runs[g]]
    /\ \A g \in Generations : Exists(g) => RunInv(runs[g])
    /\ \A g \in Generations : g > task.generation => runs[g] = NoRun

RunKinds == {"Proposal", "TopUp", "Settlement", "Return"}

\* An exchange names a generation the task has offered, and its operation
\* identifies it, at its initiator and at its receiver.
ExchangesInv ==
    /\ \A e \in pending :
          /\ e.op = Op(e.op.kind, e.op.generation, e.op.sequence)
          /\ e.op.kind \in RunKinds \cup {"Assignment", "RunCancel"}
          /\ e.op.generation \in Generations /\ e.op.generation <= task.generation
    /\ \A e, f \in pending : e.op = f.op => e = f
    /\ \A a, b \in log : a.op = b.op => a = b
    /\ \A a \in log : a.op.generation \in Generations

\* What a run's exchange says about the run while it is owed.
OwedInv ==
    \A e \in pending : LET g == e.op.generation IN
        /\ e.op.kind \in RunKinds => Exists(g)
        /\ e.op.kind \in {"Settlement", "Return"} => IsTerminal(runs[g])
        /\ e.op.kind = "Proposal" => /\ ~IsTerminal(runs[g])
                                     /\ runs[g].proposal # "none"
                                     /\ runs[g].turn = e.op.sequence

\* What an answer says about the entity that gave it.
AnsweredInv ==
    \A a \in log :
        /\ a.op.kind = "Proposal" => a.answer.verdict \in {"Accepted", "Rejected", "Refused"}
        /\ a.op.kind = "Proposal" /\ a.answer.verdict = "Accepted" =>
              task.status = "Completed" /\ task.result = a.op.generation
        /\ a.op.kind = "Assignment" /\ a.answer.verdict # "Accepted" =>
              runs[a.op.generation] = Unacceptable

\* A run that can still act, or may still come to exist, holds an escrow.
MayAct(g) ==
    \/ Exists(g) /\ ~IsTerminal(runs[g])
    \/ runs[g] = NoRun /\ \E e \in pending : e.op.kind = "Assignment" /\ e.op.generation = g

EscrowInv == \A g \in Generations : MayAct(g) => g \in Escrows(task)

\* A result that stands has reached its run, or the decision is on the way: the
\* task accepted it or, the acceptance being forgotten, has refused or will
\* refuse what is judged again.
SaysAccepted(a) == a.answer.verdict = "Accepted"
SaysCompleted(a) == a.answer.verdict = "Refused" /\ a.answer.code = "Completed"

DecisionOnTheWay(g) ==
    \E e \in pending :
        /\ e.op.kind = "Proposal" /\ e.op.generation = g
        /\ \A a \in log : a.op = e.op =>
              SaysAccepted(a) \/ (e.op \in forgotten /\ SaysCompleted(a))
        /\ Logged(e.op) \/ e.op \in forgotten

RefusedAgain(g) ==
    /\ Exists(g) /\ IsTerminal(runs[g]) /\ JudgedAgain(g)
    /\ runs[g].reason = "RefusedByCompletedTask"

OutcomeInv ==
    \A g \in Generations :
        /\ Exists(g) /\ runs[g].status = "Completed" => task.result = g
        /\ task.result = g => \/ Exists(g) /\ runs[g].status = "Completed"
                              \/ DecisionOnTheWay(g)
                              \/ RefusedAgain(g)

IInv ==
    /\ TaskInv(task) /\ RunsInv /\ ExchangesInv /\ OwedInv /\ AnsweredInv
    /\ EscrowInv /\ OutcomeInv

(***************************************************************************)
(* The books of the task and its runs.                                     *)
(***************************************************************************)
IsRun(r) == r \notin {NoRun, Unacceptable}

\* A live run holds what was escrowed for it, or waits for the latest top-up.
LiveBook(r, escrow) ==
    \/ escrow.grantedThrough = r.topUps /\ r.allocation = escrow.allocated
    \/ /\ r.parked /\ escrow.grantedThrough = r.topUps + 1 /\ escrow.lastTopUp \in Nat
       /\ r.allocation + escrow.lastTopUp = escrow.allocated

\* What the ledger l says of run g, whose record is r.
Book(l, g, r) ==
    /\ IsRun(r) => BudgetInv(r)
    /\ IsRun(r) /\ ~IsTerminal(r) => IsUnsettled(l, g) /\ LiveBook(r, l.outstanding[g])
    /\ IsRun(r) /\ IsUnsettled(l, g) => r.allocation <= l.outstanding[g].allocated
    /\ r = NoRun /\ g \in DOMAIN l.outstanding =>
          l.outstanding[g].settled = NoAmount /\ l.outstanding[g].grantedThrough = 0

\* An offer carries the escrow opened for it, a run owes only its next top-up, and
\* it reports no more than it consumed.
OwedAmount(l, r, e) ==
    LET g == e.op.generation
    IN  /\ e.op.kind = "Assignment" /\ r = NoRun =>
              g \in DOMAIN l.outstanding /\ e.arg = l.outstanding[g].allocated
        /\ e.op.kind = "TopUp" =>
              /\ e.op.sequence \in Nat
              /\ ~IsTerminal(r) => r.parked /\ e.op.sequence = r.topUps + 1
        /\ e.op.kind = "Settlement" => e.arg \in Nat /\ e.arg <= r.consumed

\* An answered top-up is one the ledger granted, and the one the run waits for is
\* the ledger's latest.
AnsweredAmount(l, r, a) ==
    LET g == a.op.generation
    IN  a.op.kind = "TopUp" =>
            /\ IsRun(r)
            /\ ~IsTerminal(r) =>
                  /\ g \in DOMAIN l.outstanding
                  /\ a.op.sequence \in Nat
                  /\ a.op.sequence <= l.outstanding[g].grantedThrough
                  /\ a.op.sequence = r.topUps + 1 =>
                        a.answer.amount = l.outstanding[g].lastTopUp

\* The task was charged no more than the runs that have reported consumed.
Charged(l, R) == {g \in Generations : IsRun(R[g]) /\ ~IsUnsettled(l, g)}

ChargeInv(l, R) == l.consumed <= SumFunction([g \in Charged(l, R) |-> R[g].consumed])

MoneyInv ==
    /\ LedgerInv(task.ledger) /\ LimitInv(task.ledger) /\ ChargeInv(task.ledger, runs)
    /\ \A g \in Escrows(task) : g \in Generations /\ g <= task.generation
    /\ \A g \in Generations : Book(task.ledger, g, runs[g])
    /\ \A e \in pending : OwedAmount(task.ledger, runs[e.op.generation], e)
    /\ \A a \in log : AnsweredAmount(task.ledger, runs[a.op.generation], a)

=============================================================================
