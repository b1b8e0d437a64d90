--------------------------- MODULE AgentMoneyProofs ---------------------------
(***************************************************************************)
(* MoneyInv is inductive under IInv: no step of AgentWork moves budget     *)
(* between the task's ledger and a run's other than by an escrow, a top-   *)
(* up, a settlement or a return, each of which has its effect once.        *)
(*                                                                         *)
(* The transitions of the task come first, with what each leaves alone;    *)
(* then the books of one run under each ledger operation; then the steps   *)
(* of the two entities.                                                    *)
(***************************************************************************)
EXTENDS AgentInvariants

\* A run's record is neither of the two placeholders.
LEMMA RunsExist ==
    ASSUME NEW r, RunInv(r)
    PROVE  r \notin {NoRun, Unacceptable}
BY DEF RunInv, NoRun, Unacceptable, TerminalStatus, LiveStatus

(***************************************************************************)
(* The transitions of a task.                                              *)
(***************************************************************************)
\* What a step of the task may do to it short of an offer or an acceptance.
TaskKeeps(t, u) ==
    /\ TaskInv(u)
    /\ u.generation = t.generation /\ u.result = t.result
    /\ t.status = "Completed" => u.status = "Completed"

\* terminate, for any status but Cancelled.
LEMMA EndTaskKeeps ==
    ASSUME NEW t, TaskInv(t), NEW status \in {"Failed", "Cancelled"}, ~TaskIsTerminal(t),
           status = "Cancelled" => Escrows(t) = {}
    PROVE  TaskKeeps(t, EndTask(t, status)) /\ Escrows(EndTask(t, status)) = Escrows(t)
<1> DEFINE u == EndTask(t, status)
<1>1. /\ u = [f \in TaskFields |-> u[f]]
      /\ u.status = status /\ u.assignment = "none" /\ u.generation = t.generation
      /\ u.result = t.result /\ u.ledger = t.ledger
  BY Zenon DEF EndTask, TaskInv, TaskFields
<1>2. t.status # "Completed"
  BY DEF TaskIsTerminal, TerminalTaskStatus
<1> HIDE DEF u
<1>3. Escrows(u) = Escrows(t)
  BY <1>1 DEF Escrows
<1>4. TaskInv(u)
  BY Zenon, <1>1, <1>2, <1>3 DEF TaskInv
<1>5. TaskKeeps(t, u)
  BY Zenon, <1>1, <1>2, <1>4 DEF TaskKeeps
<1> QED
  BY <1>3, <1>5 DEF u

\* finalize_task_cancellation
LEMMA FinalizeKeeps ==
    ASSUME NEW t, TaskInv(t)
    PROVE  /\ TaskKeeps(t, FinalizeCancellation(t))
           /\ Escrows(FinalizeCancellation(t)) = Escrows(t)
<1>1. CASE t.cancelling /\ ~TaskIsTerminal(t) /\ DOMAIN t.ledger.outstanding = {}
  BY Zenon, <1>1, EndTaskKeeps DEF FinalizeCancellation, Escrows
<1>2. CASE ~(t.cancelling /\ ~TaskIsTerminal(t) /\ DOMAIN t.ledger.outstanding = {})
  BY <1>2 DEF FinalizeCancellation, TaskKeeps
<1> QED
  BY Zenon, <1>1, <1>2

\* Two such steps are one.
LEMMA TaskKeepsChains ==
    ASSUME NEW t, NEW u, NEW v, TaskKeeps(t, u), TaskKeeps(u, v)
    PROVE  TaskKeeps(t, v)
BY DEF TaskKeeps

\* What the operations of the ledger do to the set of escrows: settle_child,
LEMMA SettleEscrows ==
    ASSUME NEW l, l = [f \in LedgerFields |-> l[f]], NEW g, NEW x
    PROVE  LET m == SettleChild(l, g, x)
           IN  m = [f \in LedgerFields |-> m[f]] /\ DOMAIN m.outstanding = DOMAIN l.outstanding
BY Zenon DEF SettleChild, LedgerFields

\* return_child
LEMMA ReturnEscrows ==
    ASSUME NEW l, l = [f \in LedgerFields |-> l[f]], NEW g
    PROVE  LET m == ReturnChild(l, g)
           IN  /\ m = [f \in LedgerFields |-> m[f]]
               /\ DOMAIN m.outstanding \subseteq DOMAIN l.outstanding
               /\ DOMAIN l.outstanding \ {g} \subseteq DOMAIN m.outstanding
BY DEF ReturnChild, LedgerFields

\* request_task_cancellation
LEMMA RequestKeeps ==
    ASSUME NEW t, TaskInv(t)
    PROVE  /\ TaskKeeps(t, RequestCancellation(t))
           /\ Escrows(RequestCancellation(t)) = Escrows(t)
<1> DEFINE u == [t EXCEPT !.cancelling = TRUE]
<1>1. /\ u = [f \in TaskFields |-> u[f]]
      /\ u.status = t.status /\ u.assignment = t.assignment /\ u.generation = t.generation
      /\ u.result = t.result /\ u.ledger = t.ledger
  BY Zenon DEF TaskInv, TaskFields
<1>2. RequestCancellation(t) = FinalizeCancellation(u)
  BY DEF RequestCancellation
<1> HIDE DEF u
<1>3. Escrows(u) = Escrows(t)
  BY Zenon, <1>1 DEF Escrows
<1>4. TaskKeeps(t, u)
  BY Zenon, <1>1, <1>3 DEF TaskKeeps, TaskInv, TaskIsTerminal
<1> QED
  BY <1>2, <1>3, <1>4, FinalizeKeeps, TaskKeepsChains DEF TaskKeeps

\* settle_assignment
LEMMA SettleAssignmentKeeps ==
    ASSUME NEW t, TaskInv(t), NEW g, NEW accepted \in BOOLEAN
    PROVE  /\ TaskKeeps(t, SettleAssignment(t, g, accepted))
           /\ Escrows(t) \ {g} \subseteq Escrows(SettleAssignment(t, g, accepted))
           /\ accepted => Escrows(SettleAssignment(t, g, accepted)) = Escrows(t)
<1> DEFINE l == ReturnChild(SettleChild(t.ledger, g, 0), g)
           a == [t EXCEPT !.assignment = "Accepted", !.status = "InProgress"]
           b == [t EXCEPT !.assignment = "none", !.status = "Created", !.ledger = l]
<1>1. /\ l = [f \in LedgerFields |-> l[f]]
      /\ DOMAIN l.outstanding \subseteq Escrows(t)
      /\ Escrows(t) \ {g} \subseteq DOMAIN l.outstanding
  <2> DEFINE m == SettleChild(t.ledger, g, 0)
  <2>1. m = [f \in LedgerFields |-> m[f]] /\ DOMAIN m.outstanding = Escrows(t)
    BY SettleEscrows DEF TaskInv, Escrows
  <2> HIDE DEF m
  <2>2. LET n == ReturnChild(m, g)
        IN  /\ n = [f \in LedgerFields |-> n[f]]
            /\ DOMAIN n.outstanding \subseteq Escrows(t)
            /\ Escrows(t) \ {g} \subseteq DOMAIN n.outstanding
    BY Zenon, <2>1, ReturnEscrows
  <2> QED
    BY Zenon, <2>2 DEF m
<1>2. /\ a = [f \in TaskFields |-> a[f]]
      /\ a.status = "InProgress" /\ a.assignment = "Accepted" /\ a.generation = t.generation
      /\ a.result = t.result /\ a.ledger = t.ledger
  BY Zenon DEF TaskInv, TaskFields
<1>3. \/ t.assignment = "none" /\ SettleAssignment(t, g, accepted) = FinalizeCancellation(t)
      \/ /\ t.assignment # "none"
         /\ \/ SettleAssignment(t, g, accepted) = FinalizeCancellation(t)
            \/ accepted /\ SettleAssignment(t, g, accepted) = FinalizeCancellation(a)
            \/ ~accepted /\ SettleAssignment(t, g, accepted) = FinalizeCancellation(b)
  BY DEF SettleAssignment, TaskInv, TaskFields
<1> HIDE DEF l
<1>4. /\ b = [f \in TaskFields |-> b[f]]
      /\ b.status = "Created" /\ b.assignment = "none" /\ b.generation = t.generation
      /\ b.result = t.result /\ b.ledger = l
  BY Zenon DEF TaskInv, TaskFields
<1> HIDE DEF a, b
<1>5. Escrows(a) = Escrows(t) /\ Escrows(b) = DOMAIN l.outstanding
  BY Zenon, <1>2, <1>4 DEF Escrows
<1>6. ASSUME t.assignment # "none"
      PROVE  TaskKeeps(t, a) /\ TaskKeeps(t, b)
  <2>1. ~TaskIsTerminal(t) /\ t.generation \in Generations
    BY <1>6 DEF TaskInv
  <2>2. ~TaskIsTerminal(a) /\ ~TaskIsTerminal(b) /\ t.status # "Completed"
    BY Zenon, <1>2, <1>4, <2>1 DEF TaskIsTerminal, TerminalTaskStatus
  <2>3. TaskInv(a)
    BY Zenon, <1>2, <1>5, <2>1, <2>2 DEF TaskInv
  <2>4. TaskInv(b)
    BY Zenon, <1>1, <1>4, <1>5, <2>1, <2>2 DEF TaskInv
  <2> QED
    BY Zenon, <1>2, <1>4, <2>2, <2>3, <2>4 DEF TaskKeeps
<1>7. ASSUME NEW u, TaskKeeps(t, u)
      PROVE  TaskKeeps(t, FinalizeCancellation(u)) /\ Escrows(FinalizeCancellation(u)) = Escrows(u)
  BY Zenon, <1>7, FinalizeKeeps, TaskKeepsChains DEF TaskKeeps
<1>8. TaskKeeps(t, t)
  BY DEF TaskKeeps
<1> QED
  BY Zenon, <1>1, <1>3, <1>5, <1>6, <1>7, <1>8

\* owed_run_cancel
LEMMA OwedByTaskOK ==
    ASSUME NEW t, TaskInv(t)
    PROVE  /\ \A x, y \in OwedByTask(t) : x = y
           /\ \A x \in OwedByTask(t) :
                 /\ x.op = Op(x.op.kind, x.op.generation, x.op.sequence)
                 /\ x.op.kind = "RunCancel"
                 /\ x.op.generation \in Generations /\ x.op.generation = t.generation
<1> DEFINE c == Envelope(Op("RunCancel", t.generation, 0), 0)
<1>1. \A x \in OwedByTask(t) : x = c /\ t.generation \in Generations
  BY DEF OwedByTask, OwesRunCancel, TaskInv
<1>2. /\ c.op.kind = "RunCancel" /\ c.op.generation = t.generation
      /\ c.op = Op(c.op.kind, c.op.generation, c.op.sequence)
  BY DEF Envelope, Op
<1> HIDE DEF c
<1> QED
  BY Zenon, <1>1, <1>2

SameEscrow(l, m, g) ==
    /\ g \in DOMAIN m.outstanding <=> g \in DOMAIN l.outstanding
    /\ g \in DOMAIN l.outstanding => m.outstanding[g] = l.outstanding[g]

\* What is said of a run rests on its own escrow alone.
LEMMA SameBooks ==
    ASSUME NEW l, NEW m, NEW g, SameEscrow(l, m, g), NEW r
    PROVE  /\ IsUnsettled(m, g) <=> IsUnsettled(l, g)
           /\ Book(l, g, r) => Book(m, g, r)
           /\ \A e : e.op.generation = g /\ OwedAmount(l, r, e) => OwedAmount(m, r, e)
           /\ \A a : a.op.generation = g /\ AnsweredAmount(l, r, a) => AnsweredAmount(m, r, a)
<1>1. IsUnsettled(m, g) <=> IsUnsettled(l, g)
  BY DEF IsUnsettled, SameEscrow
<1>2. IsUnsettled(l, g) => g \in DOMAIN l.outstanding
  BY Zenon DEF IsUnsettled
<1>3. Book(l, g, r) => Book(m, g, r)
  BY Zenon, <1>1, <1>2 DEF Book, SameEscrow
<1>4. \A e : e.op.generation = g /\ OwedAmount(l, r, e) => OwedAmount(m, r, e)
  BY Zenon DEF OwedAmount, SameEscrow
<1>5. \A a : a.op.generation = g /\ AnsweredAmount(l, r, a) => AnsweredAmount(m, r, a)
  BY DEF AnsweredAmount, SameEscrow
<1> QED
  BY Zenon, <1>1, <1>3, <1>4, <1>5

LEMMA SmallGenerations == \A S \in SUBSET Generations : Small(S)
<1>1. MaxAssignments \in Nat
  BY Zenon, TaskLimitsAssumption
<1> QED
  BY Zenon, <1>1, SmallIntervals DEF Generations

\* Runs that consume more, or more of them, cover the same charge.
LEMMA ChargeGrows ==
    ASSUME NEW l, NEW m, NEW R, NEW Q, ChargeInv(l, R), l.consumed \in Nat,
           m.consumed = l.consumed, Charged(l, R) \subseteq Charged(m, Q),
           \A g \in Charged(m, Q) : Q[g].consumed \in Nat,
           \A g \in Charged(l, R) : R[g].consumed \in Nat /\ R[g].consumed <= Q[g].consumed
    PROVE  ChargeInv(m, Q)
<1> DEFINE S == Charged(m, Q)
           T == Charged(l, R)
           f == [g \in S |-> Q[g].consumed]
           h == [g \in T |-> R[g].consumed]
<1>0. Small(S)
  BY Zenon, SmallGenerations DEF Charged
<1>1. /\ T \in SUBSET S /\ f \in [S -> Nat] /\ h \in [T -> Nat]
      /\ \A g \in T : h[g] <= f[g]
  OBVIOUS
<1>2. l.consumed <= SumFunction(h)
  BY DEF ChargeInv
<1> HIDE DEF S, T, f, h
<1>3. SumFunction(f) \in Nat /\ SumFunction(h) \in Nat /\ SumFunction(h) <= SumFunction(f)
  BY Zenon, <1>0, <1>1, SumMonotone
<1>4. m.consumed <= SumFunction(f)
  BY <1>2, <1>3
<1> QED
  BY Zenon, <1>4 DEF ChargeInv, S, f

\* A run that reports is charged for.
LEMMA ChargeAdds ==
    ASSUME NEW l, NEW m, NEW R, ChargeInv(l, R), l.consumed \in Nat,
           NEW g \in Charged(m, R), Charged(l, R) = Charged(m, R) \ {g},
           \A c \in Charged(m, R) : R[c].consumed \in Nat,
           NEW x \in Nat, x <= R[g].consumed, m.consumed = l.consumed + x
    PROVE  ChargeInv(m, R)
<1> DEFINE S == Charged(m, R)
           f == [c \in S |-> R[c].consumed]
           h == [c \in S \ {g} |-> f[c]]
<1>0. Small(S)
  BY Zenon, SmallGenerations DEF Charged
<1>1. f \in [S -> Nat]
  OBVIOUS
<1>7. f[g] = R[g].consumed
  BY Zenon
<1>2. h = [c \in Charged(l, R) |-> R[c].consumed]
  OBVIOUS
<1>3. l.consumed <= SumFunction(h)
  <2> HIDE DEF h
  <2> QED
    BY <1>2 DEF ChargeInv
<1>4. SumFunction(f) = f[g] + SumFunction(h) /\ SumFunction(h) \in Nat
  <2>1. g \in S
    OBVIOUS
  <2> HIDE DEF S, f, h
  <2>2. SplitsOff(S, f, g)
    BY Zenon, <1>0, <1>1, <2>1, SumWithout
  <2> QED
    BY Zenon, <2>2 DEF h, SplitsOff
<1>5. R[g].consumed \in Nat
  OBVIOUS
<1>6. m.consumed <= SumFunction(f)
  <2> HIDE DEF S, f, h
  <2> QED
    BY <1>3, <1>4, <1>5, <1>7
<1> QED
  BY Zenon, <1>6 DEF ChargeInv

\* The generation after the last one offered.
LEMMA NextGeneration ==
    ASSUME NEW n \in Nat, ~(n >= MaxAssignments)
    PROVE  n + 1 \in Generations /\ n + 1 > n
BY TaskLimitsAssumption DEF Generations

LEMMA Order ==
    ASSUME NEW n \in Nat, NEW k \in Nat
    PROVE  n <= n /\ (~(n <= k) => n > k)
OBVIOUS

\* What a run has consumed is within what was escrowed for it.
LEMMA ConsumedFits ==
    ASSUME NEW r, BudgetInv(r), NEW x \in Nat, x <= r.consumed,
           NEW y \in Nat, r.allocation <= y
    PROVE  x <= y
BY DEF BudgetInv

\* The top-up n that a live run asks for next is new to its escrow, or is the one
\* the escrow granted last.
NewOrLast(r, escrow, n) ==
    /\ n > escrow.grantedThrough =>
          /\ escrow.grantedThrough = r.topUps /\ r.allocation = escrow.allocated
          /\ \A k \in Nat : k <= escrow.grantedThrough => k # n /\ k <= n
    /\ n <= escrow.grantedThrough =>
          /\ IsReplayedTopUp(escrow, n) /\ escrow.lastTopUp \in Nat
          /\ r.allocation + escrow.lastTopUp = escrow.allocated

LEMMA NextTopUp ==
    ASSUME NEW r, NEW escrow, LiveBook(r, escrow), r.topUps \in Nat,
           escrow.grantedThrough \in Nat
    PROVE  NewOrLast(r, escrow, r.topUps + 1)
BY DEF NewOrLast, LiveBook, IsReplayedTopUp, NoAmount

\* A step that concerns run g alone, at the task, at the run or between them.
LEMMA OneRunMoney ==
    ASSUME IInv, MoneyInv, NEW g \in Generations,
           \A h \in Generations : h # g => runs'[h] = runs[h],
           LedgerInv(task'.ledger), LimitInv(task'.ledger), ChargeInv(task'.ledger, runs'),
           \A h \in Generations : h # g => SameEscrow(task.ledger, task'.ledger, h),
           \A h \in Escrows(task') : h \in Generations /\ h <= task'.generation,
           Book(task'.ledger, g, runs'[g]),
           \A e \in pending' : /\ e \in pending \/ e.op.generation = g
                               /\ e.op.generation = g => OwedAmount(task'.ledger, runs'[g], e),
           \A a \in log' : /\ a \in log \/ a.op.generation = g
                           /\ a.op.generation = g => AnsweredAmount(task'.ledger, runs'[g], a)
    PROVE  MoneyInv'
<1>1. \A h \in Generations : Book(task'.ledger, h, runs'[h])
  BY Zenon, SameBooks DEF MoneyInv
<1>2. \A e \in pending : e.op.generation \in Generations
  BY Zenon DEF IInv, ExchangesInv
<1>3. \A a \in log : a.op.generation \in Generations
  BY Zenon DEF IInv, ExchangesInv
<1>4. \A e \in pending' : OwedAmount(task'.ledger, runs'[e.op.generation], e)
  BY <1>2, SameBooks DEF MoneyInv
<1>5. \A a \in log' : AnsweredAmount(task'.ledger, runs'[a.op.generation], a)
  BY <1>3, SameBooks DEF MoneyInv
<1> QED
  BY Zenon, <1>1, <1>4, <1>5 DEF MoneyInv

\* What is said of a run survives a step within its budget.
LEMMA BudgetBooks ==
    ASSUME NEW l, NEW g, NEW r, NEW s, IsRun(r), IsRun(s), Book(l, g, r), BudgetOK(r, s)
    PROVE  /\ Book(l, g, s)
           /\ \A e : OwedAmount(l, r, e) => OwedAmount(l, s, e)
           /\ \A a : AnsweredAmount(l, r, a) => AnsweredAmount(l, s, a)
<1>1. /\ BudgetInv(s) /\ s.allocation = r.allocation /\ s.topUps = r.topUps
      /\ r.consumed \in Nat /\ s.consumed \in Nat /\ r.consumed <= s.consumed
      /\ ~IsTerminal(s) => ~IsTerminal(r) /\ (r.parked => s.parked)
  BY DEF BudgetOK, BudgetInv, Book
<1>2. r # NoRun /\ s # NoRun
  BY DEF IsRun
<1>3. ASSUME NEW escrow, LiveBook(r, escrow), ~IsTerminal(s) PROVE LiveBook(s, escrow)
  BY Zenon, <1>1, <1>3 DEF LiveBook
<1>4. Book(l, g, s)
  BY Zenon, <1>1, <1>2, <1>3 DEF Book
<1>5. ASSUME NEW e, OwedAmount(l, r, e) PROVE OwedAmount(l, s, e)
  <2>1. e.arg \in Nat /\ e.arg <= r.consumed => e.arg <= s.consumed
    BY <1>1
  <2> QED
    BY Zenon, <1>1, <1>2, <1>5, <2>1 DEF OwedAmount
<1>6. ASSUME NEW a, AnsweredAmount(l, r, a) PROVE AnsweredAmount(l, s, a)
  BY Zenon, <1>1, <1>6 DEF AnsweredAmount
<1> QED
  BY Zenon, <1>4, <1>5, <1>6

\* The amounts of what a run owes (owed_ledger_exchange).
LEMMA OwedByRunAmounts ==
    ASSUME NEW g, NEW s, BudgetInv(s), NEW l
    PROVE  \A x \in OwedByRun(g, s) : x.op.generation = g /\ OwedAmount(l, s, x)
<1>1. s.topUps \in Nat /\ s.consumed \in Nat
  BY Zenon DEF BudgetInv
<1>2. OwedAmount(l, s, OwedReturn(g)) /\ OwedReturn(g).op.generation = g
  BY Zenon DEF OwedAmount, OwedReturn, Envelope, Op
<1>3. OwedAmount(l, s, OwedSettlement(g, s)) /\ OwedSettlement(g, s).op.generation = g
  BY <1>1 DEF OwedAmount, OwedSettlement, Envelope, Op
<1>4. OwedTopUp(g, s).op.generation = g /\ (s.parked => OwedAmount(l, s, OwedTopUp(g, s)))
  BY <1>1 DEF OwedAmount, OwedTopUp, PendingTopUp, Envelope, Op
<1> QED
  BY Zenon, <1>2, <1>3, <1>4 DEF OwedByRun

\* A run's record and what it owes change, the task's record does not.
LEMMA RunMoney ==
    ASSUME IInv, MoneyInv, NEW g \in Generations, Exists(g), NEW s, RunInv(s),
           BudgetOK(runs[g], s), runs' = [runs EXCEPT ![g] = s], task' = task,
           NEW owed, \A x \in owed : x.op.generation = g /\ OwedAmount(task.ledger, s, x),
           \A e \in pending' : e \in pending \/ e \in owed,
           \A a \in log' : a \in log \/ (a.op.generation = g /\ a.op.kind # "TopUp")
    PROVE  MoneyInv'
<1> DEFINE r == runs[g]
           l == task.ledger
<1>1. runs'[g] = s /\ \A h \in Generations : h # g => runs'[h] = runs[h]
  BY Zenon DEF IInv, RunsInv
<1>2. IsRun(r) /\ IsRun(s) /\ Book(l, g, r)
  BY Zenon, RunsExist DEF Exists, IsRun, MoneyInv
<1>3. /\ Book(l, g, s)
      /\ \A e : OwedAmount(l, r, e) => OwedAmount(l, s, e)
      /\ \A a : AnsweredAmount(l, r, a) => AnsweredAmount(l, s, a)
  BY Zenon, <1>2, BudgetBooks
<1>4. ChargeInv(l, runs')
  <2>1. \A h \in Generations : IsRun(runs'[h]) <=> IsRun(runs[h])
    BY Zenon, <1>1, <1>2
  <2>2. Charged(l, runs') = Charged(l, runs)
    BY Zenon, <2>1 DEF Charged
  <2>3. \A h \in Generations : IsRun(runs[h]) => runs[h].consumed \in Nat
    BY Zenon DEF MoneyInv, Book, BudgetInv
  <2>4. s.consumed \in Nat /\ r.consumed \in Nat /\ r.consumed <= s.consumed
    BY Zenon, <1>2, <2>3 DEF BudgetOK, BudgetInv
  <2>5. \A h \in Charged(l, runs) : h \in Generations /\ IsRun(runs[h])
    BY Zenon DEF Charged
  <2>6. \A h \in Charged(l, runs) :
           /\ runs'[h].consumed \in Nat /\ runs[h].consumed \in Nat
           /\ runs[h].consumed <= runs'[h].consumed
    BY <1>1, <2>3, <2>4, <2>5
  <2>7. ChargeInv(l, runs) /\ l.consumed \in Nat
    BY DEF MoneyInv, LedgerInv
  <2> HIDE DEF l
  <2> QED
    BY Zenon, <2>2, <2>6, <2>7, ChargeGrows
<1>5. \A e \in pending' : /\ e \in pending \/ e.op.generation = g
                          /\ e.op.generation = g => OwedAmount(task'.ledger, runs'[g], e)
  BY Zenon, <1>1, <1>3 DEF MoneyInv
<1>6. \A a \in log' : /\ a \in log \/ a.op.generation = g
                      /\ a.op.generation = g => AnsweredAmount(task'.ledger, runs'[g], a)
  <2>1. \A a : a.op.kind # "TopUp" => AnsweredAmount(l, s, a)
    BY Zenon DEF AnsweredAmount
  <2> QED
    BY Zenon, <1>1, <1>3, <2>1 DEF MoneyInv
<1>7. /\ LedgerInv(task'.ledger) /\ LimitInv(task'.ledger) /\ ChargeInv(task'.ledger, runs')
      /\ \A h \in Generations : h # g => SameEscrow(task.ledger, task'.ledger, h)
      /\ \A h \in Escrows(task') : h \in Generations /\ h <= task'.generation
      /\ Book(task'.ledger, g, runs'[g])
  BY Zenon, <1>1, <1>3, <1>4 DEF MoneyInv, SameEscrow
<1> QED
  BY Zenon, <1>1, <1>5, <1>6, <1>7, OneRunMoney

\* The commit of a run.
LEMMA CommitRunMoney ==
    ASSUME IInv, MoneyInv, NEW g \in Generations, Exists(g), NEW s, RunInv(s),
           BudgetOK(runs[g], s), NEW extra,
           \A x \in extra : x.op.generation = g /\ OwedAmount(task.ledger, s, x),
           CommitRun(g, s, extra)
    PROVE  MoneyInv'
<1> DEFINE owed == OwedByRun(g, s) \cup extra
<1>1. /\ runs' = [runs EXCEPT ![g] = s] /\ task' = task /\ log' = log
      /\ pending' = pending \cup Fresh(owed)
  BY Zenon DEF CommitRun
<1>2. \A e \in pending' : e \in pending \/ e \in owed
  BY Zenon, <1>1 DEF Fresh
<1>3. \A x \in owed : x.op.generation = g /\ OwedAmount(task.ledger, s, x)
  BY Zenon, OwedByRunAmounts DEF BudgetOK
<1>4. \A a \in log' : a \in log \/ (a.op.generation = g /\ a.op.kind # "TopUp")
  BY Zenon, <1>1
<1> HIDE DEF owed
<1> QED
  BY Zenon, <1>1, <1>2, <1>3, <1>4, RunMoney

LEMMA CommitRunAloneMoney ==
    ASSUME IInv, MoneyInv, NEW g \in Generations, Exists(g), NEW s, StepOK(runs[g], s),
           BudgetOK(runs[g], s), CommitRun(g, s, {})
    PROVE  MoneyInv'
<1> DEFINE extra == {}
<1>1. CommitRun(g, s, extra) /\ \A x \in extra : FALSE
  BY Zenon
<1>2. RunInv(s)
  BY DEF StepOK
<1> HIDE DEF extra
<1> QED
  BY Zenon, <1>1, <1>2, CommitRunMoney

\* Every step of a run on its own.
LEMMA RunStepsMoney ==
    ASSUME IInv, MoneyInv, NEW g \in Generations, RunSteps(g)
    PROVE  MoneyInv'
<1> DEFINE r == runs[g]
<1>0. Exists(g) => RunInv(r) /\ BudgetInv(r)
  BY DEF IInv, RunsInv, MoneyInv, Book, Exists, IsRun
<1>00. \A outcome : MadeBy(outcome) \subseteq 0..Attempts
  BY AttemptsAssumption DEF MadeBy
<1>1. CASE AdvanceRun(g)
  <2> DEFINE s == Advance(r)
             p == Envelope(Op("Proposal", g, r.turn), r.output)
             extra == IF Proposes(r) THEN {p} ELSE {}
  <2>1. Exists(g) /\ CanAdvance(r) /\ CommitRun(g, s, extra)
    BY Zenon, <1>1 DEF AdvanceRun
  <2>2. RunInv(s) /\ BudgetOK(r, s)
    BY Zenon, <1>0, <2>1, AdvanceKeeps, AdvanceBudget DEF StepOK
  <2>3. \A x \in extra : x = p
    BY Zenon
  <2>4. p.op.generation = g /\ p.op.kind = "Proposal"
    BY DEF Envelope, Op
  <2> HIDE DEF s, p, extra
  <2>5. \A x \in extra : x.op.generation = g /\ OwedAmount(task.ledger, s, x)
    BY Zenon, <2>3, <2>4 DEF OwedAmount
  <2> QED
    BY Zenon, <2>1, <2>2, <2>5, CommitRunMoney
<1>2. CASE DispatchEffects(g)
  <2>1. Exists(g) /\ CommitRun(g, MarkReady(r), {})
    BY Zenon, <1>2 DEF DispatchEffects
  <2> QED
    BY Zenon, <1>0, <2>1, MarkReadyKeeps, MarkReadyBudget, CommitRunAloneMoney
<1>3. CASE RecordTurnEffect(g)
  <2>1. PICK outcome \in {"Succeeded", "Failed", "Indeterminate", "Cancelled"} :
          \E made \in MadeBy(outcome), output \in Outputs :
             CommitRun(g, RecordTurnResult(r, outcome, output, made), {})
    BY Zenon, <1>3 DEF RecordTurnEffect
  <2>2. PICK made \in MadeBy(outcome), output \in Outputs :
             CommitRun(g, RecordTurnResult(r, outcome, output, made), {})
    BY Zenon, <2>1
  <2>3. Exists(g) /\ ~IsTerminal(r) /\ r.effect = "Ready" /\ r.effect \in {"Ready", "Indeterminate"}
    BY Zenon, <1>3 DEF RecordTurnEffect
  <2>4. StepOK(r, RecordTurnResult(r, outcome, output, made))
    BY Zenon, <1>0, <2>3, TurnResultKeeps
  <2>5. BudgetOK(r, RecordTurnResult(r, outcome, output, made))
    BY Zenon, <1>0, <1>00, <2>3, TurnResultBudget
  <2> QED
    BY Zenon, <2>2, <2>3, <2>4, <2>5, CommitRunAloneMoney
<1>4. CASE RecordPromotionEffect(g)
  <2>1. PICK outcome \in {"Succeeded", "Failed", "Indeterminate"} :
          \E made \in MadeBy(outcome) : CommitRun(g, RecordPromotionResult(r, outcome, made), {})
    BY Zenon, <1>4 DEF RecordPromotionEffect
  <2>2. PICK made \in MadeBy(outcome) : CommitRun(g, RecordPromotionResult(r, outcome, made), {})
    BY Zenon, <2>1
  <2>3. Exists(g) /\ r.promotion = "Ready"
    BY Zenon, <1>4 DEF RecordPromotionEffect
  <2>4. StepOK(r, RecordPromotionResult(r, outcome, made))
    BY Zenon, <1>0, <2>3, PromotionStepsKeep
  <2>5. BudgetOK(r, RecordPromotionResult(r, outcome, made))
    BY Zenon, <1>0, <1>00, <2>3, PromotionBudget
  <2> QED
    BY Zenon, <2>2, <2>3, <2>4, <2>5, CommitRunAloneMoney
<1>5. CASE PromoteMemory(g)
  <2>1. Exists(g) /\ CanPromote(r) /\ CommitRun(g, Promote(r), {})
    BY Zenon, <1>5 DEF PromoteMemory
  <2>2. 0 \in 0..Attempts /\ "Failed" \in {"Succeeded", "Failed", "Indeterminate"}
    BY AttemptsAssumption
  <2>3. StepOK(r, Promote(r)) /\ BudgetOK(r, Promote(r))
    BY Zenon, <1>0, <2>1, <2>2, PromotionStepsKeep, PromotionBudget
  <2> QED
    BY Zenon, <2>1, <2>3, CommitRunAloneMoney
<1>6. CASE ResolveTurnEffect(g)
  <2>1. /\ Exists(g) /\ ~IsTerminal(r) /\ r.effect = "Indeterminate"
        /\ r.effect \in {"Ready", "Indeterminate"}
    BY Zenon, <1>6 DEF ResolveTurnEffect
  <2>2. CASE /\ Redispatches(r) => CanReserve(r)
             /\ CommitRun(g, ConfirmTurnNotExecuted(r), {})
    BY Zenon, <1>0, <2>1, <2>2, NotExecutedKeeps, NotExecutedBudget, CommitRunAloneMoney
  <2>3. CASE \E outcome \in {"Succeeded", "Failed"}, output \in Outputs :
                CommitRun(g, ConfirmTurnExecuted(r, outcome, output), {})
    <3>1. PICK outcome \in {"Succeeded", "Failed"}, output \in Outputs :
                CommitRun(g, ConfirmTurnExecuted(r, outcome, output), {})
      BY Zenon, <2>3
    <3>2. StepOK(r, ConfirmTurnExecuted(r, outcome, output))
      BY Zenon, <1>0, <2>1, TurnResultKeeps
    <3>3. 0 \in 0..Attempts
      BY AttemptsAssumption
    <3>4. BudgetOK(r, ConfirmTurnExecuted(r, outcome, output))
      BY Zenon, <1>0, <2>1, <3>3, TurnResultBudget
    <3> QED
      BY Zenon, <2>1, <3>1, <3>2, <3>4, CommitRunAloneMoney
  <2> QED
    BY Zenon, <1>6, <2>2, <2>3 DEF ResolveTurnEffect
<1>7. CASE ResolvePromotion(g)
  <2>1. Exists(g)
    BY Zenon, <1>7 DEF ResolvePromotion
  <2>2. CASE /\ Redispatches(r) => CanReserve(r)
             /\ CommitRun(g, ConfirmPromotionNotExecuted(r), {})
    BY Zenon, <1>0, <2>1, <2>2, NotExecutedKeeps, NotExecutedBudget, CommitRunAloneMoney
  <2>3. CASE \E outcome \in {"Succeeded", "Failed"} :
                CommitRun(g, ConfirmPromotionExecuted(r, outcome), {})
    <3>1. PICK outcome \in {"Succeeded", "Failed"} :
                CommitRun(g, ConfirmPromotionExecuted(r, outcome), {})
      BY Zenon, <2>3
    <3>2. StepOK(r, ConfirmPromotionExecuted(r, outcome))
      BY Zenon, <1>0, <2>1, PromotionStepsKeep
    <3>3. 0 \in 0..Attempts
      BY AttemptsAssumption
    <3>4. BudgetOK(r, ConfirmPromotionExecuted(r, outcome))
      BY Zenon, <1>0, <2>1, <3>3, PromotionBudget
    <3> QED
      BY Zenon, <2>1, <3>1, <3>2, <3>4, CommitRunAloneMoney
  <2> QED
    BY Zenon, <1>7, <2>2, <2>3 DEF ResolvePromotion
<1>8. CASE CancelRun(g)
  <2>1. Exists(g) /\ ~IsTerminal(r) /\ CommitRun(g, Cancel(r), {})
    BY Zenon, <1>8 DEF CancelRun
  <2> QED
    BY Zenon, <1>0, <2>1, CancelKeeps, CancelBudget, CommitRunAloneMoney
<1>9. CASE RunOut(g)
  <2>1. Exists(g) /\ Reserves(r) /\ CommitRun(g, Exhaust(r), {})
    BY Zenon, <1>9 DEF RunOut
  <2> QED
    BY Zenon, <1>0, <2>1, ExhaustKeeps, ExhaustBudget, CommitRunAloneMoney
<1> QED
  BY Zenon, <1>1, <1>2, <1>3, <1>4, <1>5, <1>6, <1>7, <1>8, <1>9 DEF RunSteps

\* accept_run_cancel
LEMMA AcceptRunCancelMoney ==
    ASSUME IInv, MoneyInv, NEW e \in Deliverable("RunCancel"), AcceptRunCancel(e)
    PROVE  MoneyInv'
<1> DEFINE g == e.op.generation
           r == runs[g]
           s == IF IsTerminal(r) \/ WindingDown(r) THEN r ELSE Cancel(r)
           owed == OwedByRun(g, s)
           a == [op |-> e.op, answer |-> Answer("Accepted", 0, "")]
<1>1. e.op.kind = "RunCancel" /\ g \in Generations
  BY DEF Deliverable, IInv, ExchangesInv
<1>2. /\ Exists(g) /\ runs' = [runs EXCEPT ![g] = s] /\ task' = task
      /\ pending' = pending \cup Fresh(owed) /\ log' = log \cup {a}
  BY Zenon DEF AcceptRunCancel, AppliedAtRun
<1>3. RunInv(r) /\ BudgetInv(r)
  BY Zenon, <1>1, <1>2 DEF IInv, RunsInv, MoneyInv, Book, Exists, IsRun
<1>4. RunInv(s) /\ BudgetOK(r, s)
  <2>1. BudgetOK(r, r)
    BY Zenon, <1>3, BudgetSame DEF SameMoney
  <2> QED
    BY Zenon, <1>3, <2>1, CancelKeeps, CancelBudget DEF StepOK
<1>5. a.op = e.op
  OBVIOUS
<1> HIDE DEF s, a
<1>6. \A x \in owed : x.op.generation = g /\ OwedAmount(task.ledger, s, x)
  BY Zenon, <1>4, OwedByRunAmounts DEF BudgetOK
<1> HIDE DEF owed
<1>7. \A f \in pending' : f \in pending \/ f \in owed
  BY Zenon, <1>2 DEF Fresh
<1>8. \A b \in log' : b \in log \/ (b.op.generation = g /\ b.op.kind # "TopUp")
  BY Zenon, <1>1, <1>2, <1>5
<1> HIDE DEF g
<1> QED
  BY Zenon, <1>1, <1>2, <1>4, <1>6, <1>7, <1>8, RunMoney DEF r

\* The run's settlement of anything but a top-up.
LEMMA SettleRunMoney ==
    ASSUME IInv, MoneyInv, NEW e \in pending, NEW a \in log, a.op = e.op,
           e.op.kind \in {"Proposal", "Settlement", "Return"}, SettleAtRun(e, a.answer)
    PROVE  MoneyInv'
<1> DEFINE g == e.op.generation
           r == runs[g]
           s == SettledRun(r, e.op.kind, a.answer)
           owed == OwedByRun(g, s)
<1>1. g \in Generations /\ Exists(g) /\ RunInv(r) /\ BudgetInv(r)
  BY Zenon DEF IInv, ExchangesInv, OwedInv, RunKinds, RunsInv, MoneyInv, Book, Exists, IsRun
<1>2. /\ runs' = [runs EXCEPT ![g] = s] /\ task' = task /\ log' = log
      /\ pending' = (pending \ {e}) \cup Fresh(owed)
  BY DEF SettleAtRun, Settled
<1>3. RunInv(s) /\ BudgetOK(r, s)
  <2>1. CASE e.op.kind = "Proposal"
    <3>1. /\ ~IsTerminal(r) /\ r.proposal # "none"
          /\ a.answer.verdict \in {"Accepted", "Rejected", "Refused"}
      BY Zenon, <2>1 DEF IInv, OwedInv, AnsweredInv
    <3>2. s \in {ProposalAccepted(r), ProposalRejected(r, a.answer.amount),
                 ProposalRefused(r, a.answer.code)}
      BY Zenon, <2>1, <3>1 DEF SettledRun
    <3> HIDE DEF s
    <3> QED
      BY Zenon, <1>1, <3>1, <3>2, ProposalSettles, ProposalBudget
  <2>2. CASE e.op.kind \in {"Settlement", "Return"}
    <3>1. /\ s = [f \in RunFields |-> s[f]]
          /\ s.status = r.status /\ s.phase = r.phase /\ s.reason = r.reason
          /\ s.parked = r.parked /\ s.effect = r.effect /\ s.proposal = r.proposal
          /\ s.turn = r.turn /\ s.promotion = r.promotion /\ SameMoney(r, s)
      BY ZenonT(30), <1>1, <2>2 DEF SettledRun, RunInv, RunFields, SameMoney
    <3> HIDE DEF s
    <3>2. RunInv(s)
      BY Zenon, <1>1, <3>1, PromotionKeeps DEF StepOK
    <3>3. BudgetOK(r, s)
      BY Zenon, <1>1, <3>1, BudgetSame DEF IsTerminal
    <3> QED
      BY Zenon, <3>2, <3>3
  <2> QED
    BY Zenon, <2>1, <2>2
<1> HIDE DEF s
<1>4. \A x \in owed : x.op.generation = g /\ OwedAmount(task.ledger, s, x)
  BY Zenon, <1>3, OwedByRunAmounts DEF BudgetOK
<1> HIDE DEF owed
<1>5. \A f \in pending' : f \in pending \/ f \in owed
  BY Zenon, <1>2 DEF Fresh
<1>6. \A b \in log' : b \in log \/ (b.op.generation = g /\ b.op.kind # "TopUp")
  BY Zenon, <1>2
<1> HIDE DEF g
<1> QED
  BY Zenon, <1>1, <1>2, <1>3, <1>4, <1>5, <1>6, RunMoney DEF r

\* The run's settlement of a top-up credits what the ledger granted for it.
LEMMA SettleTopUpMoney ==
    ASSUME IInv, MoneyInv, NEW e \in pending, NEW a \in log, a.op = e.op,
           e.op.kind = "TopUp", SettleAtRun(e, a.answer)
    PROVE  MoneyInv'
<1> DEFINE g == e.op.generation
           r == runs[g]
           l == task.ledger
           s == CreditTopUp(r, a.answer.amount)
           owed == OwedByRun(g, s)
<1>1. g \in Generations /\ Exists(g) /\ RunInv(r) /\ BudgetInv(r) /\ IsRun(r) /\ Book(l, g, r)
  BY Zenon DEF IInv, ExchangesInv, OwedInv, RunKinds, RunsInv, MoneyInv, Book, Exists, IsRun
<1>2. /\ runs' = [runs EXCEPT ![g] = s] /\ task' = task /\ log' = log
      /\ pending' = (pending \ {e}) \cup Fresh(owed)
  BY DEF SettleAtRun, Settled, SettledRun
<1>3. \A f \in pending' : (f \in pending /\ f # e) \/ f \in owed
  BY Zenon, <1>2 DEF Fresh
<1>4. RunInv(s)
  BY Zenon, <1>1, CreditKeeps DEF StepOK
<1>5. CASE ~r.parked
  <2>1. s = r
    BY Zenon, <1>5 DEF CreditTopUp
  <2>2. BudgetOK(r, s)
    BY Zenon, <1>1, <2>1, BudgetSame DEF SameMoney
  <2> HIDE DEF s
  <2>3. \A x \in owed : x.op.generation = g /\ OwedAmount(task.ledger, s, x)
    BY Zenon, <2>2, OwedByRunAmounts DEF BudgetOK
  <2> HIDE DEF owed
  <2>4. \A f \in pending' : f \in pending \/ f \in owed
    BY Zenon, <1>3
  <2>5. \A b \in log' : b \in log \/ (b.op.generation = g /\ b.op.kind # "TopUp")
    BY Zenon, <1>2
  <2> HIDE DEF g
  <2> QED
    BY Zenon, <1>1, <1>2, <1>4, <2>2, <2>3, <2>4, <2>5, RunMoney DEF r
<1>6. CASE r.parked
  <2>1. ~IsTerminal(r)
    BY Zenon, <1>1, <1>6 DEF RunInv
  <2>2. /\ IsUnsettled(l, g) /\ LiveBook(r, l.outstanding[g])
        /\ l.outstanding[g] \in EscrowRecord /\ r.topUps \in Nat /\ r.allocation \in Nat
    BY Zenon, <1>1, <2>1 DEF Book, BudgetInv, IsUnsettled, MoneyInv, LedgerInv
  <2>3. e.op.sequence = r.topUps + 1
    BY Zenon, <2>1 DEF MoneyInv, OwedAmount
  <2>4. /\ e.op.sequence <= l.outstanding[g].grantedThrough
        /\ a.answer.amount = l.outstanding[g].lastTopUp
    <3>1. AnsweredAmount(l, r, a)
      BY Zenon DEF MoneyInv
    <3> QED
      BY Zenon, <2>1, <2>3, <3>1 DEF AnsweredAmount
  <2>5. /\ l.outstanding[g].grantedThrough = r.topUps + 1
        /\ a.answer.amount \in Nat
        /\ r.allocation + a.answer.amount = l.outstanding[g].allocated
    <3> DEFINE escrow == l.outstanding[g]
    <3>1. escrow.grantedThrough \in Nat
      BY Zenon, <2>2 DEF EscrowRecord
    <3>2. NewOrLast(r, escrow, r.topUps + 1)
      BY Zenon, <2>2, <3>1, NextTopUp
    <3>3. /\ IsReplayedTopUp(escrow, r.topUps + 1) /\ escrow.lastTopUp \in Nat
          /\ r.allocation + escrow.lastTopUp = escrow.allocated
      BY Zenon, <2>3, <2>4, <3>2 DEF NewOrLast
    <3> QED
      BY Zenon, <2>4, <3>3 DEF IsReplayedTopUp
  <2>6. /\ BudgetInv(s) /\ s.allocation = l.outstanding[g].allocated
        /\ s.topUps = l.outstanding[g].grantedThrough /\ s.consumed = r.consumed /\ ~s.parked
    BY ZenonT(30), <1>1, <1>6, <2>5, CreditBudget
  <2>7. IsRun(s) /\ s # NoRun
    BY Zenon, <1>4, RunsExist DEF IsRun
  <2> HIDE DEF s
  <2>8. Book(l, g, s)
    <3>1. LiveBook(s, l.outstanding[g])
      BY Zenon, <2>6 DEF LiveBook
    <3>2. s.allocation <= l.outstanding[g].allocated
      <4>1. \A n \in Nat : n <= n
        OBVIOUS
      <4> QED
        BY Zenon, <2>2, <2>6, <4>1 DEF EscrowRecord
    <3> QED
      BY Zenon, <2>2, <2>6, <2>7, <3>1, <3>2 DEF Book
  <2>9. runs'[g] = s /\ \A h \in Generations : h # g => runs'[h] = runs[h]
    BY Zenon, <1>1, <1>2 DEF IInv, RunsInv
  <2>10. \A f \in pending : f.op.generation = g /\ f.op.kind = "TopUp" => f = e
    <3> SUFFICES ASSUME NEW f \in pending, f.op.generation = g, f.op.kind = "TopUp"
                 PROVE  f = e
      BY Zenon
    <3>1. f.op.sequence = e.op.sequence
      BY Zenon, <2>1, <2>3 DEF MoneyInv, OwedAmount
    <3>2. /\ f.op = Op(f.op.kind, f.op.generation, f.op.sequence)
          /\ e.op = Op(e.op.kind, e.op.generation, e.op.sequence)
      BY DEF IInv, ExchangesInv
    <3>3. f.op = e.op
      BY Zenon, <3>1, <3>2
    <3> QED
      BY Zenon, <3>3 DEF IInv, ExchangesInv
  <2>11. \A f \in pending' : /\ f \in pending \/ f.op.generation = g
                             /\ f.op.generation = g => OwedAmount(l, s, f)
    <3>1. \A x \in owed : x.op.generation = g /\ OwedAmount(l, s, x)
      BY Zenon, <2>6, OwedByRunAmounts
    <3>2. ASSUME NEW f \in pending, f # e, f.op.generation = g PROVE OwedAmount(l, s, f)
      <4>1. OwedAmount(l, r, f) /\ f.op.kind # "TopUp"
        BY Zenon, <2>10, <3>2 DEF MoneyInv
      <4> QED
        BY Zenon, <2>6, <2>7, <4>1 DEF OwedAmount
    <3> HIDE DEF owed
    <3> QED
      BY Zenon, <1>3, <3>1, <3>2
  <2>12. \A b \in log' : /\ b \in log
                         /\ b.op.generation = g => AnsweredAmount(l, s, b)
    <3> SUFFICES ASSUME NEW b \in log, b.op.generation = g PROVE AnsweredAmount(l, s, b)
      BY Zenon, <1>2
    <3>1. AnsweredAmount(l, r, b)
      BY Zenon DEF MoneyInv
    <3>2. b.op.kind = "TopUp" =>
            /\ g \in DOMAIN l.outstanding /\ b.op.sequence \in Nat
            /\ b.op.sequence <= l.outstanding[g].grantedThrough
      BY Zenon, <2>1, <3>1 DEF AnsweredAmount
    <3>3. b.op.kind = "TopUp" => b.op.sequence # s.topUps + 1
      <4>1. \A k, n \in Nat : k <= n => k # n + 1
        OBVIOUS
      <4>2. l.outstanding[g].grantedThrough \in Nat
        BY Zenon, <2>2 DEF EscrowRecord
      <4> QED
        BY Zenon, <2>6, <3>2, <4>1, <4>2
    <3> QED
      BY Zenon, <2>7, <3>2, <3>3 DEF AnsweredAmount
  <2>13. ChargeInv(l, runs')
    <3>1. \A h \in Generations : IsRun(runs'[h]) <=> IsRun(runs[h])
      BY Zenon, <1>1, <2>7, <2>9
    <3>2. Charged(l, runs') = Charged(l, runs) /\ Charged(l, runs) \subseteq Generations
      BY Zenon, <3>1 DEF Charged
    <3>3. \A h \in Generations : runs'[h].consumed = runs[h].consumed
      BY Zenon, <2>6, <2>9
    <3>4. [h \in Charged(l, runs') |-> runs'[h].consumed] =
          [h \in Charged(l, runs) |-> runs[h].consumed]
      BY Zenon, <3>2, <3>3
    <3> QED
      BY Zenon, <3>4 DEF MoneyInv, ChargeInv
  <2>14. /\ LedgerInv(task'.ledger) /\ LimitInv(task'.ledger) /\ ChargeInv(task'.ledger, runs')
         /\ \A h \in Generations : h # g => SameEscrow(task.ledger, task'.ledger, h)
         /\ \A h \in Escrows(task') : h \in Generations /\ h <= task'.generation
         /\ Book(task'.ledger, g, runs'[g])
    BY Zenon, <1>2, <2>8, <2>9, <2>13 DEF MoneyInv, SameEscrow
  <2> HIDE DEF g
  <2> QED
    BY Zenon, <1>1, <1>2, <2>9, <2>11, <2>12, <2>14, OneRunMoney
<1> QED
  BY Zenon, <1>5, <1>6

\* A step of the task that leaves its ledger alone.
LEMMA QuietMoney ==
    ASSUME IInv, MoneyInv, runs' = runs,
           task'.ledger = task.ledger, task'.generation = task.generation,
           \A e \in pending' : e \in pending \/ e.op.kind = "RunCancel",
           \A a \in log' : a \in log \/ a.op.kind # "TopUp"
    PROVE  MoneyInv'
<1>1. Escrows(task') = Escrows(task)
  BY Zenon DEF Escrows
<1>2. \A e \in pending' : OwedAmount(task'.ledger, runs'[e.op.generation], e)
  <2>1. \A e : e.op.kind = "RunCancel" => OwedAmount(task'.ledger, runs'[e.op.generation], e)
    BY Zenon DEF OwedAmount
  <2> QED
    BY Zenon, <2>1 DEF MoneyInv
<1>3. \A a \in log' : AnsweredAmount(task'.ledger, runs'[a.op.generation], a)
  <2>1. \A a : a.op.kind # "TopUp" => AnsweredAmount(task'.ledger, runs'[a.op.generation], a)
    BY DEF AnsweredAmount
  <2> QED
    BY Zenon, <2>1 DEF MoneyInv
<1> QED
  BY Zenon, <1>1, <1>2, <1>3 DEF MoneyInv

\* What the task's transitions do to its ledger.
LEMMA FinalizeLedger ==
    ASSUME NEW t, t = [f \in TaskFields |-> t[f]]
    PROVE  /\ FinalizeCancellation(t).ledger = t.ledger
           /\ FinalizeCancellation(t).generation = t.generation
BY ZenonT(30) DEF FinalizeCancellation, EndTask, TaskFields

LEMMA LedgerOf ==
    ASSUME NEW t, TaskInv(t), NEW l
    PROVE  LET u == FinalizeCancellation([t EXCEPT !.ledger = l])
           IN  u.ledger = l /\ u.generation = t.generation
<1> DEFINE v == [t EXCEPT !.ledger = l]
<1>1. v = [f \in TaskFields |-> v[f]] /\ v.ledger = l /\ v.generation = t.generation
  BY DEF TaskInv, TaskFields
<1> HIDE DEF v
<1>2. LET u == FinalizeCancellation(v) IN u.ledger = l /\ u.generation = t.generation
  BY Zenon, <1>1, FinalizeLedger
<1> QED
  BY Zenon, <1>2 DEF v

LEMMA QuietTask ==
    ASSUME NEW t, TaskInv(t), NEW status, NEW g
    PROVE  /\ EndTask(t, status).ledger = t.ledger
           /\ EndTask(t, status).generation = t.generation
           /\ RequestCancellation(t).ledger = t.ledger
           /\ RequestCancellation(t).generation = t.generation
           /\ AcceptResult(t, g).ledger = t.ledger /\ AcceptResult(t, g).generation = t.generation
           /\ RejectResult(t).ledger = t.ledger /\ RejectResult(t).generation = t.generation
<1>1. EndTask(t, status).ledger = t.ledger /\ EndTask(t, status).generation = t.generation
  BY ZenonT(30) DEF EndTask, TaskInv, TaskFields
<1>2. /\ RequestCancellation(t).ledger = t.ledger
      /\ RequestCancellation(t).generation = t.generation
  <2> DEFINE u == [t EXCEPT !.cancelling = TRUE]
  <2>1. u = [f \in TaskFields |-> u[f]] /\ u.ledger = t.ledger /\ u.generation = t.generation
    BY ZenonT(30) DEF TaskInv, TaskFields
  <2>2. RequestCancellation(t) = FinalizeCancellation(u)
    BY DEF RequestCancellation
  <2> HIDE DEF u
  <2> QED
    BY Zenon, <2>1, <2>2, FinalizeLedger
<1>3. AcceptResult(t, g).ledger = t.ledger /\ AcceptResult(t, g).generation = t.generation
  BY ZenonT(30) DEF AcceptResult, EndTask, TaskInv, TaskFields
<1>4. RejectResult(t).ledger = t.ledger /\ RejectResult(t).generation = t.generation
  BY ZenonT(30) DEF RejectResult, EndTask, TaskInv, TaskFields
<1> QED
  BY Zenon, <1>1, <1>2, <1>3, <1>4

\* decide_assignment escrows the next run and offers it what it escrowed.
LEMMA OfferMoney ==
    ASSUME IInv, MoneyInv, CanOffer(task),
           CommitTask(Offer(task), {Envelope(Op("Assignment", Offer(task).generation, 0),
                                             OfferedAllocation(Offer(task)))})
    PROVE  MoneyInv'
<1> DEFINE u == Offer(task)
           g == task.generation + 1
           l == task.ledger
           m == OpenChild(l, g, RunRequest)
           x == Envelope(Op("Assignment", u.generation, 0), OfferedAllocation(u))
<1>1. u.generation = g /\ u.ledger = m
  BY ZenonT(30) DEF Offer, IInv, TaskInv, TaskFields
<1>2. task' = u /\ runs' = runs /\ log' = log /\ pending' = pending \cup Fresh({x})
  BY Zenon DEF CommitTask
<1>3. x.op.kind = "Assignment" /\ x.op.generation = g /\ x.arg = m.outstanding[g].allocated
  BY Zenon, <1>1 DEF Envelope, Op, OfferedAllocation
<1>4. /\ task.generation \in Nat /\ g \in Generations /\ g > task.generation
      /\ RunRequest \in Nat
  <2>1. task.generation \in Nat /\ ~(task.generation >= MaxAssignments)
    BY Zenon DEF IInv, TaskInv, CanOffer, AssignmentsExhausted
  <2> QED
    BY Zenon, <2>1, NextGeneration, TaskLimitsAssumption
<1>5. g \notin DOMAIN l.outstanding
  BY <1>4 DEF MoneyInv, Escrows, Generations
<1>6. runs[g] = NoRun
  BY Zenon, <1>4 DEF IInv, RunsInv
<1>7. /\ LedgerInv(m) /\ LimitInv(m) /\ m.consumed = l.consumed
      /\ DOMAIN m.outstanding = DOMAIN l.outstanding \cup {g}
      /\ \A c \in DOMAIN l.outstanding : m.outstanding[c] = l.outstanding[c]
      /\ m.outstanding[g].settled = NoAmount /\ m.outstanding[g].grantedThrough = 0
  <2>1. LedgerInv(l) /\ LimitInv(l)
    BY Zenon DEF MoneyInv
  <2> HIDE DEF l, g, u, x
  <2> QED
    BY <1>4, <1>5, <2>1, OpenMoney
<1> HIDE DEF u, m, x
<1>8. \A h \in Generations : h # g => SameEscrow(l, m, h)
  BY Zenon, <1>7 DEF SameEscrow
<1>9. ~IsRun(NoRun) /\ Book(m, g, NoRun)
  BY Zenon, <1>7 DEF Book, IsRun
<1>10. ChargeInv(m, runs)
  <2>1. \A h \in Generations : h # g => (IsUnsettled(m, h) <=> IsUnsettled(l, h))
    BY Zenon, <1>8, SameBooks
  <2>2. Charged(m, runs) = Charged(l, runs)
    BY Zenon, <1>6, <1>9, <2>1 DEF Charged
  <2> QED
    BY Zenon, <1>7, <2>2 DEF MoneyInv, ChargeInv
<1>11. \A h \in Escrows(task') : h \in Generations /\ h <= task'.generation
  <2>1. Escrows(task') = DOMAIN l.outstanding \cup {g}
    BY Zenon, <1>1, <1>2, <1>7 DEF Escrows
  <2>2. task'.generation = g
    BY Zenon, <1>1, <1>2
  <2>3. \A h \in DOMAIN l.outstanding : h \in Generations /\ h <= task.generation
    BY DEF MoneyInv, Escrows
  <2> QED
    BY <1>4, <2>1, <2>2, <2>3 DEF Generations
<1>12. \A e \in pending' : /\ e \in pending \/ e.op.generation = g
                           /\ e.op.generation = g => OwedAmount(m, NoRun, e)
  <2>1. \A e \in pending : e.op.generation # g
    BY <1>4 DEF IInv, ExchangesInv, Generations
  <2>2. OwedAmount(m, NoRun, x)
    BY Zenon, <1>3, <1>7 DEF OwedAmount
  <2>3. \A e \in pending' : e \in pending \/ e = x
    BY Zenon, <1>2 DEF Fresh
  <2> QED
    BY Zenon, <1>3, <2>1, <2>2, <2>3
<1>13. \A a \in log' : /\ a \in log
                       /\ a.op.generation = g => AnsweredAmount(m, NoRun, a)
  <2>1. \A a \in log : a.op.generation = g => a.op.kind # "TopUp"
    BY Zenon, <1>6, <1>9 DEF MoneyInv, AnsweredAmount
  <2> QED
    BY Zenon, <1>2, <2>1 DEF AnsweredAmount
<1>14. task'.ledger = m /\ runs' = runs
  BY Zenon, <1>1, <1>2
<1> HIDE DEF g, l
<1> QED
  BY Zenon, <1>4, <1>6, <1>7, <1>8, <1>9, <1>10, <1>11, <1>12, <1>13, <1>14, OneRunMoney DEF l

\* What is pending and answered for a run that does not exist says nothing of it.
LEMMA NoRunMoney ==
    ASSUME IInv, MoneyInv, NEW g \in Generations, ~Exists(g), NEW l, NEW r
    PROVE  /\ r # NoRun => \A e \in pending : e.op.generation = g => OwedAmount(l, r, e)
           /\ \A a \in log : a.op.generation = g => AnsweredAmount(l, r, a)
<1>1. \A e \in pending : e.op.generation = g => e.op.kind \notin {"TopUp", "Settlement"}
  BY Zenon DEF IInv, OwedInv, RunKinds
<1>2. \A a \in log : a.op.generation = g => a.op.kind # "TopUp"
  BY DEF MoneyInv, AnsweredAmount, IsRun, Exists
<1> QED
  BY Zenon, <1>1, <1>2 DEF OwedAmount, AnsweredAmount

\* A fresh run holds the escrow its offer carried.
LEMMA FreshBook ==
    ASSUME NEW l, LedgerInv(l), NEW g \in DOMAIN l.outstanding, Book(l, g, NoRun)
    PROVE  LET s == Accepted(l.outstanding[g].allocated)
           IN  IsRun(s) /\ Book(l, g, s) /\ IsUnsettled(l, g)
<1> DEFINE x == l.outstanding[g].allocated
           s == Accepted(x)
<1>1. /\ x \in Nat /\ l.outstanding[g].settled = NoAmount
      /\ l.outstanding[g].grantedThrough = 0
  BY Zenon DEF LedgerInv, EscrowRecord, Book
<1> HIDE DEF x
<1>2. /\ s.status = "Accepted" /\ s.allocation = x /\ s.consumed = 0 /\ s.reserved = 0
      /\ s.topUps = 0 /\ s.effect = "none" /\ s.promotion = "none"
  BY Zenon DEF Accepted
<1> HIDE DEF s
<1>3. IsRun(s) /\ s # NoRun
  BY <1>2 DEF IsRun, NoRun, Unacceptable
<1>4. BudgetInv(s)
  BY <1>1, <1>2 DEF BudgetInv, Held, IsOutstanding
<1>5. IsUnsettled(l, g)
  BY Zenon, <1>1 DEF IsUnsettled
<1>6. LiveBook(s, l.outstanding[g])
  BY Zenon, <1>1, <1>2 DEF LiveBook, x
<1>7. s.allocation <= l.outstanding[g].allocated
  BY <1>1, <1>2 DEF x
<1>8. Book(l, g, s)
  BY Zenon, <1>3, <1>4, <1>5, <1>6, <1>7 DEF Book
<1> QED
  BY Zenon, <1>3, <1>5, <1>8 DEF s, x

\* accept_assignment
LEMMA AcceptAssignmentMoney ==
    ASSUME IInv, MoneyInv, NEW e \in Deliverable("Assignment"), AcceptAssignment(e)
    PROVE  MoneyInv'
<1> DEFINE g == e.op.generation
           r == runs[g]
           l == task.ledger
<1>1. e \in pending /\ e.op.kind = "Assignment" /\ g \in Generations
  BY DEF Deliverable, IInv, ExchangesInv
<1>2. PICK s, verdict :
        /\ runs' = [runs EXCEPT ![g] = s]
        /\ log' = log \cup {[op |-> e.op, answer |-> Answer(verdict, 0, "")]}
        /\ \/ r = NoRun /\ s = Accepted(e.arg)
           \/ ~Exists(g) /\ s = Unacceptable
           \/ Exists(g) /\ s = r
        /\ pending' = pending \cup Fresh({}) /\ task' = task
  BY Zenon DEF AcceptAssignment, AppliedAtRun, Exists
<1> DEFINE a == [op |-> e.op, answer |-> Answer(verdict, 0, "")]
<1>3. pending' = pending /\ log' = log \cup {a} /\ a.op = e.op /\ task' = task
  BY Zenon, <1>2 DEF Fresh
<1> HIDE DEF a
<1>4. /\ runs'[g] = s /\ \A h \in Generations : h # g => runs'[h] = runs[h]
  BY Zenon, <1>1, <1>2 DEF IInv, RunsInv
<1>5. \/ r = NoRun /\ s = Accepted(e.arg)
      \/ ~Exists(g) /\ s = Unacceptable
      \/ Exists(g) /\ s = r
  BY Zenon, <1>2
<1>6. CASE Exists(g) /\ s = r
  <2>1. runs' = runs
    BY Zenon, <1>1, <1>2, <1>6 DEF IInv, RunsInv
  <2>2. \A b \in log' : b \in log \/ b.op.kind # "TopUp"
    BY Zenon, <1>1, <1>3
  <2> QED
    BY Zenon, <1>3, <2>1, <2>2, QuietMoney
<1>7. CASE ~Exists(g) /\ (s = Unacceptable \/ (r = NoRun /\ s = Accepted(e.arg)))
  <2>1. Book(l, g, s) /\ s # NoRun /\ (IsRun(s) => IsUnsettled(l, g))
    <3>1. CASE s = Unacceptable
      <4>1. s # NoRun
        <5>1. NoRun.status # Unacceptable.status
          BY DEF NoRun, Unacceptable
        <5> QED
          BY Zenon, <3>1, <5>1
      <4> QED
        BY Zenon, <3>1, <4>1 DEF Book, IsRun
    <3>2. CASE r = NoRun /\ s = Accepted(e.arg)
      <4>1. g \in DOMAIN l.outstanding /\ e.arg = l.outstanding[g].allocated
        BY Zenon, <1>1, <3>2 DEF MoneyInv, OwedAmount
      <4>2. LedgerInv(l) /\ Book(l, g, NoRun)
        BY Zenon, <1>1, <3>2 DEF MoneyInv
      <4>3. IsRun(s) /\ Book(l, g, s) /\ IsUnsettled(l, g)
        BY Zenon, <3>2, <4>1, <4>2, FreshBook
      <4> QED
        BY Zenon, <4>3 DEF IsRun
    <3> QED
      BY Zenon, <1>7, <3>1, <3>2
  <2>2. ChargeInv(l, runs')
    <3>1. ~IsRun(r)
      BY Zenon, <1>7 DEF IsRun, Exists
    <3>2. \A h \in Generations : IsRun(runs'[h]) /\ ~IsUnsettled(l, h) <=>
                                    IsRun(runs[h]) /\ ~IsUnsettled(l, h)
      BY Zenon, <1>4, <2>1, <3>1
    <3>3. Charged(l, runs') = Charged(l, runs)
      BY Zenon, <3>2 DEF Charged
    <3>4. \A h \in Charged(l, runs) : runs'[h] = runs[h]
      BY Zenon, <1>4, <3>1 DEF Charged
    <3>5. [h \in Charged(l, runs') |-> runs'[h].consumed] =
          [h \in Charged(l, runs) |-> runs[h].consumed]
      BY Zenon, <3>3, <3>4
    <3> QED
      BY Zenon, <3>5 DEF MoneyInv, ChargeInv
  <2>3. /\ \A f \in pending : f.op.generation = g => OwedAmount(l, s, f)
        /\ \A b \in log : b.op.generation = g => AnsweredAmount(l, s, b)
    BY Zenon, <1>1, <1>7, <2>1, NoRunMoney
  <2>4. \A f \in pending' : /\ f \in pending \/ f.op.generation = g
                            /\ f.op.generation = g => OwedAmount(task'.ledger, runs'[g], f)
    BY Zenon, <1>3, <1>4, <2>3
  <2>5. \A b \in log' : /\ b \in log \/ b.op.generation = g
                        /\ b.op.generation = g => AnsweredAmount(task'.ledger, runs'[g], b)
    <3>1. AnsweredAmount(l, s, a)
      BY Zenon, <1>1, <1>3 DEF AnsweredAmount
    <3> QED
      BY Zenon, <1>3, <1>4, <2>3, <3>1
  <2>6. /\ LedgerInv(task'.ledger) /\ LimitInv(task'.ledger) /\ ChargeInv(task'.ledger, runs')
        /\ \A h \in Generations : h # g => SameEscrow(task.ledger, task'.ledger, h)
        /\ \A h \in Escrows(task') : h \in Generations /\ h <= task'.generation
        /\ Book(task'.ledger, g, runs'[g])
    BY Zenon, <1>3, <1>4, <2>1, <2>2 DEF MoneyInv, SameEscrow
  <2> HIDE DEF g
  <2> QED
    BY Zenon, <1>1, <1>4, <2>4, <2>5, <2>6, OneRunMoney
<1> QED
  BY Zenon, <1>5, <1>6, <1>7 DEF Exists

\* An exchange about run g that the task applies to its ledger.
LEMMA LedgerMoney ==
    ASSUME IInv, MoneyInv, NEW e \in pending, NEW m, NEW a,
           runs' = runs, pending' = pending, log' = log \cup {a}, a.op = e.op,
           task'.ledger = m, task'.generation = task.generation,
           LedgerInv(m), LimitInv(m), ChargeInv(m, runs),
           DOMAIN m.outstanding \subseteq DOMAIN task.ledger.outstanding,
           \A h \in Generations : h # e.op.generation => SameEscrow(task.ledger, m, h),
           Book(m, e.op.generation, runs[e.op.generation]), Exists(e.op.generation),
           \A b \in log' : b.op.generation = e.op.generation =>
                              AnsweredAmount(m, runs[e.op.generation], b)
    PROVE  MoneyInv'
<1> DEFINE g == e.op.generation
<1>1. g \in Generations
  BY Zenon DEF IInv, ExchangesInv
<1>2. \A f \in pending : f.op.generation = g => OwedAmount(m, runs[g], f)
  <2>1. runs[g] # NoRun
    BY Zenon DEF Exists
  <2> QED
    BY Zenon, <2>1 DEF MoneyInv, OwedAmount
<1>3. \A h \in Escrows(task') : h \in Generations /\ h <= task'.generation
  BY Zenon DEF MoneyInv, Escrows
<1> HIDE DEF g
<1>4. \A h \in Generations : h # g => SameEscrow(task.ledger, task'.ledger, h)
  BY Zenon DEF g
<1>5. /\ \A f \in pending' : /\ f \in pending \/ f.op.generation = g
                             /\ f.op.generation = g => OwedAmount(task'.ledger, runs'[g], f)
      /\ \A b \in log' : /\ b \in log \/ b.op.generation = g
                         /\ b.op.generation = g => AnsweredAmount(task'.ledger, runs'[g], b)
      /\ Book(task'.ledger, g, runs'[g])
  BY Zenon, <1>2 DEF g
<1> QED
  BY Zenon, <1>1, <1>3, <1>4, <1>5, OneRunMoney

\* apply_settlement charges a run that has ended with what it consumed, once.
LEMMA SettlementMoney ==
    ASSUME IInv, MoneyInv, NEW e \in pending, e.op.kind = "Settlement", NEW a, a.op = e.op,
           runs' = runs, pending' = pending, log' = log \cup {a},
           task'.ledger = SettleChild(task.ledger, e.op.generation, e.arg),
           task'.generation = task.generation
    PROVE  MoneyInv'
<1> DEFINE g == e.op.generation
           r == runs[g]
           l == task.ledger
           m == SettleChild(l, g, e.arg)
<1>1. g \in Generations /\ Exists(g) /\ IsTerminal(r) /\ IsRun(r) /\ r # NoRun
  BY Zenon DEF IInv, ExchangesInv, OwedInv, RunKinds, Exists, IsRun
<1>2. /\ e.arg \in Nat /\ e.arg <= r.consumed /\ BudgetInv(r) /\ Book(l, g, r)
  BY Zenon, <1>1 DEF MoneyInv, OwedAmount, Book
<1>3. CASE ~IsUnsettled(l, g)
  <2>1. m = l
    BY Zenon, <1>3 DEF SettleChild, IsUnsettled
  <2>2. \A b \in log' : b \in log \/ b.op.kind # "TopUp"
    OBVIOUS
  <2> QED
    BY Zenon, <2>1, <2>2, QuietMoney
<1>4. CASE IsUnsettled(l, g)
  <2>1. e.arg <= l.outstanding[g].allocated
    <3>1. r.allocation <= l.outstanding[g].allocated /\ l.outstanding[g].allocated \in Nat
      BY Zenon, <1>1, <1>2, <1>4 DEF Book, MoneyInv, LedgerInv, EscrowRecord, IsUnsettled
    <3> QED
      BY Zenon, <1>2, <3>1, ConsumedFits
  <2>2. /\ LedgerInv(m) /\ LimitInv(m) /\ m.consumed = l.consumed + e.arg
        /\ DOMAIN m.outstanding = DOMAIN l.outstanding
        /\ \A c \in DOMAIN l.outstanding \ {g} : m.outstanding[c] = l.outstanding[c]
        /\ m.outstanding[g].settled = e.arg
    <3>1. LedgerInv(l) /\ LimitInv(l)
      BY Zenon DEF MoneyInv
    <3>2. ChargedFor(l, m, g, e.arg)
      BY Zenon, <1>2, <1>4, <2>1, <3>1, SettleMoney
    <3> QED
      BY Zenon, <3>2 DEF ChargedFor
  <2> HIDE DEF m
  <2>3. \A h \in Generations : h # g => SameEscrow(l, m, h)
    BY Zenon, <2>2 DEF SameEscrow
  <2>4. ~IsUnsettled(m, g)
    BY <1>2, <2>2 DEF IsUnsettled, NoAmount
  <2>5. Book(m, g, r)
    BY Zenon, <1>1, <1>2, <2>4 DEF Book
  <2>6. ChargeInv(m, runs)
    <3>1. \A h \in Generations : h # g => (IsUnsettled(m, h) <=> IsUnsettled(l, h))
      BY Zenon, <2>3, SameBooks
    <3>2. g \in Charged(m, runs) /\ Charged(l, runs) = Charged(m, runs) \ {g}
      BY Zenon, <1>1, <1>4, <2>4, <3>1 DEF Charged
    <3>3. \A h \in Charged(m, runs) : runs[h].consumed \in Nat
      BY Zenon DEF Charged, MoneyInv, Book, BudgetInv
    <3>4. ChargeInv(l, runs) /\ l.consumed \in Nat
      BY Zenon DEF MoneyInv, LedgerInv
    <3> HIDE DEF g, l
    <3> QED
      BY Zenon, <1>2, <2>2, <3>2, <3>3, <3>4, ChargeAdds DEF r
  <2>7. \A b : b.op.generation = g => AnsweredAmount(m, r, b)
    BY Zenon, <1>1 DEF AnsweredAmount
  <2>8. task'.ledger = m
    BY Zenon DEF m
  <2> QED
    BY Zenon, <1>1, <2>2, <2>3, <2>5, <2>6, <2>7, <2>8, LedgerMoney
<1> QED
  BY Zenon, <1>3, <1>4

\* apply_return
LEMMA ReturnExchangeMoney ==
    ASSUME IInv, MoneyInv, NEW e \in pending, e.op.kind = "Return", NEW a, a.op = e.op,
           runs' = runs, pending' = pending, log' = log \cup {a},
           task'.ledger = ReturnChild(task.ledger, e.op.generation),
           task'.generation = task.generation
    PROVE  MoneyInv'
<1> DEFINE g == e.op.generation
           r == runs[g]
           l == task.ledger
           m == ReturnChild(l, g)
<1>1. /\ g \in Generations /\ Exists(g) /\ IsTerminal(r) /\ IsRun(r) /\ r # NoRun
      /\ Book(l, g, r)
  BY Zenon DEF IInv, ExchangesInv, OwedInv, RunKinds, Exists, IsRun, MoneyInv
<1>2. /\ LedgerInv(m) /\ LimitInv(m) /\ m.consumed = l.consumed
      /\ DOMAIN m.outstanding \subseteq DOMAIN l.outstanding
      /\ DOMAIN l.outstanding \ {g} \subseteq DOMAIN m.outstanding
      /\ \A c \in DOMAIN m.outstanding : m.outstanding[c] = l.outstanding[c]
      /\ \A c : IsUnsettled(m, c) <=> IsUnsettled(l, c)
  BY Zenon, ReturnMoney DEF MoneyInv
<1> HIDE DEF m
<1>3. \A h \in Generations : h # g => SameEscrow(l, m, h)
  BY Zenon, <1>2 DEF SameEscrow
<1>4. IsUnsettled(m, g) => IsUnsettled(l, g) /\ m.outstanding[g] = l.outstanding[g]
  BY Zenon, <1>2 DEF IsUnsettled
<1>5. Book(m, g, r)
  BY Zenon, <1>1, <1>4 DEF Book
<1>6. ChargeInv(m, runs)
  <2>1. Charged(m, runs) = Charged(l, runs)
    BY Zenon, <1>2 DEF Charged
  <2> QED
    BY Zenon, <1>2, <2>1 DEF MoneyInv, ChargeInv
<1>7. \A b : b.op.generation = g => AnsweredAmount(m, r, b)
  BY Zenon, <1>1 DEF AnsweredAmount
<1>8. task'.ledger = m
  BY Zenon DEF m
<1> QED
  BY Zenon, <1>1, <1>2, <1>3, <1>5, <1>6, <1>7, <1>8, LedgerMoney

\* apply_top_up, for a sequence the ledger has not seen.
LEMMA NewTopUpMoney ==
    ASSUME IInv, MoneyInv, NEW e \in pending, e.op.kind = "TopUp", NEW a, a.op = e.op,
           runs' = runs, pending' = pending, log' = log \cup {a},
           ~TopUpRefused(task.ledger, e.op.generation, e.op.sequence),
           ~IsReplayedTopUp(task.ledger.outstanding[e.op.generation], e.op.sequence),
           task'.ledger = TopUpChild(task.ledger, e.op.generation, e.op.sequence, RunRequest),
           a.answer.amount = NarrowedTo(RunRequest, Available(task.ledger)),
           task'.generation = task.generation
    PROVE  MoneyInv'
<1> DEFINE g == e.op.generation
           r == runs[g]
           l == task.ledger
           old == l.outstanding[g]
           x == NarrowedTo(RunRequest, Available(l))
           m == TopUpChild(l, g, e.op.sequence, RunRequest)
<1>1. /\ g \in Generations /\ Exists(g) /\ IsRun(r) /\ r # NoRun
      /\ Book(l, g, r) /\ BudgetInv(r) /\ OwedAmount(l, r, e) /\ e.op.sequence \in Nat
  BY Zenon DEF IInv, ExchangesInv, OwedInv, RunKinds, Exists, IsRun, MoneyInv, Book, OwedAmount
<1>2. g \in DOMAIN l.outstanding /\ old \in EscrowRecord
  BY Zenon DEF TopUpRefused, MoneyInv, LedgerInv
<1>3. e.op.sequence > old.grantedThrough /\ old.settled = NoAmount
  <2>1. old.grantedThrough \in Nat
    BY Zenon, <1>2 DEF EscrowRecord
  <2>2. /\ ~(e.op.sequence <= old.grantedThrough)
        /\ e.op.sequence > old.grantedThrough => old.settled = NoAmount
    BY Zenon DEF TopUpRefused
  <2> QED
    BY Zenon, <1>1, <2>1, <2>2, Order
<1>4. IsUnsettled(l, g)
  BY Zenon, <1>2, <1>3 DEF IsUnsettled
<1>5. RunRequest \in Nat
  BY Zenon, TaskLimitsAssumption
<1>6. /\ LedgerInv(m) /\ LimitInv(m) /\ m.consumed = l.consumed
      /\ DOMAIN m.outstanding = DOMAIN l.outstanding
      /\ \A c \in DOMAIN l.outstanding \ {g} : m.outstanding[c] = l.outstanding[c]
      /\ x \in Nat /\ m.outstanding[g].allocated = old.allocated + x
      /\ m.outstanding[g].grantedThrough = e.op.sequence
      /\ m.outstanding[g].lastTopUp = x
      /\ m.outstanding[g].settled = NoAmount
  <2>1. LedgerInv(l) /\ LimitInv(l)
    BY Zenon DEF MoneyInv
  <2>2. ToppedUp(l, m, g, e.op.sequence, x)
    BY Zenon, <1>1, <1>4, <1>5, <2>1, TopUpMoney
  <2> QED
    BY Zenon, <2>2 DEF ToppedUp
<1>7. a.answer.amount = x /\ task'.ledger = m
  BY Zenon
<1> HIDE DEF m, x
<1>8. \A h \in Generations : h # g => SameEscrow(l, m, h)
  BY Zenon, <1>6 DEF SameEscrow
<1>9. IsUnsettled(m, g)
  BY Zenon, <1>4, <1>6 DEF IsUnsettled
<1>10. ASSUME ~IsTerminal(r)
       PROVE  /\ r.parked /\ e.op.sequence = r.topUps + 1 /\ old.grantedThrough = r.topUps
              /\ r.allocation = old.allocated
  <2>1. r.parked /\ e.op.sequence = r.topUps + 1 /\ LiveBook(r, old)
    BY Zenon, <1>1, <1>10 DEF OwedAmount, Book
  <2>2. r.topUps \in Nat /\ old.grantedThrough \in Nat
    BY Zenon, <1>1, <1>2 DEF BudgetInv, EscrowRecord
  <2> QED
    <3>1. NewOrLast(r, old, r.topUps + 1)
      BY Zenon, <2>1, <2>2, NextTopUp
    <3> QED
      BY Zenon, <1>3, <2>1, <3>1 DEF NewOrLast
<1>11. Book(m, g, r)
  <2>1. ~IsTerminal(r) => LiveBook(r, m.outstanding[g])
    <3> HIDE DEF r, old
    <3> QED
      BY Zenon, <1>6, <1>10 DEF LiveBook
  <2>2. r.allocation <= m.outstanding[g].allocated
    <3>1. r.allocation \in Nat /\ old.allocated \in Nat /\ r.allocation <= old.allocated
      BY Zenon, <1>1, <1>2, <1>4 DEF Book, BudgetInv, EscrowRecord
    <3> HIDE DEF r, old
    <3> QED
      BY <1>6, <3>1
  <2> QED
    BY Zenon, <1>1, <1>9, <2>1, <2>2 DEF Book
<1>12. ChargeInv(m, runs)
  <2>1. \A h \in Generations : IsUnsettled(m, h) <=> IsUnsettled(l, h)
    BY Zenon, <1>4, <1>8, <1>9, SameBooks
  <2>2. Charged(m, runs) = Charged(l, runs)
    BY Zenon, <2>1 DEF Charged
  <2> QED
    BY Zenon, <1>6, <2>2 DEF MoneyInv, ChargeInv
<1>13. ASSUME NEW b \in log', b.op.generation = g
       PROVE  AnsweredAmount(m, r, b)
  <2>1. CASE b = a
    <3>1. b.op.generation = g /\ b.op.sequence = e.op.sequence /\ b.answer.amount = x
      BY Zenon, <1>7, <2>1
    <3>2. e.op.sequence <= e.op.sequence
      BY Zenon, <1>1, Order
    <3> QED
      BY Zenon, <1>1, <1>2, <1>6, <3>1, <3>2 DEF AnsweredAmount
  <2>2. CASE b \in log
    <3>1. AnsweredAmount(l, r, b)
      BY Zenon, <1>13, <2>2 DEF MoneyInv
    <3>2. CASE IsTerminal(r) \/ b.op.kind # "TopUp"
      BY Zenon, <1>1, <3>2 DEF AnsweredAmount
    <3>3. CASE ~IsTerminal(r) /\ b.op.kind = "TopUp"
      <4>1. b.op.sequence \in Nat /\ b.op.sequence <= old.grantedThrough
        BY Zenon, <1>13, <3>1, <3>3 DEF AnsweredAmount
      <4>2. r.topUps \in Nat /\ old.grantedThrough \in Nat
        BY Zenon, <1>1, <1>2 DEF BudgetInv, EscrowRecord
      <4>3. b.op.sequence # r.topUps + 1 /\ b.op.sequence <= e.op.sequence
        <5>1. e.op.sequence = r.topUps + 1 /\ LiveBook(r, old)
          BY Zenon, <1>1, <1>4, <1>10, <3>3 DEF Book
        <5>2. NewOrLast(r, old, r.topUps + 1)
          BY Zenon, <4>2, <5>1, NextTopUp
        <5> QED
          BY Zenon, <1>3, <4>1, <5>1, <5>2 DEF NewOrLast
      <4> QED
        BY Zenon, <1>1, <1>2, <1>6, <1>13, <4>1, <4>3 DEF AnsweredAmount
    <3> QED
      BY Zenon, <3>2, <3>3
  <2> QED
    BY Zenon, <2>1, <2>2
<1> QED
  BY Zenon, <1>1, <1>6, <1>7, <1>8, <1>11, <1>12, <1>13, LedgerMoney

\* apply_top_up, refused or replayed: the ledger answers and does not change.
LEMMA OldTopUpMoney ==
    ASSUME IInv, MoneyInv, NEW e \in pending, e.op.kind = "TopUp", NEW a, a.op = e.op,
           runs' = runs, pending' = pending, log' = log \cup {a},
           \/ TopUpRefused(task.ledger, e.op.generation, e.op.sequence)
           \/ /\ IsReplayedTopUp(task.ledger.outstanding[e.op.generation], e.op.sequence)
              /\ e.op.generation \in DOMAIN task.ledger.outstanding
              /\ a.answer.amount = task.ledger.outstanding[e.op.generation].lastTopUp,
           task'.ledger = task.ledger, task'.generation = task.generation
    PROVE  MoneyInv'
<1> DEFINE g == e.op.generation
           r == runs[g]
           l == task.ledger
           old == l.outstanding[g]
<1>1. /\ g \in Generations /\ Exists(g) /\ IsRun(r) /\ r # NoRun
      /\ Book(l, g, r) /\ BudgetInv(r) /\ OwedAmount(l, r, e) /\ e.op.sequence \in Nat
  BY Zenon DEF IInv, ExchangesInv, OwedInv, RunKinds, Exists, IsRun, MoneyInv, Book, OwedAmount
<1>2. AnsweredAmount(l, r, a)
  <2>1. CASE IsTerminal(r)
    BY Zenon, <1>1, <2>1 DEF AnsweredAmount
  <2>2. CASE ~IsTerminal(r)
    <3>1. IsUnsettled(l, g) /\ LiveBook(r, old) /\ e.op.sequence = r.topUps + 1
      BY Zenon, <1>1, <2>2 DEF Book, OwedAmount
    <3>2. /\ g \in DOMAIN l.outstanding /\ old.settled = NoAmount
          /\ old.grantedThrough \in Nat /\ r.topUps \in Nat
      BY Zenon, <1>1, <3>1 DEF IsUnsettled, MoneyInv, LedgerInv, EscrowRecord, BudgetInv
    <3>3. ~TopUpRefused(l, g, e.op.sequence)
      <4>1. e.op.sequence <= old.grantedThrough => IsReplayedTopUp(old, e.op.sequence)
        <5>1. NewOrLast(r, old, r.topUps + 1)
          BY Zenon, <3>1, <3>2, NextTopUp
        <5> QED
          BY Zenon, <3>1, <5>1 DEF NewOrLast
      <4> QED
        BY Zenon, <3>2, <4>1 DEF TopUpRefused
    <3>4. e.op.sequence = old.grantedThrough /\ a.answer.amount = old.lastTopUp
      BY Zenon, <3>3 DEF IsReplayedTopUp
    <3>5. e.op.sequence <= old.grantedThrough
      BY Zenon, <1>1, <3>4, Order
    <3> QED
      BY Zenon, <1>1, <3>2, <3>4, <3>5 DEF AnsweredAmount
  <2> QED
    BY Zenon, <2>1, <2>2
<1>3. \A b \in log' : b.op.generation = g => AnsweredAmount(l, r, b)
  BY Zenon, <1>2 DEF MoneyInv
<1>4. \A h \in Generations : h # g => SameEscrow(l, l, h)
  BY Zenon DEF SameEscrow
<1>5. LedgerInv(l) /\ LimitInv(l) /\ ChargeInv(l, runs) /\ task'.ledger = l
  BY Zenon DEF MoneyInv
<1> HIDE DEF l
<1> QED
  BY Zenon, <1>1, <1>3, <1>4, <1>5, LedgerMoney DEF l

\* Every exchange a run has with the task's ledger (apply_ledger_exchange).
LEMMA LedgerExchangeMoney ==
    ASSUME IInv, MoneyInv, NEW kind, NEW e \in Deliverable(kind), ApplyLedgerExchange(e)
    PROVE  MoneyInv'
<1> DEFINE g == e.op.generation
           l == task.ledger
<1>0. e \in pending /\ TaskInv(task)
  BY DEF Deliverable, IInv
<1>1. ASSUME NEW u, NEW answer, AppliedAtTask(e, u, answer)
      PROVE  LET a == [op |-> e.op, answer |-> answer]
             IN  /\ task' = u /\ runs' = runs /\ pending' = pending /\ log' = log \cup {a}
                 /\ a.op = e.op /\ a.answer = answer
  BY Zenon, <1>1 DEF AppliedAtTask
<1>2. CASE /\ e.op.kind = "Settlement"
           /\ AppliedAtTask(e, ApplySettlement(task, g, e.arg), Answer("Accepted", 0, ""))
  <2> DEFINE answer == Answer("Accepted", 0, "")
             a == [op |-> e.op, answer |-> answer]
             u == ApplySettlement(task, g, e.arg)
  <2>1. AppliedAtTask(e, u, answer)
    BY Zenon, <1>2
  <2>2. u.ledger = SettleChild(l, g, e.arg) /\ u.generation = task.generation
    <3> DEFINE m == SettleChild(l, g, e.arg)
    <3>1. u = FinalizeCancellation([task EXCEPT !.ledger = m])
      BY Zenon DEF ApplySettlement
    <3> HIDE DEF m, u
    <3>2. u.ledger = m /\ u.generation = task.generation
      BY Zenon, <1>0, <3>1, LedgerOf
    <3> QED
      BY Zenon, <3>2 DEF m
  <2> HIDE DEF answer, u
  <2>3. task' = u /\ runs' = runs /\ pending' = pending /\ log' = log \cup {a} /\ a.op = e.op
    BY Zenon, <1>1, <2>1
  <2> HIDE DEF a
  <2> QED
    BY Zenon, <1>0, <1>2, <2>2, <2>3, SettlementMoney
<1>3. CASE /\ e.op.kind = "Return"
           /\ AppliedAtTask(e, ApplyReturn(task, g), Answer("Accepted", 0, ""))
  <2> DEFINE answer == Answer("Accepted", 0, "")
             a == [op |-> e.op, answer |-> answer]
             u == ApplyReturn(task, g)
  <2>1. AppliedAtTask(e, u, answer)
    BY Zenon, <1>3
  <2>2. u.ledger = ReturnChild(l, g) /\ u.generation = task.generation
    <3> DEFINE m == ReturnChild(l, g)
    <3>1. u = FinalizeCancellation([task EXCEPT !.ledger = m])
      BY Zenon DEF ApplyReturn
    <3> HIDE DEF m, u
    <3>2. u.ledger = m /\ u.generation = task.generation
      BY Zenon, <1>0, <3>1, LedgerOf
    <3> QED
      BY Zenon, <3>2 DEF m
  <2> HIDE DEF answer, u
  <2>3. task' = u /\ runs' = runs /\ pending' = pending /\ log' = log \cup {a} /\ a.op = e.op
    BY Zenon, <1>1, <2>1
  <2> HIDE DEF a
  <2> QED
    BY Zenon, <1>0, <1>3, <2>2, <2>3, ReturnExchangeMoney
<1>4. CASE /\ e.op.kind = "TopUp"
           /\ AppliedAtTask(e, ApplyTopUp(task, g, e.op.sequence),
                            Answer("Accepted", AnsweredGrant(task, g, e.op.sequence), ""))
  <2> DEFINE grant == AnsweredGrant(task, g, e.op.sequence)
             answer == Answer("Accepted", grant, "")
             a == [op |-> e.op, answer |-> answer]
             u == ApplyTopUp(task, g, e.op.sequence)
             m == TopUpChild(l, g, e.op.sequence, RunRequest)
             refused == TopUpRefused(l, g, e.op.sequence)
             replayed == IsReplayedTopUp(l.outstanding[g], e.op.sequence)
  <2>1. AppliedAtTask(e, u, answer)
    BY Zenon, <1>4
  <2>2. answer.amount = grant
    BY Zenon DEF Answer
  <2>3. refused => u.ledger = l /\ u.generation = task.generation
    <3>1. refused => u = FinalizeCancellation(task)
      BY Zenon DEF ApplyTopUp
    <3>2. task = [f \in TaskFields |-> task[f]]
      BY Zenon, <1>0 DEF TaskInv
    <3> HIDE DEF u, refused
    <3> QED
      BY Zenon, <3>1, <3>2, FinalizeLedger
  <2>4. ~refused => u.ledger = m /\ u.generation = task.generation
    <3>1. ~refused => u = FinalizeCancellation([task EXCEPT !.ledger = m])
      BY Zenon DEF ApplyTopUp
    <3> HIDE DEF m
    <3>2. /\ FinalizeCancellation([task EXCEPT !.ledger = m]).ledger = m
          /\ FinalizeCancellation([task EXCEPT !.ledger = m]).generation = task.generation
      BY Zenon, <1>0, LedgerOf
    <3> HIDE DEF u, refused
    <3> QED
      BY Zenon, <3>1, <3>2
  <2>5. /\ replayed => m = l
        /\ ~refused /\ replayed => grant = l.outstanding[g].lastTopUp
        /\ ~refused /\ ~replayed => grant = NarrowedTo(RunRequest, Available(l))
    BY Zenon DEF TopUpChild, AnsweredGrant, TopUpGrant
  <2>6. ~refused => g \in DOMAIN l.outstanding
    BY Zenon DEF TopUpRefused
  <2> HIDE DEF answer, u, grant
  <2>7. /\ task' = u /\ runs' = runs /\ pending' = pending /\ log' = log \cup {a}
        /\ a.op = e.op /\ a.answer = answer
    BY Zenon, <1>1, <2>1
  <2> HIDE DEF a
  <2>8. CASE refused \/ replayed
    <3>1. task'.ledger = l /\ task'.generation = task.generation
      BY Zenon, <2>3, <2>4, <2>5, <2>7, <2>8
    <3>2. \/ refused
          \/ replayed /\ g \in DOMAIN l.outstanding /\ a.answer.amount = l.outstanding[g].lastTopUp
      BY Zenon, <2>2, <2>5, <2>6, <2>7, <2>8
    <3> QED
      BY ZenonT(30), <1>0, <1>4, <2>7, <3>1, <3>2, OldTopUpMoney
  <2>9. CASE ~refused /\ ~replayed
    <3>1. /\ task'.ledger = m /\ task'.generation = task.generation
          /\ a.answer.amount = NarrowedTo(RunRequest, Available(l))
      BY Zenon, <2>2, <2>4, <2>5, <2>7, <2>9
    <3> QED
      BY ZenonT(30), <1>0, <1>4, <2>7, <2>9, <3>1, NewTopUpMoney
  <2> QED
    BY Zenon, <2>8, <2>9
<1> QED
  BY Zenon, <1>2, <1>3, <1>4 DEF ApplyLedgerExchange

\* A refused assignment releases its escrow uncharged.
LEMMA RejectedMoney ==
    ASSUME IInv, MoneyInv, NEW g \in Generations, runs[g] = Unacceptable,
           task'.ledger = ReturnChild(SettleChild(task.ledger, g, 0), g),
           task'.generation = task.generation, runs' = runs, log' = log,
           \A e \in pending' : e \in pending \/ e.op.kind = "RunCancel"
    PROVE  MoneyInv'
<1> DEFINE l == task.ledger
           k == SettleChild(l, g, 0)
           m == ReturnChild(k, g)
<1>1. Unacceptable # NoRun /\ ~IsRun(Unacceptable)
  <2>1. NoRun.status # Unacceptable.status
    BY Zenon DEF NoRun, Unacceptable
  <2> QED
    BY Zenon, <2>1 DEF IsRun
<1>2. /\ LedgerInv(k) /\ LimitInv(k) /\ k.consumed = l.consumed
      /\ DOMAIN k.outstanding = DOMAIN l.outstanding
      /\ \A c \in DOMAIN l.outstanding \ {g} : k.outstanding[c] = l.outstanding[c]
  <2>1. CASE IsUnsettled(l, g)
    <3>1. l.outstanding[g].allocated \in Nat /\ l.consumed \in Nat
      BY Zenon, <2>1 DEF IsUnsettled, MoneyInv, LedgerInv, EscrowRecord
    <3>2. 0 \in Nat /\ 0 <= l.outstanding[g].allocated /\ l.consumed + 0 = l.consumed
      BY <3>1
    <3>3. LedgerInv(l) /\ LimitInv(l)
      BY Zenon DEF MoneyInv
    <3>4. ChargedFor(l, k, g, 0)
      BY Zenon, <2>1, <3>2, <3>3, SettleMoney
    <3> QED
      BY Zenon, <3>2, <3>4 DEF ChargedFor
  <2>2. CASE ~IsUnsettled(l, g)
    <3>1. k = l
      BY Zenon, <2>2 DEF SettleChild, IsUnsettled
    <3> QED
      BY Zenon, <3>1 DEF MoneyInv
  <2> QED
    BY Zenon, <2>1, <2>2
<1> HIDE DEF k
<1>3. /\ LedgerInv(m) /\ LimitInv(m) /\ m.consumed = k.consumed
      /\ DOMAIN m.outstanding \subseteq DOMAIN k.outstanding
      /\ DOMAIN k.outstanding \ {g} \subseteq DOMAIN m.outstanding
      /\ \A c \in DOMAIN m.outstanding : m.outstanding[c] = k.outstanding[c]
  BY Zenon, <1>2, ReturnMoney
<1>4. task'.ledger = m
  BY Zenon DEF k
<1> HIDE DEF m
<1>5. \A h \in Generations : h # g => SameEscrow(l, m, h)
  BY Zenon, <1>2, <1>3 DEF SameEscrow
<1>6. ChargeInv(m, runs)
  <2>1. \A h \in Generations : h # g => (IsUnsettled(m, h) <=> IsUnsettled(l, h))
    BY Zenon, <1>5, SameBooks
  <2>2. Charged(m, runs) = Charged(l, runs)
    BY Zenon, <1>1, <2>1 DEF Charged
  <2> QED
    BY Zenon, <1>2, <1>3, <2>2 DEF MoneyInv, ChargeInv
<1>7. Book(m, g, Unacceptable)
  BY Zenon, <1>1 DEF Book
<1>8. \A h \in Escrows(task') : h \in Generations /\ h <= task'.generation
  BY Zenon, <1>2, <1>3, <1>4 DEF MoneyInv, Escrows
<1>9. ~Exists(g)
  BY Zenon DEF Exists
<1>10. /\ \A e \in pending : e.op.generation = g => OwedAmount(m, Unacceptable, e)
       /\ \A a \in log : a.op.generation = g => AnsweredAmount(m, Unacceptable, a)
  BY Zenon, <1>1, <1>9, NoRunMoney
<1>11. \A e : e.op.kind = "RunCancel" => \A r : OwedAmount(m, r, e)
  BY Zenon DEF OwedAmount
<1>12. /\ LedgerInv(task'.ledger) /\ LimitInv(task'.ledger) /\ ChargeInv(task'.ledger, runs')
       /\ \A h \in Generations : h # g => SameEscrow(task.ledger, task'.ledger, h)
  BY Zenon, <1>3, <1>4, <1>5, <1>6
<1>13. \A h \in Generations : Book(task'.ledger, h, runs'[h])
  BY Zenon, <1>4, <1>7, <1>12, SameBooks DEF MoneyInv
<1>14. \A e \in pending' : OwedAmount(task'.ledger, runs'[e.op.generation], e)
  <2>1. \A e \in pending : e.op.generation \in Generations
    BY Zenon DEF IInv, ExchangesInv
  <2>2. ASSUME NEW e \in pending PROVE OwedAmount(task'.ledger, runs'[e.op.generation], e)
    <3>1. OwedAmount(l, runs[e.op.generation], e)
      BY Zenon DEF MoneyInv
    <3>2. CASE e.op.generation = g
      BY Zenon, <1>4, <1>10, <3>2
    <3>3. CASE e.op.generation # g
      <4>1. SameEscrow(l, task'.ledger, e.op.generation)
        BY Zenon, <1>12, <2>1, <3>3
      <4>2. \A r, x : x.op.generation = e.op.generation /\ OwedAmount(l, r, x)
                         => OwedAmount(task'.ledger, r, x)
        BY Zenon, <4>1, SameBooks
      <4> QED
        BY Zenon, <1>4, <3>1, <4>2
    <3> QED
      BY Zenon, <3>2, <3>3
  <2> QED
    BY Zenon, <1>4, <1>11, <2>2
<1>15. \A a \in log' : AnsweredAmount(task'.ledger, runs'[a.op.generation], a)
  <2>1. \A a \in log : a.op.generation \in Generations
    BY DEF IInv, ExchangesInv
  <2>2. ASSUME NEW a \in log
        PROVE  AnsweredAmount(task'.ledger, runs'[a.op.generation], a)
    <3>1. AnsweredAmount(l, runs[a.op.generation], a)
      BY Zenon DEF MoneyInv
    <3>2. CASE a.op.generation = g
      BY Zenon, <1>4, <1>10, <3>2
    <3>3. CASE a.op.generation # g
      <4>1. SameEscrow(l, task'.ledger, a.op.generation)
        BY Zenon, <1>12, <2>1, <3>3
      <4>2. \A r, x : x.op.generation = a.op.generation /\ AnsweredAmount(l, r, x)
                         => AnsweredAmount(task'.ledger, r, x)
        BY Zenon, <4>1, SameBooks
      <4> QED
        BY Zenon, <1>4, <3>1, <4>2
    <3> QED
      BY Zenon, <3>2, <3>3
  <2> QED
    BY Zenon, <1>4, <2>2
<1> QED
  BY Zenon, <1>8, <1>12, <1>13, <1>14, <1>15 DEF MoneyInv

\* The task's settlement of an assignment or a run cancel.
LEMMA SettleAtTaskMoney ==
    ASSUME IInv, MoneyInv, NEW e \in pending, NEW a \in log, a.op = e.op,
           e.op.kind \in {"Assignment", "RunCancel"}, SettleAtTask(e, a.answer)
    PROVE  MoneyInv'
<1> DEFINE g == e.op.generation
           l == task.ledger
           u == IF e.op.kind = "Assignment"
                THEN SettleAssignment(task, g, a.answer.verdict = "Accepted")
                ELSE FinalizeCancellation(task)
           m == ReturnChild(SettleChild(l, g, 0), g)
           accepted == [task EXCEPT !.assignment = "Accepted", !.status = "InProgress"]
           rejected == [task EXCEPT !.assignment = "none", !.status = "Created", !.ledger = m]
           owed == OwedByTask(u)
<1>0. TaskInv(task) /\ g \in Generations /\ task = [f \in TaskFields |-> task[f]]
  BY Zenon DEF IInv, ExchangesInv, TaskInv
<1>1. /\ task' = u /\ runs' = runs /\ log' = log /\ pending' = (pending \ {e}) \cup Fresh(owed)
  BY Zenon DEF SettleAtTask, Settled
<1>2. TaskInv(u)
  BY ZenonT(30), <1>0, SettleAssignmentKeeps, FinalizeKeeps DEF TaskKeeps
<1>3. /\ accepted = [f \in TaskFields |-> accepted[f]] /\ accepted.ledger = l
      /\ accepted.generation = task.generation
  BY ZenonT(30), <1>0 DEF TaskFields
<1>4. /\ rejected = [f \in TaskFields |-> rejected[f]] /\ rejected.ledger = m
      /\ rejected.generation = task.generation
  <2> HIDE DEF m
  <2> QED
    BY ZenonT(30), <1>0 DEF TaskFields
<1>5. \/ u = FinalizeCancellation(task) \/ u = FinalizeCancellation(accepted)
      \/ /\ u = FinalizeCancellation(rejected)
         /\ e.op.kind = "Assignment" /\ a.answer.verdict # "Accepted"
  BY ZenonT(30) DEF SettleAssignment
<1> HIDE DEF u, m, accepted, rejected
<1>6. \A f \in pending' : f \in pending \/ f.op.kind = "RunCancel"
  <2>1. \A x \in owed : x.op.kind = "RunCancel"
    BY Zenon, <1>2, OwedByTaskOK
  <2> HIDE DEF owed
  <2> QED
    BY Zenon, <1>1, <2>1 DEF Fresh
<1>7. CASE u.ledger = l /\ u.generation = task.generation
  BY Zenon, <1>1, <1>6, <1>7, QuietMoney
<1>8. CASE /\ u.ledger = m /\ u.generation = task.generation
           /\ e.op.kind = "Assignment" /\ a.answer.verdict # "Accepted"
  <2>1. runs[g] = Unacceptable
    BY Zenon, <1>8 DEF IInv, AnsweredInv
  <2> HIDE DEF g
  <2> QED
    BY Zenon, <1>0, <1>1, <1>6, <1>8, <2>1, RejectedMoney DEF m
<1> QED
  BY Zenon, <1>0, <1>3, <1>4, <1>5, <1>7, <1>8, FinalizeLedger

\* The task's own steps.
LEMMA TaskStepsMoney ==
    ASSUME IInv, MoneyInv, DecideAssignment \/ CancelTask
    PROVE  MoneyInv'
<1>0. TaskInv(task)
  BY Zenon DEF IInv
<1>1. ASSUME NEW u, NEW owed, CommitTask(u, owed), u.ledger = task.ledger,
             u.generation = task.generation, \A x \in owed : x.op.kind = "RunCancel"
      PROVE  MoneyInv'
  <2>1. task' = u /\ runs' = runs /\ log' = log /\ pending' = pending \cup Fresh(owed)
    BY Zenon, <1>1 DEF CommitTask
  <2>2. \A e \in pending' : e \in pending \/ e.op.kind = "RunCancel"
    BY Zenon, <1>1, <2>1 DEF Fresh
  <2> QED
    BY Zenon, <1>1, <2>1, <2>2, QuietMoney
<1>2. CASE CommitTask(EndTask(task, "Failed"), {})
  <2> DEFINE u == EndTask(task, "Failed")
             owed == {}
  <2>1. CommitTask(u, owed) /\ \A x \in owed : x.op.kind = "RunCancel"
    BY Zenon, <1>2
  <2>2. u.ledger = task.ledger /\ u.generation = task.generation
    BY Zenon, <1>0, QuietTask
  <2> HIDE DEF u, owed
  <2> QED
    BY Zenon, <1>1, <2>1, <2>2
<1>3. CASE /\ CanOffer(task)
           /\ CommitTask(Offer(task), {Envelope(Op("Assignment", Offer(task).generation, 0),
                                                OfferedAllocation(Offer(task)))})
  BY Zenon, <1>3, OfferMoney
<1>4. CASE CancelTask
  <2> DEFINE u == RequestCancellation(task)
             owed == OwedByTask(u)
  <2>1. CommitTask(u, owed)
    BY Zenon, <1>4 DEF CancelTask
  <2>2. u.ledger = task.ledger /\ u.generation = task.generation
    BY Zenon, <1>0, QuietTask
  <2>3. TaskInv(u)
    BY Zenon, <1>0, RequestKeeps DEF TaskKeeps
  <2> HIDE DEF u
  <2>4. \A x \in owed : x.op.kind = "RunCancel"
    BY Zenon, <2>3, OwedByTaskOK
  <2> HIDE DEF owed
  <2> QED
    BY Zenon, <1>1, <2>1, <2>2, <2>4
<1> QED
  BY Zenon, <1>2, <1>3, <1>4 DEF DecideAssignment

\* apply_result_proposal moves no money.
LEMMA ProposalMoney ==
    ASSUME IInv, MoneyInv, NEW e \in Deliverable("Proposal"), ApplyProposal(e)
    PROVE  MoneyInv'
<1> DEFINE g == e.op.generation
<1>0. TaskInv(task) /\ e.op.kind = "Proposal"
  BY Zenon DEF IInv, Deliverable
<1>1. PICK answer : \/ AppliedAtTask(e, task, answer)
                    \/ AppliedAtTask(e, AcceptResult(task, g), answer)
                    \/ AppliedAtTask(e, RejectResult(task), answer)
  BY Zenon DEF ApplyProposal
<1> DEFINE a == [op |-> e.op, answer |-> answer]
<1>2. /\ runs' = runs /\ pending' = pending /\ log' = log \cup {a} /\ a.op = e.op
      /\ task' \in {task, AcceptResult(task, g), RejectResult(task)}
  BY Zenon, <1>1 DEF AppliedAtTask
<1> HIDE DEF a
<1>3. task'.ledger = task.ledger /\ task'.generation = task.generation
  <2>1. CASE task' = task
    BY Zenon, <2>1
  <2>2. CASE task' = AcceptResult(task, g)
    BY Zenon, <1>0, <2>2, QuietTask
  <2>3. CASE task' = RejectResult(task)
    BY Zenon, <1>0, <2>3, QuietTask
  <2> QED
    BY Zenon, <1>2, <2>1, <2>2, <2>3
<1>4. \A b \in log' : b \in log \/ b.op.kind # "TopUp"
  BY Zenon, <1>0, <1>2
<1> QED
  BY Zenon, <1>2, <1>3, <1>4, QuietMoney

\* The books hold initially and under every step.
LEMMA InitMoney == Init => MoneyInv
<1> SUFFICES ASSUME Init PROVE MoneyInv
  BY Zenon
<1> DEFINE l == task.ledger
           none == [c \in {} |-> NoAmount]
<1>1. /\ l = NewLedger(TaskBudget) /\ task.generation = 0 /\ pending = {} /\ log = {}
      /\ \A g \in Generations : runs[g] = NoRun
  BY Zenon DEF Init, NewTask
<1>2. /\ l = [allocation |-> TaskBudget, consumed |-> 0, outstanding |-> none]
      /\ DOMAIN none = {}
  BY Zenon, <1>1 DEF NewLedger
<1> HIDE DEF none, l
<1>3. /\ l.allocation = TaskBudget /\ l.consumed = 0 /\ l.outstanding = none
      /\ l = [f \in LedgerFields |-> l[f]]
  BY Zenon, <1>2 DEF LedgerFields
<1>4. LedgerInv(l) /\ Unsettled(l) = {} /\ Escrows(task) = {}
  <2>1. Small({})
    BY Zenon, SmallIntervals
  <2> QED
    BY <1>2, <1>3, <2>1, TaskLimitsAssumption DEF LedgerInv, Unsettled, Escrows, l
<1>5. ~IsRun(NoRun)
  BY Zenon DEF IsRun
<1>6. \A g \in Generations : Book(l, g, runs[g])
  BY Zenon, <1>1, <1>2, <1>3, <1>5 DEF Book
<1>7. LimitInv(l)
  <2>1. Allocated(l, {}) = 0
    BY Zenon, SumEmpty DEF Allocated
  <2> QED
    BY <1>3, <1>4, <2>1, TaskLimitsAssumption DEF LimitInv
<1>8. ChargeInv(l, runs)
  <2>1. Charged(l, runs) = {}
    BY Zenon, <1>1, <1>5 DEF Charged
  <2>2. SumFunction([g \in {} |-> runs[g].consumed]) = 0
    BY Zenon, SumEmpty
  <2>3. SumFunction([g \in Charged(l, runs) |-> runs[g].consumed]) = 0
    BY Zenon, <2>1, <2>2
  <2>4. 0 <= 0
    OBVIOUS
  <2> QED
    BY Zenon, <1>3, <2>3, <2>4 DEF ChargeInv
<1>9. /\ \A g \in Escrows(task) : g \in Generations /\ g <= task.generation
      /\ \A e \in pending : OwedAmount(l, runs[e.op.generation], e)
      /\ \A a \in log : AnsweredAmount(l, runs[a.op.generation], a)
  BY Zenon, <1>1, <1>4
<1> QED
  BY Zenon, <1>4, <1>6, <1>7, <1>8, <1>9 DEF MoneyInv, l

LEMMA NextMoney ==
    ASSUME IInv, MoneyInv, [Next]_vars
    PROVE  MoneyInv'
<1>1. CASE DecideAssignment \/ CancelTask
  BY Zenon, <1>1, TaskStepsMoney
<1>2. CASE \E g \in Generations : RunSteps(g)
  BY Zenon, <1>2, RunStepsMoney
<1>3. CASE Deliver
  BY Zenon, <1>3, AcceptAssignmentMoney, AcceptRunCancelMoney, ProposalMoney, LedgerExchangeMoney
  DEF Deliver
<1>4. CASE Settle
  <2>1. PICK e \in pending, a \in log :
          /\ a.op = e.op
          /\ \/ e.op.kind \in {"Assignment", "RunCancel"} /\ SettleAtTask(e, a.answer)
             \/ e.op.kind \notin {"Assignment", "RunCancel"} /\ SettleAtRun(e, a.answer)
    BY Zenon, <1>4 DEF Settle
  <2>2. e.op.kind \in RunKinds \cup {"Assignment", "RunCancel"}
    BY DEF IInv, ExchangesInv
  <2> QED
    BY Zenon, <2>1, <2>2, SettleAtTaskMoney, SettleRunMoney, SettleTopUpMoney DEF RunKinds
<1>5. CASE Forget \/ UNCHANGED vars
  <2>1. task' = task /\ runs' = runs /\ pending' = pending /\ \A a \in log' : a \in log
    BY <1>5 DEF Forget, vars
  <2> QED
    BY Zenon, <2>1, QuietMoney
<1> QED
  BY Zenon, <1>1, <1>2, <1>3, <1>4, <1>5 DEF Next

=============================================================================
