--------------------------- MODULE AgentWorkProofs ---------------------------
(***************************************************************************)
(* Proofs about AgentWork, for any budget, limits, number of attempts, and *)
(* number and kinds of forgotten answers.                                  *)
(*                                                                         *)
(* IInv is shown inductive here, one lemma for each kind of step; with     *)
(* MoneyInv (AgentMoneyProofs) it gives the theorems about results,        *)
(* cancellation and budgets.                                               *)
(***************************************************************************)
EXTENDS AgentMoneyProofs

\* NoResult is no run's generation.
LEMMA NoGenerationZero == NoResult \notin Generations
BY DEF NoResult, Generations

\* What a run in record s may owe at generation g.
OwedOK(g, s, owed) ==
    /\ \A x \in owed :
          /\ x.op = Op(x.op.kind, g, x.op.sequence) /\ x.op.generation = g
          /\ x.op.kind \in RunKinds
          /\ x.op.kind \in {"Settlement", "Return"} => IsTerminal(s)
          /\ x.op.kind = "Proposal" => /\ ~IsTerminal(s) /\ s.proposal # "none"
                                       /\ s.turn = x.op.sequence
    /\ \A x, y \in owed : x.op = y.op => x = y

\* owed_ledger_exchange
LEMMA OwedByRunOK ==
    ASSUME NEW g, NEW s
    PROVE  OwedOK(g, s, OwedByRun(g, s))
BY DEF OwedOK, OwedByRun, OwedTopUp, OwedSettlement, OwedReturn, Envelope, Op, RunKinds

\* The exchanges stay well formed when some settle and a run owes others.
LEMMA ExchangesKept ==
    ASSUME IInv, NEW g \in Generations, Exists(g), NEW s, NEW owed, OwedOK(g, s, owed), NEW D,
           pending' = (pending \ D) \cup Fresh(owed), task' = task,
           NEW L, log' = log \cup L, \A a, b \in L : a = b,
           \A a \in L : ~Logged(a.op) /\ a.op.generation \in Generations
    PROVE  ExchangesInv'
<1>1. g <= task.generation
  <2>1. g \in Int /\ task.generation \in Int
    BY DEF Generations, IInv, TaskInv
  <2> QED
    BY <2>1 DEF IInv, RunsInv, Exists
<1>2. \A x \in Fresh(owed) : x \in owed /\ \A e \in pending : e.op # x.op
  BY DEF Fresh, HasInitiated
<1>3. \A e \in pending' : e \in pending \/ e \in Fresh(owed)
  BY Zenon
<1>4. \A e \in pending' :
          /\ e.op = Op(e.op.kind, e.op.generation, e.op.sequence)
          /\ e.op.kind \in RunKinds \cup {"Assignment", "RunCancel"}
          /\ e.op.generation \in Generations /\ e.op.generation <= task.generation
  BY Zenon, <1>1, <1>2, <1>3 DEF IInv, ExchangesInv, OwedOK
<1>5. \A e, f \in pending' : e.op = f.op => e = f
  BY <1>2, <1>3 DEF IInv, ExchangesInv, OwedOK
<1>6. \A a, b \in log' : a.op = b.op => a = b
  BY DEF IInv, ExchangesInv, Logged
<1>7. \A a \in log' : a.op.generation \in Generations
  BY DEF IInv, ExchangesInv
<1> QED
  BY Zenon, <1>4, <1>5, <1>6, <1>7 DEF ExchangesInv, Generations

\* A decision stays on its way when no proposal settles and what is logged of one
\* is only that a completed task refused it.
LEMMA OnTheWayKept ==
    ASSUME NEW h, DecisionOnTheWay(h), forgotten' = forgotten,
           NEW D, \A e \in D : e.op.kind # "Proposal", NEW P, pending' = (pending \ D) \cup P,
           NEW L, log' = log \cup L,
           \A a \in L : /\ ~Logged(a.op)
                        /\ a.op.kind = "Proposal" /\ a.op.generation = h => SaysCompleted(a)
    PROVE  DecisionOnTheWay(h)'
<1>1. PICK e \in pending :
        /\ e.op.kind = "Proposal" /\ e.op.generation = h
        /\ \A a \in log : a.op = e.op =>
              SaysAccepted(a) \/ (e.op \in forgotten /\ SaysCompleted(a))
        /\ Logged(e.op) \/ e.op \in forgotten
  BY Zenon DEF DecisionOnTheWay
<1>2. e \in pending' /\ (Logged(e.op)' \/ e.op \in forgotten')
  BY Zenon, <1>1 DEF Logged
<1>3. \A a \in log' : a.op = e.op =>
         SaysAccepted(a) \/ (e.op \in forgotten' /\ SaysCompleted(a))
  BY Zenon, <1>1
<1> QED
  BY Zenon, <1>1, <1>2, <1>3 DEF DecisionOnTheWay, SaysAccepted, SaysCompleted

\* A run's step that leaves its proposal alone keeps the invariant.
LEMMA RunStepKeeps ==
    ASSUME IInv, NEW g \in Generations, Exists(g), NEW s, StepOK(runs[g], s),
           runs' = [runs EXCEPT ![g] = s], task' = task, forgotten' = forgotten,
           NEW owed, OwedOK(g, s, owed), NEW D, \A e \in D : e.op.kind # "Proposal",
           pending' = (pending \ D) \cup Fresh(owed),
           NEW L, log' = log \cup L, \A a, b \in L : a = b,
           \A a \in L : /\ ~Logged(a.op) /\ a.op.generation \in Generations
                        /\ a.op.kind \notin {"Proposal", "Assignment"}
    PROVE  IInv'
<1> DEFINE r == runs[g]
<1>1. /\ runs'[g] = s /\ \A h \in Generations : h # g => runs'[h] = runs[h]
      /\ runs' = [h \in Generations |-> runs'[h]]
  BY DEF IInv, RunsInv
<1>2. RunInv(s) /\ s \notin {NoRun, Unacceptable}
  BY Zenon, RunsExist DEF StepOK
<1>3. \A h \in Generations : Exists(h)' <=> Exists(h)
  BY Zenon, <1>1, <1>2 DEF Exists
<1>4. TaskInv(task)'
  BY ZenonT(30) DEF IInv, TaskInv, Escrows, TaskIsTerminal
<1>5. RunsInv'
  <2>1. \A h \in Generations : Exists(h)' => RunInv(runs'[h])
    BY Zenon, <1>1, <1>2, <1>3 DEF IInv, RunsInv
  <2>2. \A h \in Generations : h > task'.generation => runs'[h] = NoRun
    BY <1>1 DEF IInv, RunsInv, Exists
  <2> QED
    BY Zenon, <1>1, <2>1, <2>2 DEF RunsInv, Generations
<1>6. ExchangesInv'
  BY ZenonT(30), ExchangesKept
<1>7. \A x \in Fresh(owed) : x \in owed
  BY DEF Fresh
<1>8. OwedInv'
  <2> SUFFICES ASSUME NEW e \in pending'
               PROVE  /\ e.op.kind \in RunKinds => Exists(e.op.generation)'
                      /\ e.op.kind \in {"Settlement", "Return"} =>
                            IsTerminal(runs'[e.op.generation])
                      /\ e.op.kind = "Proposal" =>
                            /\ ~IsTerminal(runs'[e.op.generation])
                            /\ runs'[e.op.generation].proposal # "none"
                            /\ runs'[e.op.generation].turn = e.op.sequence
    BY DEF OwedInv
  <2>1. CASE e \in owed
    BY ZenonT(30), <1>1, <1>3, <2>1 DEF OwedOK
  <2>2. CASE e \in pending
    <3>1. e.op.generation \in Generations
      BY Zenon, <2>2 DEF IInv, ExchangesInv
    <3>2. CASE e.op.generation = g
      BY ZenonT(30), <1>1, <1>3, <2>2, <3>1, <3>2 DEF IInv, OwedInv, StepOK, IsTerminal
    <3>3. CASE e.op.generation # g
      BY Zenon, <1>1, <1>3, <2>2, <3>1, <3>3 DEF IInv, OwedInv
    <3> QED
      BY Zenon, <3>2, <3>3
  <2> QED
    BY Zenon, <1>7, <2>1, <2>2
<1>9. AnsweredInv'
  <2>1. \A a \in log : runs[a.op.generation] = Unacceptable =>
                          runs'[a.op.generation] = Unacceptable
    BY Zenon, <1>1 DEF IInv, ExchangesInv, Exists
  <2> QED
    BY Zenon, <2>1 DEF IInv, AnsweredInv
<1>10. EscrowInv'
  <2> SUFFICES ASSUME NEW h \in Generations, MayAct(h)'
               PROVE  h \in Escrows(task)
    BY Zenon DEF EscrowInv, Escrows, Generations
  <2>1. \A e \in pending' : e.op.kind = "Assignment" => e \in pending
    BY Zenon, <1>7 DEF OwedOK, RunKinds
  <2>2. MayAct(h)
    <3>1. CASE h = g
      BY Zenon, <1>1, <1>2, <1>3, <3>1 DEF MayAct, StepOK, IsTerminal, Exists
    <3>2. CASE h # g
      BY Zenon, <1>1, <1>3, <2>1, <3>2 DEF MayAct
    <3> QED
      BY Zenon, <3>1, <3>2
  <2> QED
    BY Zenon, <2>2 DEF IInv, EscrowInv
<1>11. OutcomeInv'
  <2> SUFFICES ASSUME NEW h \in Generations
               PROVE  /\ Exists(h)' /\ runs'[h].status = "Completed" => task.result = h
                      /\ task.result = h => \/ Exists(h)' /\ runs'[h].status = "Completed"
                                            \/ DecisionOnTheWay(h)' \/ RefusedAgain(h)'
    BY Zenon DEF OutcomeInv, Generations
  <2>1. Exists(h)' /\ runs'[h].status = "Completed" =>
           Exists(h) /\ runs[h].status = "Completed"
    BY Zenon, <1>1, <1>3 DEF StepOK
  <2>2. Exists(h) /\ runs[h].status = "Completed" =>
           Exists(h)' /\ runs'[h].status = "Completed"
    BY Zenon, <1>1, <1>3 DEF StepOK, IsTerminal, TerminalStatus
  <2>3. DecisionOnTheWay(h) => DecisionOnTheWay(h)'
    BY OnTheWayKept
  <2>4. RefusedAgain(h) => RefusedAgain(h)'
    BY Zenon, <1>1, <1>3 DEF RefusedAgain, JudgedAgain, StepOK, IsTerminal
  <2> QED
    BY Zenon, <2>1, <2>2, <2>3, <2>4 DEF IInv, OutcomeInv
<1> QED
  BY Zenon, <1>4, <1>5, <1>6, <1>8, <1>9, <1>10, <1>11 DEF IInv

\* A change of the ledger that opens no escrow.
LEMMA LedgerKeeps ==
    ASSUME NEW t, TaskInv(t), NEW l, l = [f \in LedgerFields |-> l[f]],
           DOMAIN l.outstanding \subseteq Escrows(t)
    PROVE  /\ TaskKeeps(t, [t EXCEPT !.ledger = l])
           /\ Escrows([t EXCEPT !.ledger = l]) = DOMAIN l.outstanding
<1> DEFINE u == [t EXCEPT !.ledger = l]
<1>1. /\ u = [f \in TaskFields |-> u[f]]
      /\ u.status = t.status /\ u.assignment = t.assignment /\ u.generation = t.generation
      /\ u.result = t.result /\ u.ledger = l
  BY Zenon DEF TaskInv, TaskFields
<1> HIDE DEF u
<1>2. Escrows(u) = DOMAIN l.outstanding
  BY Zenon, <1>1 DEF Escrows
<1>3. TaskKeeps(t, u)
  BY Zenon, <1>1, <1>2 DEF TaskKeeps, TaskInv, TaskIsTerminal
<1> QED
  BY Zenon, <1>2, <1>3 DEF u

\* and top_up_child.
LEMMA TopUpEscrows ==
    ASSUME NEW l, l = [f \in LedgerFields |-> l[f]], NEW g, NEW x, NEW y
    PROVE  LET m == TopUpChild(l, g, x, y)
           IN  m = [f \in LedgerFields |-> m[f]] /\ DOMAIN m.outstanding = DOMAIN l.outstanding
BY Zenon DEF TopUpChild, LedgerFields

\* apply_settlement, apply_return and apply_top_up
LEMMA LedgerExchangeKeeps ==
    ASSUME NEW t, TaskInv(t), NEW g, NEW x
    PROVE  /\ TaskKeeps(t, ApplySettlement(t, g, x))
           /\ Escrows(ApplySettlement(t, g, x)) = Escrows(t)
           /\ TaskKeeps(t, ApplyReturn(t, g))
           /\ Escrows(t) \ {g} \subseteq Escrows(ApplyReturn(t, g))
           /\ TaskKeeps(t, ApplyTopUp(t, g, x)) /\ Escrows(ApplyTopUp(t, g, x)) = Escrows(t)
<1>1. ASSUME NEW l, l = [f \in LedgerFields |-> l[f]], DOMAIN l.outstanding \subseteq Escrows(t)
      PROVE  LET u == FinalizeCancellation([t EXCEPT !.ledger = l])
             IN  TaskKeeps(t, u) /\ Escrows(u) = DOMAIN l.outstanding
  <2> DEFINE v == [t EXCEPT !.ledger = l]
  <2>1. TaskKeeps(t, v) /\ Escrows(v) = DOMAIN l.outstanding
    BY Zenon, <1>1, LedgerKeeps
  <2> HIDE DEF v
  <2>2. TaskKeeps(t, FinalizeCancellation(v)) /\ Escrows(FinalizeCancellation(v)) = DOMAIN l.outstanding
    BY Zenon, <2>1, FinalizeKeeps, TaskKeepsChains DEF TaskKeeps
  <2> QED
    BY Zenon, <2>2 DEF v
<1>2. t.ledger = [f \in LedgerFields |-> t.ledger[f]] /\ DOMAIN t.ledger.outstanding = Escrows(t)
  BY DEF TaskInv, Escrows
<1>3. TaskKeeps(t, ApplySettlement(t, g, x)) /\ Escrows(ApplySettlement(t, g, x)) = Escrows(t)
  <2> DEFINE l == SettleChild(t.ledger, g, x)
  <2>1. l = [f \in LedgerFields |-> l[f]] /\ DOMAIN l.outstanding = Escrows(t)
    BY Zenon, <1>2, SettleEscrows
  <2>2. ApplySettlement(t, g, x) = FinalizeCancellation([t EXCEPT !.ledger = l])
    BY DEF ApplySettlement, TaskInv, TaskFields
  <2> HIDE DEF l
  <2> QED
    BY Zenon, <1>1, <2>1, <2>2
<1>4. TaskKeeps(t, ApplyReturn(t, g)) /\ Escrows(t) \ {g} \subseteq Escrows(ApplyReturn(t, g))
  <2> DEFINE l == ReturnChild(t.ledger, g)
  <2>1. /\ l = [f \in LedgerFields |-> l[f]] /\ DOMAIN l.outstanding \subseteq Escrows(t)
        /\ Escrows(t) \ {g} \subseteq DOMAIN l.outstanding
    BY Zenon, <1>2, ReturnEscrows
  <2>2. ApplyReturn(t, g) = FinalizeCancellation([t EXCEPT !.ledger = l])
    BY DEF ApplyReturn, TaskInv, TaskFields
  <2> HIDE DEF l
  <2> QED
    BY Zenon, <1>1, <2>1, <2>2
<1>5. TaskKeeps(t, ApplyTopUp(t, g, x)) /\ Escrows(ApplyTopUp(t, g, x)) = Escrows(t)
  <2> DEFINE l == TopUpChild(t.ledger, g, x, RunRequest)
  <2>1. l = [f \in LedgerFields |-> l[f]] /\ DOMAIN l.outstanding = Escrows(t)
    BY <1>2, TopUpEscrows
  <2>2. ApplyTopUp(t, g, x) \in {FinalizeCancellation(t),
                                 FinalizeCancellation([t EXCEPT !.ledger = l])}
    BY Zenon DEF ApplyTopUp, TaskInv, TaskFields
  <2> HIDE DEF l
  <2> QED
    BY Zenon, <1>1, <2>1, <2>2, FinalizeKeeps
<1> QED
  BY Zenon, <1>3, <1>4, <1>5

\* reject_result_core
LEMMA RejectKeeps ==
    ASSUME NEW t, TaskInv(t), ~TaskIsTerminal(t)
    PROVE  TaskKeeps(t, RejectResult(t)) /\ Escrows(RejectResult(t)) = Escrows(t)
<1> DEFINE u == [t EXCEPT !.rejections = @ + 1]
<1>1. /\ u = [f \in TaskFields |-> u[f]]
      /\ u.status = t.status /\ u.assignment = t.assignment /\ u.generation = t.generation
      /\ u.result = t.result /\ u.ledger = t.ledger
  BY Zenon DEF TaskInv, TaskFields
<1>2. RejectResult(t) \in {u, EndTask(u, "Failed")}
  BY Zenon DEF RejectResult
<1> HIDE DEF u
<1>3. Escrows(u) = Escrows(t) /\ ~TaskIsTerminal(u)
  BY Zenon, <1>1 DEF Escrows, TaskIsTerminal
<1>4. TaskKeeps(t, u)
  BY Zenon, <1>1, <1>3 DEF TaskKeeps, TaskInv, TaskIsTerminal
<1>5. TaskKeeps(u, EndTask(u, "Failed")) /\ Escrows(EndTask(u, "Failed")) = Escrows(t)
  BY Zenon, <1>3, <1>4, EndTaskKeeps DEF TaskKeeps
<1> QED
  BY <1>2, <1>3, <1>4, <1>5, TaskKeepsChains

\* What the task answers short of an acceptance: the run whose result stands is
\* told only that the task has completed.
DecidesAgain(a) ==
    a.op.kind = "Proposal" => /\ a.answer.verdict \in {"Rejected", "Refused"}
                              /\ task.result = a.op.generation => SaysCompleted(a)

\* A step of the task that neither offers nor accepts keeps the invariant.
LEMMA TaskStepKeeps ==
    ASSUME IInv, TaskKeeps(task, task'), runs' = runs, forgotten' = forgotten,
           \A g \in Generations : MayAct(g)' /\ g \in Escrows(task) => g \in Escrows(task'),
           NEW owed, \A x, y \in owed : x = y,
           \A x \in owed : /\ x.op = Op(x.op.kind, x.op.generation, x.op.sequence)
                           /\ x.op.kind = "RunCancel"
                           /\ x.op.generation \in Generations
                           /\ x.op.generation = task.generation,
           NEW D, \A e \in D : e.op.kind # "Proposal",
           pending' = (pending \ D) \cup Fresh(owed),
           NEW L, log' = log \cup L, \A a, b \in L : a = b,
           \A a \in L : /\ ~Logged(a.op) /\ a.op.generation \in Generations
                        /\ a.op.kind # "Assignment" /\ DecidesAgain(a)
    PROVE  IInv'
<1>1. TaskInv(task)'
  BY Zenon DEF TaskKeeps, TaskInv, Escrows, TaskIsTerminal, Generations
<1>2. RunsInv'
  BY Zenon DEF TaskKeeps, IInv, RunsInv, Exists, Generations
<1>3. /\ \A x \in Fresh(owed) : x \in owed /\ x.op.kind = "RunCancel"
      /\ \A x \in Fresh(owed) : \A e \in pending : e.op # x.op
  BY DEF Fresh, HasInitiated
<1>4. ExchangesInv'
  <2>1. \A e \in pending' :
          /\ e.op = Op(e.op.kind, e.op.generation, e.op.sequence)
          /\ e.op.kind \in RunKinds \cup {"Assignment", "RunCancel"}
          /\ e.op.generation \in Generations /\ e.op.generation <= task'.generation
    <3>1. \A x \in owed : x.op.generation <= task.generation
      BY DEF Generations
    <3> QED
      BY Zenon, <1>3, <3>1 DEF IInv, ExchangesInv, TaskKeeps
  <2>2. \A e, f \in pending' : e.op = f.op => e = f
    BY ZenonT(30), <1>3 DEF IInv, ExchangesInv
  <2>3. \A a, b \in log' : a.op = b.op => a = b
    BY DEF IInv, ExchangesInv, Logged
  <2>4. \A a \in log' : a.op.generation \in Generations
    BY Zenon DEF IInv, ExchangesInv
  <2> QED
    BY Zenon, <2>1, <2>2, <2>3, <2>4 DEF ExchangesInv, Generations
<1>5. OwedInv'
  BY Zenon, <1>3 DEF IInv, OwedInv, Exists, RunKinds
<1>6. AnsweredInv'
  BY Zenon DEF IInv, AnsweredInv, TaskKeeps, DecidesAgain
<1>7. EscrowInv'
  <2> SUFFICES ASSUME NEW g \in Generations, MayAct(g)'
               PROVE  g \in Escrows(task')
    BY DEF EscrowInv, Escrows, Generations
  <2>1. MayAct(g)
    BY Zenon, <1>3 DEF MayAct, Exists
  <2> QED
    BY Zenon, <2>1 DEF IInv, EscrowInv
<1>8. OutcomeInv'
  <2>1. ASSUME NEW g \in Generations, task.result = g, DecisionOnTheWay(g)
        PROVE  DecisionOnTheWay(g)'
    BY Zenon, <2>1, OnTheWayKept DEF DecidesAgain
  <2>2. \A g \in Generations : RefusedAgain(g) => RefusedAgain(g)'
    BY Zenon DEF RefusedAgain, JudgedAgain, Exists
  <2> QED
    BY Zenon, <2>1, <2>2 DEF IInv, OutcomeInv, TaskKeeps, Exists, Generations
<1> QED
  BY Zenon, <1>1, <1>2, <1>4, <1>5, <1>6, <1>7, <1>8 DEF IInv

(***************************************************************************)
(* The steps that move both halves of the invariant.                       *)
(***************************************************************************)
\* decide_assignment escrows the next run and offers to it.
LEMMA OfferKeepsInv ==
    ASSUME IInv, AwaitsAssignment(task), CanOffer(task), NEW arg,
           CommitTask(Offer(task), {Envelope(Op("Assignment", Offer(task).generation, 0), arg)})
    PROVE  IInv'
<1> DEFINE u == Offer(task)
           g == task.generation + 1
           l == OpenChild(task.ledger, g, RunRequest)
           x == Envelope(Op("Assignment", g, 0), arg)
<1>1. /\ l = [f \in LedgerFields |-> l[f]]
      /\ DOMAIN l.outstanding = Escrows(task) \cup {g}
  BY Zenon DEF OpenChild, IInv, TaskInv, LedgerFields, Escrows
<1>2. /\ task.generation \in Nat /\ g \in Generations /\ g # task.generation
      /\ \A h \in Generations : h > g => h > task.generation
  BY TaskLimitsAssumption
  DEF IInv, TaskInv, Generations, CanOffer, AssignmentsExhausted
<1>3. u = [task EXCEPT !.status = "Assigned", !.assignment = "Offered", !.generation = g,
                       !.ledger = l]
  BY DEF Offer, IInv, TaskInv, TaskFields
<1> HIDE DEF l, g
<1>4. /\ u = [f \in TaskFields |-> u[f]]
      /\ u.status = "Assigned" /\ u.assignment = "Offered" /\ u.generation = g
      /\ u.result = task.result /\ u.ledger = l
  BY Zenon, <1>3 DEF IInv, TaskInv, TaskFields
<1>5. task' = u /\ runs' = runs /\ log' = log /\ pending' = pending \cup Fresh({x})
  BY Zenon, <1>4 DEF CommitTask
<1>6. task.status = "Created" /\ task.result = NoResult
  BY Zenon DEF AwaitsAssignment, IInv, TaskInv
<1> HIDE DEF u
<1>7. x.op.kind = "Assignment" /\ x.op.generation = g
      /\ x.op = Op(x.op.kind, x.op.generation, x.op.sequence)
  BY DEF Envelope, Op
<1> HIDE DEF x
<1>8. Escrows(u) = Escrows(task) \cup {g}
  BY Zenon, <1>1, <1>4 DEF Escrows
<1>9. ~TaskIsTerminal(u)
  BY Zenon, <1>4 DEF TaskIsTerminal, TerminalTaskStatus
<1>10. TaskInv(u)
  <2>1. u.generation \in Nat
    BY <1>2, <1>4 DEF g
  <2> QED
    BY Zenon, <1>1, <1>2, <1>4, <1>6, <1>9, <2>1 DEF TaskInv
<1>11. TaskInv(task)'
  BY Zenon, <1>5, <1>10 DEF TaskInv, Escrows, TaskIsTerminal, Generations
<1>12. RunsInv'
  BY Zenon, <1>2, <1>4, <1>5 DEF IInv, RunsInv, Exists, Generations
<1>13. /\ \A y \in Fresh({x}) : y = x
       /\ \A y \in Fresh({x}) : \A e \in pending : e.op # x.op
  BY DEF Fresh, HasInitiated
<1>14. ExchangesInv'
  <2>1. \A e \in pending' :
          /\ e.op = Op(e.op.kind, e.op.generation, e.op.sequence)
          /\ e.op.kind \in RunKinds \cup {"Assignment", "RunCancel"}
          /\ e.op.generation \in Generations /\ e.op.generation <= g
    <3>1. g <= g /\ \A h \in Generations : h <= task.generation => h <= g
      BY <1>2 DEF g, Generations
    <3> QED
      BY Zenon, <1>2, <1>5, <1>7, <1>13, <3>1 DEF IInv, ExchangesInv
  <2>2. \A e, f \in pending' : e.op = f.op => e = f
    BY Zenon, <1>5, <1>13 DEF IInv, ExchangesInv
  <2> QED
    BY Zenon, <1>4, <1>5, <2>1, <2>2 DEF IInv, ExchangesInv, Generations
<1>15. OwedInv'
  BY Zenon, <1>5, <1>7, <1>13 DEF IInv, OwedInv, Exists, RunKinds
<1>16. AnsweredInv'
  BY Zenon, <1>4, <1>5, <1>6 DEF IInv, AnsweredInv
<1>17. EscrowInv'
  <2> SUFFICES ASSUME NEW h \in Generations, MayAct(h)'
               PROVE  h \in Escrows(u)
    BY Zenon, <1>5 DEF EscrowInv, Escrows, Generations
  <2>1. h = g \/ MayAct(h)
    BY Zenon, <1>5, <1>7, <1>13 DEF MayAct, Exists
  <2> QED
    BY Zenon, <1>8, <2>1 DEF IInv, EscrowInv
<1>18. OutcomeInv'
    BY Zenon, <1>4, <1>5, <1>6, NoGenerationZero DEF IInv, OutcomeInv, Exists, Generations
<1> QED
  BY Zenon, <1>11, <1>12, <1>14, <1>15, <1>16, <1>17, <1>18 DEF IInv

\* accept_assignment: the run comes to exist, or is refused, or accepts again.
LEMMA AcceptAssignmentKeepsInv ==
    ASSUME IInv, NEW e \in Deliverable("Assignment"), AcceptAssignment(e)
    PROVE  IInv'
<1> DEFINE g == e.op.generation
           r == runs[g]
<1>1. /\ e \in pending /\ e.op.kind = "Assignment" /\ ~Logged(e.op) /\ g \in Generations
      /\ g <= task.generation
  BY DEF Deliverable, IInv, ExchangesInv
<1>2. PICK s, verdict :
        /\ runs' = [runs EXCEPT ![g] = s]
        /\ log' = log \cup {[op |-> e.op, answer |-> Answer(verdict, 0, "")]}
        /\ \/ r = NoRun /\ s = Accepted(e.arg) /\ verdict = "Accepted"
           \/ ~Exists(g) /\ s = Unacceptable
           \/ Exists(g) /\ s = r /\ verdict = "Accepted"
        /\ pending' = pending \cup Fresh({}) /\ task' = task /\ forgotten' = forgotten
  BY Zenon DEF AcceptAssignment, AppliedAtRun, Exists
<1>3. pending' = pending
  BY Zenon, <1>2 DEF Fresh
<1>4. /\ runs'[g] = s /\ \A h \in Generations : h # g => runs'[h] = runs[h]
      /\ runs' = [h \in Generations |-> runs'[h]]
  BY Zenon, <1>1, <1>2 DEF IInv, RunsInv
<1> DEFINE a == [op |-> e.op, answer |-> Answer(verdict, 0, "")]
<1>5. /\ log' = log \cup {a} /\ a.op = e.op /\ a.answer.verdict = verdict
  BY Zenon, <1>2 DEF Answer
<1> HIDE DEF a
<1>6. LET n == Accepted(e.arg)
      IN  RunInv(n) /\ ~IsTerminal(n) /\ n.status = "Accepted" /\ n.proposal = "none"
  <2> DEFINE n == Accepted(e.arg)
  <2>1. /\ n = [f \in RunFields |-> n[f]] /\ n.status = "Accepted" /\ n.proposal = "none"
        /\ n.effect = "none" /\ n.reason = "none" /\ n.parked = FALSE
    BY DEF Accepted, RunFields, NoReason
  <2> HIDE DEF n
  <2>2. n.parked \in BOOLEAN /\ ~n.parked
    BY Zenon, <2>1
  <2>3. RunInv(n) /\ ~IsTerminal(n)
    BY Zenon, <2>1, <2>2
    DEF RunInv, LiveStatus, TerminalStatus, IsTerminal, BlocksSettlement, IsOutstanding
  <2> QED
    BY Zenon, <2>1, <2>3 DEF n
<1>7. /\ Exists(g) => Exists(g)' /\ runs'[g] = runs[g]
      /\ Exists(g)' => RunInv(s)
      /\ Exists(g)' /\ ~Exists(g) => s = Accepted(e.arg) /\ runs[g] = NoRun
  BY Zenon, <1>1, <1>2, <1>4, <1>6 DEF IInv, RunsInv, Exists
<1>8. \A h \in Generations : h # g => (Exists(h)' <=> Exists(h))
  BY Zenon, <1>4 DEF Exists
<1>9. TaskInv(task)'
  BY Zenon, <1>2 DEF IInv, TaskInv, Escrows, TaskIsTerminal, Generations
<1>10. RunsInv'
  <2>1. \A h \in Generations : Exists(h)' => RunInv(runs'[h])
    BY Zenon, <1>4, <1>7, <1>8 DEF IInv, RunsInv
  <2>2. \A h \in Generations : h > task'.generation => runs'[h] = NoRun
    <3>1. g \in Int /\ task.generation \in Int
      BY <1>1 DEF Generations, IInv, TaskInv
    <3>2. task' = task
      BY Zenon, <1>2
    <3>3. \A h \in Generations : h > task.generation => h # g
      BY <1>1, <3>1
    <3> QED
      BY ZenonT(30), <1>4, <3>2, <3>3 DEF IInv, RunsInv
  <2> QED
    BY Zenon, <1>4, <2>1, <2>2 DEF RunsInv, Generations
<1>11. ExchangesInv'
  BY Zenon, <1>1, <1>2, <1>3, <1>5 DEF IInv, ExchangesInv, Logged, Generations
<1>12. OwedInv'
  <2>1. \A f \in pending : f.op.generation \in Generations
    BY DEF IInv, ExchangesInv
  <2> QED
    BY ZenonT(30), <1>3, <1>4, <1>7, <1>8, <2>1 DEF IInv, OwedInv, RunKinds
<1>13. AnsweredInv'
  <2>1. \A b \in log : runs[b.op.generation] = Unacceptable =>
                          runs'[b.op.generation] = Unacceptable
    <3>0. NoRun # Unacceptable
      <4>1. NoRun.status # Unacceptable.status
        BY DEF NoRun, Unacceptable
      <4> QED
        BY Zenon, <4>1
    <3>1. r = Unacceptable => s = Unacceptable
      BY Zenon, <1>2, <3>0 DEF Exists
    <3>2. \A b \in log : b.op.generation \in Generations
      BY DEF IInv, ExchangesInv
    <3> QED
      BY Zenon, <1>4, <3>1, <3>2
  <2> QED
    BY Zenon, <1>1, <1>2, <1>4, <1>5, <2>1 DEF IInv, AnsweredInv
<1>14. EscrowInv'
  <2> SUFFICES ASSUME NEW h \in Generations, MayAct(h)'
               PROVE  h \in Escrows(task)
    BY Zenon, <1>2 DEF EscrowInv, Escrows, Generations
  <2>1. CASE h = g
    <3>1. MayAct(g)
      BY Zenon, <1>1, <1>2, <1>3, <1>4, <1>7, <2>1 DEF MayAct, Exists, NoRun, Unacceptable
    <3> QED
      BY Zenon, <2>1, <3>1 DEF IInv, EscrowInv
  <2>2. CASE h # g
    <3>1. MayAct(h)
      BY Zenon, <1>3, <1>4, <1>8, <2>2 DEF MayAct
    <3> QED
      BY Zenon, <3>1 DEF IInv, EscrowInv
  <2> QED
    BY Zenon, <2>1, <2>2
<1>15. OutcomeInv'
  <2>1. \A h \in Generations :
          (Exists(h)' /\ runs'[h].status = "Completed") <=> (Exists(h) /\ runs[h].status = "Completed")
    BY Zenon, <1>4, <1>6, <1>7, <1>8
  <2>2. ASSUME NEW h \in Generations, DecisionOnTheWay(h)
        PROVE  DecisionOnTheWay(h)'
    <3> DEFINE D == {}
               P == {}
               L == {a}
    <3>1. /\ \A f \in D : f.op.kind # "Proposal"
          /\ pending' = (pending \ D) \cup P /\ log' = log \cup L
          /\ \A b \in L : /\ ~Logged(b.op)
                          /\ b.op.kind = "Proposal" /\ b.op.generation = h => SaysCompleted(b)
      BY Zenon, <1>1, <1>3, <1>5
    <3> HIDE DEF D, P, L
    <3> QED
      BY Zenon, <1>2, <2>2, <3>1, OnTheWayKept
  <2>3. \A h \in Generations : RefusedAgain(h) => RefusedAgain(h)'
    BY Zenon, <1>2, <1>4, <1>7, <1>8 DEF RefusedAgain, JudgedAgain
  <2> QED
    BY Zenon, <1>2, <2>1, <2>2, <2>3 DEF IInv, OutcomeInv, Generations
<1> QED
  BY Zenon, <1>9, <1>10, <1>11, <1>12, <1>13, <1>14, <1>15 DEF IInv

\* accept_result: the task completes with the run's result, and the answer that
\* says so is on its way.
LEMMA AcceptResultKeepsInv ==
    ASSUME IInv, NEW e \in Deliverable("Proposal"), ~TaskIsTerminal(task),
           AppliedAtTask(e, AcceptResult(task, e.op.generation), Answer("Accepted", 0, ""))
    PROVE  IInv'
<1> DEFINE g == e.op.generation
           u == AcceptResult(task, g)
           a == [op |-> e.op, answer |-> Answer("Accepted", 0, "")]
<1>1. /\ e \in pending /\ e.op.kind = "Proposal" /\ ~Logged(e.op) /\ g \in Generations
  BY Zenon DEF Deliverable, IInv, ExchangesInv
<1>2. /\ u = [f \in TaskFields |-> u[f]]
      /\ u.status = "Completed" /\ u.assignment = "none" /\ u.generation = task.generation
      /\ u.result = g /\ u.ledger = task.ledger
  BY Zenon DEF AcceptResult, EndTask, IInv, TaskInv, TaskFields
<1>3. /\ task' = u /\ runs' = runs /\ pending' = pending /\ log' = log \cup {a}
      /\ a.op = e.op /\ a.answer.verdict = "Accepted"
  BY Zenon DEF AppliedAtTask, Answer
<1> HIDE DEF u, a
<1>4. task.status # "Completed" /\ task.result = NoResult
  BY Zenon DEF TaskIsTerminal, TerminalTaskStatus, IInv, TaskInv
<1>5. Escrows(u) = Escrows(task)
  BY Zenon, <1>2 DEF Escrows
<1>6. TaskInv(u)
  BY Zenon, <1>2, <1>5 DEF IInv, TaskInv
<1>7. TaskInv(task)'
  BY Zenon, <1>3, <1>6 DEF TaskInv, Escrows, TaskIsTerminal, Generations
<1>8. RunsInv'
  BY Zenon, <1>2, <1>3 DEF IInv, RunsInv, Exists, Generations
<1>9. ExchangesInv'
  <2>1. \A b, c \in log' : b.op = c.op => b = c
    BY ZenonT(30), <1>1, <1>3 DEF IInv, ExchangesInv, Logged
  <2>2. \A b \in log' : b.op.generation \in Generations
    BY Zenon, <1>1, <1>3 DEF IInv, ExchangesInv
  <2> QED
    BY Zenon, <1>2, <1>3, <2>1, <2>2 DEF IInv, ExchangesInv, Generations
<1>10. OwedInv'
  BY Zenon, <1>3 DEF IInv, OwedInv, Exists
<1>11. AnsweredInv'
  BY Zenon, <1>1, <1>2, <1>3, <1>4 DEF IInv, AnsweredInv
<1>12. EscrowInv'
  <2>1. \A h \in Generations : MayAct(h)' => MayAct(h)
    BY Zenon, <1>3 DEF MayAct, Exists
  <2>2. Escrows(task') = Escrows(task)
    BY Zenon, <1>3, <1>5
  <2> QED
    BY Zenon, <2>1, <2>2 DEF IInv, EscrowInv, Escrows, Generations
<1>13. OutcomeInv'
  <2>1. \A h \in Generations : ~(Exists(h) /\ runs[h].status = "Completed")
    BY Zenon, <1>4, NoGenerationZero DEF IInv, OutcomeInv
  <2>2. DecisionOnTheWay(g)'
    <3>1. \A b \in log' : b.op = e.op => SaysAccepted(b)
      BY Zenon, <1>1, <1>3 DEF Logged, SaysAccepted
    <3>2. e \in pending' /\ Logged(e.op)'
      BY Zenon, <1>1, <1>3 DEF Logged
    <3> QED
      BY Zenon, <1>1, <3>1, <3>2 DEF DecisionOnTheWay, SaysAccepted
  <2> QED
    BY Zenon, <1>2, <1>3, <2>1, <2>2 DEF OutcomeInv, Exists, Generations
<1> QED
  BY Zenon, <1>7, <1>8, <1>9, <1>10, <1>11, <1>12, <1>13 DEF IInv

\* settle_proposal: the run takes the decision, and no proposal of it is left.
LEMMA SettleProposalKeepsInv ==
    ASSUME IInv, NEW e \in pending, NEW a \in log, a.op = e.op, e.op.kind = "Proposal",
           SettleAtRun(e, a.answer)
    PROVE  IInv'
<1> DEFINE g == e.op.generation
           r == runs[g]
           s == SettledRun(r, e.op.kind, a.answer)
           owed == OwedByRun(g, s)
<1>1. /\ g \in Generations /\ Exists(g) /\ RunInv(r) /\ ~IsTerminal(r)
      /\ r.proposal # "none" /\ r.turn = e.op.sequence
      /\ a.answer.verdict \in {"Accepted", "Rejected", "Refused"}
  BY Zenon DEF IInv, ExchangesInv, OwedInv, RunKinds, RunsInv, AnsweredInv
<1>2. /\ runs' = [runs EXCEPT ![g] = s] /\ task' = task /\ log' = log
      /\ pending' = (pending \ {e}) \cup Fresh(owed) /\ forgotten' = forgotten
  BY Zenon DEF SettleAtRun, Settled
<1>3. /\ a.answer.verdict = "Accepted" => s = ProposalAccepted(r)
      /\ a.answer.verdict = "Rejected" => s = ProposalRejected(r, a.answer.amount)
      /\ a.answer.verdict = "Refused" => s = ProposalRefused(r, a.answer.code)
  BY DEF SettledRun
<1>4. OwedOK(g, s, owed)
  BY Zenon, OwedByRunOK
<1>5. \A x \in owed : x.op.kind # "Proposal"
  BY DEF OwedByRun, OwedTopUp, OwedSettlement, OwedReturn, Envelope, Op
<1> HIDE DEF s, owed
<1>6. /\ RunInv(s) /\ (s.status = "Completed" <=> a.answer.verdict = "Accepted")
      /\ SaysCompleted(a) => /\ IsTerminal(s) /\ s.reason = "RefusedByCompletedTask"
                             /\ s.turn = r.turn
  <2> HIDE DEF r
  <2>1. CASE a.answer.verdict = "Accepted"
    BY Zenon, <1>1, <1>3, <2>1, ProposalSettles DEF SaysCompleted
  <2>2. CASE a.answer.verdict = "Rejected"
    <3> DEFINE x == a.answer.amount
    <3>1. RunInv(ProposalRejected(r, x)) /\ ProposalRejected(r, x).status # "Completed"
      BY Zenon, <1>1, ProposalSettles
    <3> QED
      BY Zenon, <1>3, <2>2, <3>1 DEF SaysCompleted
  <2>3. CASE a.answer.verdict = "Refused"
    <3> DEFINE x == a.answer.code
    <3>1. /\ RunInv(ProposalRefused(r, x)) /\ ProposalRefused(r, x).status # "Completed"
          /\ x = "Completed" => /\ IsTerminal(ProposalRefused(r, x))
                                /\ ProposalRefused(r, x).reason = "RefusedByCompletedTask"
                                /\ ProposalRefused(r, x).turn = r.turn
      BY Zenon, <1>1, ProposalSettles
    <3> QED
      BY Zenon, <1>3, <2>3, <3>1 DEF SaysCompleted
  <2> QED
    BY Zenon, <1>1, <2>1, <2>2, <2>3
<1>7. s \notin {NoRun, Unacceptable}
  BY Zenon, <1>6, RunsExist
<1>8. /\ runs'[g] = s /\ \A h \in Generations : h # g => runs'[h] = runs[h]
      /\ runs' = [h \in Generations |-> runs'[h]]
  BY Zenon, <1>1, <1>2 DEF IInv, RunsInv
<1>9. \A h \in Generations : Exists(h)' <=> Exists(h)
  BY Zenon, <1>1, <1>7, <1>8 DEF Exists
\* The proposal is the only exchange of its run that is pending and not a top-up.
<1>10. ASSUME NEW f \in pending, f.op.kind = "Proposal", f.op.generation = g
       PROVE  f = e
  <2>1. f.op.sequence = e.op.sequence
    BY Zenon, <1>1, <1>10 DEF IInv, OwedInv
  <2>2. /\ f.op = Op(f.op.kind, f.op.generation, f.op.sequence)
        /\ e.op = Op(e.op.kind, e.op.generation, e.op.sequence)
    BY DEF IInv, ExchangesInv
  <2>3. f.op = e.op
    BY Zenon, <1>10, <2>1, <2>2
  <2> QED
    BY ZenonT(30), <2>3 DEF IInv, ExchangesInv
<1>11. \A x \in Fresh(owed) : x \in owed
  BY Zenon DEF Fresh
<1>12. TaskInv(task)'
  BY Zenon, <1>2 DEF IInv, TaskInv, Escrows, TaskIsTerminal, Generations
<1>13. RunsInv'
  <2>1. \A h \in Generations : Exists(h)' => RunInv(runs'[h])
    BY ZenonT(30), <1>6, <1>8, <1>9 DEF IInv, RunsInv
  <2>2. \A h \in Generations : h > task'.generation => runs'[h] = NoRun
    BY Zenon, <1>1, <1>2, <1>8 DEF IInv, RunsInv, Exists
  <2> QED
    BY Zenon, <1>8, <2>1, <2>2 DEF RunsInv, Generations
<1>14. ExchangesInv'
  <2> DEFINE D == {e}
             L == {}
  <2>1. /\ log' = log \cup L /\ pending' = (pending \ D) \cup Fresh(owed) /\ task' = task
        /\ \A b, c \in L : b = c
        /\ \A b \in L : ~Logged(b.op) /\ b.op.generation \in Generations
    BY ZenonT(30), <1>2
  <2> HIDE DEF D, L, g
  <2> QED
    BY Zenon, <1>1, <1>4, <2>1, ExchangesKept
<1>15. OwedInv'
  <2> SUFFICES ASSUME NEW f \in pending'
               PROVE  /\ f.op.kind \in RunKinds => Exists(f.op.generation)'
                      /\ f.op.kind \in {"Settlement", "Return"} =>
                            IsTerminal(runs'[f.op.generation])
                      /\ f.op.kind = "Proposal" =>
                            /\ ~IsTerminal(runs'[f.op.generation])
                            /\ runs'[f.op.generation].proposal # "none"
                            /\ runs'[f.op.generation].turn = f.op.sequence
    BY DEF OwedInv
  <2>1. CASE f \in owed
    BY ZenonT(30), <1>1, <1>4, <1>5, <1>8, <1>9, <2>1 DEF OwedOK
  <2>2. CASE f \in pending /\ f # e
    <3>1. f.op.generation \in Generations
      BY Zenon, <2>2 DEF IInv, ExchangesInv
    <3>2. CASE f.op.generation = g
      <4>1. f.op.kind \notin {"Settlement", "Return", "Proposal"}
        BY ZenonT(30), <1>1, <1>10, <2>2, <3>2 DEF IInv, OwedInv
      <4> QED
        BY ZenonT(30), <1>1, <1>9, <3>2, <4>1
    <3>3. CASE f.op.generation # g
      BY ZenonT(30), <1>8, <1>9, <2>2, <3>1, <3>3 DEF IInv, OwedInv
    <3> QED
      BY Zenon, <3>2, <3>3
  <2> QED
    BY Zenon, <1>2, <1>11, <2>1, <2>2
<1>16. AnsweredInv'
  <2>1. \A b \in log : runs[b.op.generation] = Unacceptable =>
                          runs'[b.op.generation] = Unacceptable
    BY Zenon, <1>1, <1>8 DEF IInv, ExchangesInv, Exists
  <2> QED
    BY ZenonT(30), <1>2, <2>1 DEF IInv, AnsweredInv
<1>17. EscrowInv'
  <2> SUFFICES ASSUME NEW h \in Generations, MayAct(h)'
               PROVE  h \in Escrows(task)
    BY ZenonT(30), <1>2 DEF EscrowInv, Escrows, Generations
  <2>1. \A f \in pending' : f.op.kind = "Assignment" => f \in pending
    BY Zenon, <1>2, <1>4, <1>11 DEF OwedOK, RunKinds
  <2>2. MayAct(h)
    <3>1. CASE h = g
      BY Zenon, <1>1, <3>1 DEF MayAct
    <3>2. CASE h # g
      BY Zenon, <1>8, <1>9, <2>1, <3>2 DEF MayAct
    <3> QED
      BY ZenonT(30), <3>1, <3>2
  <2> QED
    BY Zenon, <2>2 DEF IInv, EscrowInv
<1>18. OutcomeInv'
  <2> SUFFICES ASSUME NEW h \in Generations
               PROVE  /\ Exists(h)' /\ runs'[h].status = "Completed" => task.result = h
                      /\ task.result = h => \/ Exists(h)' /\ runs'[h].status = "Completed"
                                            \/ DecisionOnTheWay(h)' \/ RefusedAgain(h)'
    BY ZenonT(30), <1>2 DEF OutcomeInv, Generations
  <2>1. CASE h = g
    <3>1. a.answer.verdict = "Accepted" => task.result = g
      BY DEF IInv, AnsweredInv
    <3>2. task.result = g => a.answer.verdict = "Accepted" \/ RefusedAgain(g)'
      <4> SUFFICES ASSUME task.result = g, a.answer.verdict # "Accepted"
                   PROVE  RefusedAgain(g)'
        BY Zenon
      <4>1. DecisionOnTheWay(g)
        BY Zenon, <1>1 DEF IInv, OutcomeInv, RefusedAgain, IsTerminal, TerminalStatus
      <4>2. PICK f \in pending :
              /\ f.op.kind = "Proposal" /\ f.op.generation = g
              /\ \A b \in log : b.op = f.op =>
                    SaysAccepted(b) \/ (f.op \in forgotten /\ SaysCompleted(b))
        BY ZenonT(30), <4>1 DEF DecisionOnTheWay
      <4>3. e.op \in forgotten /\ SaysCompleted(a)
        BY Zenon, <1>10, <4>2 DEF SaysAccepted
      <4>4. e.op = Op("Proposal", g, s.turn)
        <5>1. e.op = Op(e.op.kind, e.op.generation, e.op.sequence)
          BY DEF IInv, ExchangesInv
        <5> QED
          BY Zenon, <1>1, <1>6, <4>3, <5>1
      <4> QED
        BY Zenon, <1>1, <1>2, <1>6, <1>8, <1>9, <4>3, <4>4
        DEF RefusedAgain, JudgedAgain, Op
    <3> QED
      BY ZenonT(30), <1>1, <1>6, <1>8, <1>9, <2>1, <3>1, <3>2
  <2>2. CASE h # g
    <3>1. ASSUME DecisionOnTheWay(h) PROVE DecisionOnTheWay(h)'
      <4>1. PICK f \in pending :
              /\ f.op.kind = "Proposal" /\ f.op.generation = h
              /\ \A b \in log : b.op = f.op =>
                    SaysAccepted(b) \/ (f.op \in forgotten /\ SaysCompleted(b))
              /\ Logged(f.op) \/ f.op \in forgotten
        BY Zenon, <3>1 DEF DecisionOnTheWay
      <4>2. f \in pending' /\ (Logged(f.op)' \/ f.op \in forgotten')
        BY Zenon, <1>2, <2>2, <4>1 DEF Logged
      <4>3. \A b \in log' : b.op = f.op =>
               SaysAccepted(b) \/ (f.op \in forgotten' /\ SaysCompleted(b))
        BY Zenon, <1>2, <4>1
      <4> QED
        BY Zenon, <4>1, <4>2, <4>3 DEF DecisionOnTheWay, SaysAccepted, SaysCompleted
    <3>2. RefusedAgain(h) => RefusedAgain(h)'
      BY Zenon, <1>2, <1>8, <1>9, <2>2 DEF RefusedAgain, JudgedAgain
    <3> QED
      BY Zenon, <1>8, <1>9, <2>2, <3>1, <3>2 DEF IInv, OutcomeInv
  <2> QED
    BY Zenon, <2>1, <2>2
<1> QED
  BY ZenonT(30), <1>12, <1>13, <1>14, <1>15, <1>16, <1>17, <1>18 DEF IInv

\* push_resolved: an answer leaves the log, and a proposal that loses one is
\* remembered as judged again.
LEMMA ForgetKeepsInv ==
    ASSUME IInv, Forget
    PROVE  IInv'
<1>1. PICK a \in log :
        /\ log' = log \ {a}
        /\ forgotten' = forgotten \cup {op \in {a.op} : op.kind = "Proposal"}
  BY Zenon DEF Forget
<1>2. task' = task /\ runs' = runs /\ pending' = pending
  BY ZenonT(30) DEF Forget
<1>3. TaskInv(task)' /\ RunsInv' /\ ExchangesInv' /\ OwedInv' /\ AnsweredInv'
  BY ZenonT(30), <1>1, <1>2 DEF IInv, TaskInv, Escrows, TaskIsTerminal, Generations, RunsInv,
                    Exists, ExchangesInv, OwedInv, AnsweredInv
<1>4. EscrowInv'
  BY Zenon, <1>2 DEF IInv, EscrowInv, MayAct, Exists, Escrows, Generations
<1>5. OutcomeInv'
  <2>1. ASSUME NEW g \in Generations, DecisionOnTheWay(g)
        PROVE  DecisionOnTheWay(g)'
    <3>1. PICK e \in pending :
            /\ e.op.kind = "Proposal" /\ e.op.generation = g
            /\ \A b \in log : b.op = e.op =>
                  SaysAccepted(b) \/ (e.op \in forgotten /\ SaysCompleted(b))
            /\ Logged(e.op) \/ e.op \in forgotten
      BY Zenon, <2>1 DEF DecisionOnTheWay
    <3>2. e \in pending' /\ (e.op \in forgotten => e.op \in forgotten')
      BY Zenon, <1>1, <1>2
    <3>3. Logged(e.op)' \/ e.op \in forgotten'
      <4>1. CASE a.op = e.op
        BY Zenon, <1>1, <3>1, <4>1
      <4>2. CASE a.op # e.op
        BY Zenon, <1>1, <3>1, <3>2, <4>2 DEF Logged
      <4> QED
        BY Zenon, <4>1, <4>2
    <3>4. \A b \in log' : b.op = e.op =>
             SaysAccepted(b) \/ (e.op \in forgotten' /\ SaysCompleted(b))
      BY Zenon, <1>1, <3>1, <3>2
    <3> QED
      BY Zenon, <3>1, <3>2, <3>3, <3>4 DEF DecisionOnTheWay, SaysAccepted, SaysCompleted
  <2>2. \A g \in Generations : RefusedAgain(g) => RefusedAgain(g)'
    BY Zenon, <1>1, <1>2 DEF RefusedAgain, JudgedAgain, Exists
  <2> QED
    BY Zenon, <1>2, <2>1, <2>2 DEF IInv, OutcomeInv, Exists, Generations
<1> QED
  BY Zenon, <1>3, <1>4, <1>5 DEF IInv

\* The commit of a run that leaves its proposal alone.
LEMMA CommitRunKeepsInv ==
    ASSUME IInv, NEW g \in Generations, Exists(g), NEW s, StepOK(runs[g], s),
           CommitRun(g, s, {})
    PROVE  IInv'
<1> DEFINE owed == OwedByRun(g, s)
           D == {}
           L == {}
<1>1. OwedOK(g, s, owed)
  BY Zenon, OwedByRunOK
<1>2. /\ runs' = [runs EXCEPT ![g] = s] /\ task' = task
      /\ pending' = (pending \ D) \cup Fresh(owed) /\ log' = log \cup L
      /\ forgotten' = forgotten
  BY ZenonT(30) DEF CommitRun
<1>3. /\ \A e \in D : e.op.kind # "Proposal"
      /\ \A a, b \in L : a = b
      /\ \A a \in L : /\ ~Logged(a.op) /\ a.op.generation \in Generations
                      /\ a.op.kind \notin {"Proposal", "Assignment"}
  OBVIOUS
<1> HIDE DEF owed, D, L
<1> QED
  BY Zenon, <1>1, <1>2, <1>3, RunStepKeeps

\* The loop's step, which may initiate a proposal.
LEMMA AdvanceRunKeepsInv ==
    ASSUME IInv, NEW g \in Generations, AdvanceRun(g)
    PROVE  IInv'
<1> DEFINE r == runs[g]
           s == Advance(r)
           p == Envelope(Op("Proposal", g, r.turn), r.output)
           extra == IF Proposes(r) THEN {p} ELSE {}
           owed == OwedByRun(g, s) \cup extra
           D == {}
           L == {}
<1>1. /\ Exists(g) /\ CanAdvance(r) /\ runs' = [runs EXCEPT ![g] = s] /\ task' = task
      /\ pending' = (pending \ D) \cup Fresh(owed) /\ log' = log \cup L
      /\ forgotten' = forgotten
  BY Zenon DEF AdvanceRun, CommitRun
<1>2. RunInv(r)
  BY Zenon, <1>1 DEF IInv, RunsInv
<1>3. /\ StepOK(r, s) /\ ~IsTerminal(s)
      /\ Proposes(r) => s.proposal # "none" /\ s.turn = r.turn
  BY ZenonT(30), <1>1, <1>2, AdvanceKeeps
<1>4. OwedOK(g, s, owed)
  <2>1. OwedOK(g, s, OwedByRun(g, s))
    BY Zenon, OwedByRunOK
  <2>2. \A x \in OwedByRun(g, s) : x.op.kind # "Proposal"
    BY DEF OwedByRun, OwedTopUp, OwedSettlement, OwedReturn, Envelope, Op
  <2>3. /\ p.op.kind = "Proposal" /\ p.op.generation = g /\ p.op.sequence = r.turn
        /\ p.op = Op(p.op.kind, g, p.op.sequence)
    BY DEF Envelope, Op
  <2>4. \A x \in extra : x = p /\ Proposes(r)
    BY ZenonT(30)
  <2> HIDE DEF p, extra, s
  <2> QED
    BY <1>3, <2>1, <2>2, <2>3, <2>4 DEF OwedOK, RunKinds
<1>5. /\ \A e \in D : e.op.kind # "Proposal"
      /\ \A a, b \in L : a = b
      /\ \A a \in L : /\ ~Logged(a.op) /\ a.op.generation \in Generations
                      /\ a.op.kind \notin {"Proposal", "Assignment"}
  OBVIOUS
<1> HIDE DEF s, owed, D, L
<1> QED
  BY Zenon, <1>1, <1>3, <1>4, <1>5, RunStepKeeps

\* Every step of a run on its own.
LEMMA RunStepsKeepInv ==
    ASSUME IInv, NEW g \in Generations, RunSteps(g)
    PROVE  IInv'
<1> DEFINE r == runs[g]
<1>0. Exists(g) => RunInv(r)
  BY DEF IInv, RunsInv
<1>1. CASE AdvanceRun(g)
  BY Zenon, <1>1, AdvanceRunKeepsInv
<1>2. CASE DispatchEffects(g)
  <2>1. Exists(g) /\ CommitRun(g, MarkReady(r), {})
    BY ZenonT(30), <1>2 DEF DispatchEffects
  <2> QED
    BY Zenon, <1>0, <2>1, MarkReadyKeeps, CommitRunKeepsInv
<1>3. CASE RecordTurnEffect(g)
  <2>1. PICK outcome \in {"Succeeded", "Failed", "Indeterminate", "Cancelled"} :
          \E made \in MadeBy(outcome), output \in Outputs :
             CommitRun(g, RecordTurnResult(r, outcome, output, made), {})
    BY Zenon, <1>3 DEF RecordTurnEffect
  <2>2. PICK made \in MadeBy(outcome), output \in Outputs :
             CommitRun(g, RecordTurnResult(r, outcome, output, made), {})
    BY ZenonT(30), <2>1
  <2>3. Exists(g) /\ ~IsTerminal(r) /\ r.effect \in {"Ready", "Indeterminate"}
    BY ZenonT(30), <1>3 DEF RecordTurnEffect
  <2>4. StepOK(r, RecordTurnResult(r, outcome, output, made))
    BY Zenon, <1>0, <2>3, TurnResultKeeps
  <2> QED
    BY ZenonT(30), <2>2, <2>3, <2>4, CommitRunKeepsInv
<1>4. CASE RecordPromotionEffect(g)
  <2>1. PICK outcome \in {"Succeeded", "Failed", "Indeterminate"} :
          \E made \in MadeBy(outcome) : CommitRun(g, RecordPromotionResult(r, outcome, made), {})
    BY Zenon, <1>4 DEF RecordPromotionEffect
  <2>2. PICK made \in MadeBy(outcome) : CommitRun(g, RecordPromotionResult(r, outcome, made), {})
    BY Zenon, <2>1
  <2>3. Exists(g)
    BY Zenon, <1>4 DEF RecordPromotionEffect
  <2>4. StepOK(r, RecordPromotionResult(r, outcome, made))
    BY Zenon, <1>0, <2>3, PromotionStepsKeep
  <2> QED
    BY ZenonT(30), <2>2, <2>3, <2>4, CommitRunKeepsInv
<1>5. CASE PromoteMemory(g)
  <2>1. Exists(g) /\ CommitRun(g, Promote(r), {})
    BY Zenon, <1>5 DEF PromoteMemory
  <2>2. StepOK(r, Promote(r))
    BY ZenonT(30), <1>0, <2>1, PromotionStepsKeep
  <2> QED
    BY Zenon, <2>1, <2>2, CommitRunKeepsInv
<1>6. CASE ResolveTurnEffect(g)
  <2>1. /\ Exists(g) /\ ~IsTerminal(r) /\ r.effect = "Indeterminate"
        /\ r.effect \in {"Ready", "Indeterminate"}
    BY ZenonT(30), <1>6 DEF ResolveTurnEffect
  <2>2. CASE CommitRun(g, ConfirmTurnNotExecuted(r), {})
    BY Zenon, <1>0, <2>1, <2>2, NotExecutedKeeps, CommitRunKeepsInv
  <2>3. CASE \E outcome \in {"Succeeded", "Failed"}, output \in Outputs :
                CommitRun(g, ConfirmTurnExecuted(r, outcome, output), {})
    <3>1. PICK outcome \in {"Succeeded", "Failed"}, output \in Outputs :
                CommitRun(g, ConfirmTurnExecuted(r, outcome, output), {})
      BY ZenonT(30), <2>3
    <3>2. StepOK(r, ConfirmTurnExecuted(r, outcome, output))
      BY ZenonT(30), <1>0, <2>1, TurnResultKeeps
    <3> QED
      BY Zenon, <2>1, <3>1, <3>2, CommitRunKeepsInv
  <2> QED
    BY ZenonT(30), <1>6, <2>2, <2>3 DEF ResolveTurnEffect
<1>7. CASE ResolvePromotion(g)
  <2>1. Exists(g)
    BY Zenon, <1>7 DEF ResolvePromotion
  <2>2. CASE CommitRun(g, ConfirmPromotionNotExecuted(r), {})
    BY Zenon, <1>0, <2>1, <2>2, NotExecutedKeeps, CommitRunKeepsInv
  <2>3. CASE \E outcome \in {"Succeeded", "Failed"} :
                CommitRun(g, ConfirmPromotionExecuted(r, outcome), {})
    <3>1. PICK outcome \in {"Succeeded", "Failed"} :
                CommitRun(g, ConfirmPromotionExecuted(r, outcome), {})
      BY Zenon, <2>3
    <3>2. StepOK(r, ConfirmPromotionExecuted(r, outcome))
      BY Zenon, <1>0, <2>1, PromotionStepsKeep
    <3> QED
      BY Zenon, <2>1, <3>1, <3>2, CommitRunKeepsInv
  <2> QED
    BY Zenon, <1>7, <2>2, <2>3 DEF ResolvePromotion
<1>8. CASE CancelRun(g)
  <2>1. Exists(g) /\ ~IsTerminal(r) /\ CommitRun(g, Cancel(r), {})
    BY ZenonT(30), <1>8 DEF CancelRun
  <2> QED
    BY Zenon, <1>0, <2>1, CancelKeeps, CommitRunKeepsInv
<1>9. CASE RunOut(g)
  <2>1. Exists(g) /\ Reserves(r) /\ CommitRun(g, Exhaust(r), {})
    BY Zenon, <1>9 DEF RunOut
  <2> QED
    BY Zenon, <1>0, <2>1, ExhaustKeeps, CommitRunKeepsInv
<1> QED
  BY Zenon, <1>1, <1>2, <1>3, <1>4, <1>5, <1>6, <1>7, <1>8, <1>9 DEF RunSteps

\* The task's own steps.
LEMMA TaskStepsKeepInv ==
    ASSUME IInv, DecideAssignment \/ CancelTask
    PROVE  IInv'
<1>0. TaskInv(task)
  BY DEF IInv
<1>1. ASSUME NEW u, TaskKeeps(task, u), Escrows(u) = Escrows(task), NEW owed,
             CommitTask(u, owed), \A x, y \in owed : x = y,
             \A x \in owed : /\ x.op = Op(x.op.kind, x.op.generation, x.op.sequence)
                             /\ x.op.kind = "RunCancel"
                             /\ x.op.generation \in Generations
                             /\ x.op.generation = task.generation
      PROVE  IInv'
  <2> DEFINE D == {}
             L == {}
  <2>1. /\ TaskKeeps(task, task') /\ runs' = runs /\ forgotten' = forgotten
        /\ pending' = (pending \ D) \cup Fresh(owed) /\ log' = log \cup L
        /\ \A g \in Generations : MayAct(g)' /\ g \in Escrows(task) => g \in Escrows(task')
    BY Zenon, <1>1 DEF CommitTask
  <2>2. /\ \A e \in D : e.op.kind # "Proposal"
        /\ \A a, b \in L : a = b
        /\ \A a \in L : /\ ~Logged(a.op) /\ a.op.generation \in Generations
                        /\ a.op.kind # "Assignment" /\ DecidesAgain(a)
    OBVIOUS
  <2> HIDE DEF D, L
  <2> QED
    BY Zenon, <1>1, <2>1, <2>2, TaskStepKeeps
<1>2. CASE DecideAssignment
  <2>1. AwaitsAssignment(task) /\ ~TaskIsTerminal(task)
    BY ZenonT(30), <1>2 DEF DecideAssignment, AwaitsAssignment, TaskIsTerminal, TerminalTaskStatus
  <2>2. CASE CommitTask(EndTask(task, "Failed"), {})
    <3>1. TaskKeeps(task, EndTask(task, "Failed")) /\ Escrows(EndTask(task, "Failed")) = Escrows(task)
      BY Zenon, <1>0, <2>1, EndTaskKeeps
    <3> DEFINE u == EndTask(task, "Failed")
               owed == {}
    <3>2. /\ TaskKeeps(task, u) /\ Escrows(u) = Escrows(task) /\ CommitTask(u, owed)
          /\ \A x \in owed : FALSE
      BY Zenon, <2>2, <3>1
    <3> HIDE DEF u, owed
    <3> QED
      BY Zenon, <1>1, <3>2
  <2>3. CASE /\ CanOffer(task)
             /\ LET offered == Offer(task)
                IN  CommitTask(offered, {Envelope(Op("Assignment", offered.generation, 0),
                                                  OfferedAllocation(offered))})
    BY ZenonT(30), <2>1, <2>3, OfferKeepsInv
  <2> QED
    BY ZenonT(30), <1>2, <2>2, <2>3 DEF DecideAssignment
<1>3. CASE CancelTask
  <2> DEFINE u == RequestCancellation(task)
             owed == OwedByTask(u)
  <2>1. TaskKeeps(task, u) /\ Escrows(u) = Escrows(task)
    BY Zenon, <1>0, RequestKeeps
  <2>2. CommitTask(u, owed)
    BY Zenon, <1>3 DEF CancelTask
  <2> HIDE DEF u
  <2>3. /\ \A x, y \in owed : x = y
        /\ \A x \in owed : /\ x.op = Op(x.op.kind, x.op.generation, x.op.sequence)
                           /\ x.op.kind = "RunCancel"
                           /\ x.op.generation \in Generations
                           /\ x.op.generation = task.generation
    BY Zenon, <2>1, OwedByTaskOK DEF TaskKeeps
  <2> HIDE DEF owed
  <2> QED
    BY Zenon, <1>1, <2>1, <2>2, <2>3
<1> QED
  BY Zenon, <1>2, <1>3

\* accept_run_cancel
LEMMA AcceptRunCancelKeepsInv ==
    ASSUME IInv, NEW e \in Deliverable("RunCancel"), AcceptRunCancel(e)
    PROVE  IInv'
<1> DEFINE g == e.op.generation
           r == runs[g]
           s == IF IsTerminal(r) \/ WindingDown(r) THEN r ELSE Cancel(r)
           owed == OwedByRun(g, s)
           D == {}
           a == [op |-> e.op, answer |-> Answer("Accepted", 0, "")]
           L == {a}
<1>1. /\ e.op.kind = "RunCancel" /\ ~Logged(e.op) /\ g \in Generations
  BY DEF Deliverable, IInv, ExchangesInv
<1>2. /\ Exists(g) /\ runs' = [runs EXCEPT ![g] = s] /\ task' = task
      /\ pending' = (pending \ D) \cup Fresh(owed) /\ log' = log \cup L
      /\ forgotten' = forgotten
  BY Zenon DEF AcceptRunCancel, AppliedAtRun
<1>3. RunInv(r)
  BY Zenon, <1>1, <1>2 DEF IInv, RunsInv
<1>4. StepOK(r, s)
  <2>1. StepOK(r, r)
    BY ZenonT(30), <1>3 DEF StepOK
  <2> QED
    BY ZenonT(30), <1>3, <2>1, CancelKeeps
<1>5. OwedOK(g, s, owed)
  BY Zenon, OwedByRunOK
<1>6. a.op = e.op
  BY ZenonT(30)
<1>7. /\ \A d \in D : d.op.kind # "Proposal"
      /\ \A b, c \in L : b = c
      /\ \A b \in L : /\ ~Logged(b.op) /\ b.op.generation \in Generations
                      /\ b.op.kind \notin {"Proposal", "Assignment"}
  BY Zenon, <1>1, <1>6
<1> HIDE DEF g, s, owed, D, L
<1> QED
  BY Zenon, <1>1, <1>2, <1>4, <1>5, <1>7, RunStepKeeps

\* An exchange the task applies that neither assigns nor accepts a result.
LEMMA AppliedAtTaskKeepsInv ==
    ASSUME IInv, NEW e \in pending, ~Logged(e.op), e.op.kind # "Assignment",
           NEW u, TaskKeeps(task, u), NEW answer, AppliedAtTask(e, u, answer),
           \A g \in Generations : MayAct(g) /\ g \in Escrows(task) => g \in Escrows(u),
           e.op.kind = "Proposal" =>
              /\ answer.verdict \in {"Rejected", "Refused"}
              /\ task.result = e.op.generation =>
                    answer.verdict = "Refused" /\ answer.code = "Completed"
    PROVE  IInv'
<1> DEFINE owed == {}
           D == {}
           a == [op |-> e.op, answer |-> answer]
           L == {a}
<1>1. /\ task' = u /\ runs' = runs /\ pending' = pending /\ log' = log \cup L
      /\ forgotten' = forgotten
  BY Zenon DEF AppliedAtTask
<1>2. pending' = (pending \ D) \cup Fresh(owed)
  BY Zenon, <1>1 DEF Fresh
<1>3. \A g \in Generations : MayAct(g)' /\ g \in Escrows(task) => g \in Escrows(task')
  <2>1. \A g \in Generations : MayAct(g)' => MayAct(g)
    BY ZenonT(30), <1>1 DEF MayAct, Exists
  <2> QED
    BY ZenonT(30), <1>1, <2>1
<1>4. a.op = e.op /\ a.answer = answer /\ e.op.generation \in Generations
  BY ZenonT(30) DEF IInv, ExchangesInv
<1>5. /\ \A d \in D : d.op.kind # "Proposal"
      /\ \A b, c \in L : b = c
      /\ \A b \in L : /\ ~Logged(b.op) /\ b.op.generation \in Generations
                      /\ b.op.kind # "Assignment" /\ DecidesAgain(b)
  BY ZenonT(30), <1>4 DEF DecidesAgain, SaysCompleted
<1>6. /\ \A x, y \in owed : x = y
      /\ \A x \in owed : /\ x.op = Op(x.op.kind, x.op.generation, x.op.sequence)
                         /\ x.op.kind = "RunCancel"
                         /\ x.op.generation \in Generations
                         /\ x.op.generation = task.generation
  BY ZenonT(30)
<1>7. TaskKeeps(task, task')
  BY Zenon, <1>1
<1> HIDE DEF owed, D, L
<1> QED
  BY Zenon, <1>1, <1>2, <1>3, <1>5, <1>6, <1>7, TaskStepKeeps

\* Every delivery.
LEMMA DeliverKeepsInv ==
    ASSUME IInv, Deliver
    PROVE  IInv'
<1>0. TaskInv(task) /\ TaskKeeps(task, task)
  BY DEF IInv, TaskKeeps
<1>1. CASE \E e \in Deliverable("Assignment") : AcceptAssignment(e)
  BY Zenon, <1>1, AcceptAssignmentKeepsInv
<1>2. CASE \E e \in Deliverable("RunCancel") : AcceptRunCancel(e)
  BY Zenon, <1>2, AcceptRunCancelKeepsInv
<1>3. ASSUME NEW e \in Deliverable("Proposal"), ApplyProposal(e)
      PROVE  IInv'
  <2> DEFINE g == e.op.generation
             gate == ProposalGate(task, g)
  <2>1. e \in pending /\ ~Logged(e.op) /\ e.op.kind = "Proposal"
    BY Zenon, <1>3 DEF Deliverable
  <2>2. gate = "open" => ~TaskIsTerminal(task)
    BY ZenonT(30) DEF ProposalGate, TaskIsTerminal, TerminalTaskStatus
  <2>3. task.result = g => gate = "Completed" /\ TaskIsTerminal(task)
    <3>1. g # NoResult
      BY Zenon, <2>1, NoGenerationZero DEF IInv, ExchangesInv
    <3> QED
      BY <1>0, <3>1 DEF TaskInv, ProposalGate, TaskIsTerminal, TerminalTaskStatus
  <2>4. ASSUME NEW code, AppliedAtTask(e, task, Answer("Refused", 0, code)),
                task.result = g => code = "Completed"
         PROVE  IInv'
    <3> DEFINE answer == Answer("Refused", 0, code)
    <3>1. answer.verdict = "Refused" /\ answer.code = code
      BY DEF Answer
    <3> HIDE DEF answer
    <3> QED
      BY Zenon, <1>0, <2>1, <2>4, <3>1, AppliedAtTaskKeepsInv DEF answer
  <2>5. CASE AppliedAtTask(e, task, Answer("Refused", 0, gate))
    BY Zenon, <2>3, <2>4, <2>5
  <2>6. CASE task.result # g /\ AppliedAtTask(e, task, Answer("Refused", 0, "unacceptable"))
    BY Zenon, <2>4, <2>6
  <2>7. CASE gate = "open" /\ AppliedAtTask(e, AcceptResult(task, g), Answer("Accepted", 0, ""))
    BY Zenon, <1>3, <2>2, <2>7, AcceptResultKeepsInv
  <2>8. CASE /\ gate = "open"
             /\ AppliedAtTask(e, RejectResult(task),
                              Answer("Rejected", RemainingRejections(RejectResult(task)), ""))
    <3> DEFINE u == RejectResult(task)
               answer == Answer("Rejected", RemainingRejections(u), "")
    <3>1. answer.verdict = "Rejected"
      BY DEF Answer
    <3>2. TaskKeeps(task, u) /\ Escrows(u) = Escrows(task)
      BY Zenon, <1>0, <2>2, <2>8, RejectKeeps
    <3>3. AppliedAtTask(e, u, answer)
      BY Zenon, <2>8
    <3>4. task.result # g
      BY Zenon, <2>2, <2>3, <2>8
    <3> HIDE DEF answer, u
    <3> QED
      BY Zenon, <2>1, <3>1, <3>2, <3>3, <3>4, AppliedAtTaskKeepsInv
  <2> QED
    BY Zenon, <1>3, <2>5, <2>6, <2>7, <2>8 DEF ApplyProposal
<1>4. ASSUME NEW kind \in {"TopUp", "Settlement", "Return"}, NEW e \in Deliverable(kind),
             ApplyLedgerExchange(e)
      PROVE  IInv'
  <2> DEFINE g == e.op.generation
  <2>1. e \in pending /\ ~Logged(e.op) /\ e.op.kind \notin {"Proposal", "Assignment"}
    BY ZenonT(30), <1>4 DEF Deliverable
  <2>2. ASSUME NEW u, TaskKeeps(task, u), NEW answer, AppliedAtTask(e, u, answer),
               \A h \in Generations : MayAct(h) /\ h \in Escrows(task) => h \in Escrows(u)
        PROVE  IInv'
    BY Zenon, <2>1, <2>2, AppliedAtTaskKeepsInv
  <2>3. CASE AppliedAtTask(e, ApplySettlement(task, g, e.arg), Answer("Accepted", 0, ""))
    <3> DEFINE u == ApplySettlement(task, g, e.arg)
               answer == Answer("Accepted", 0, "")
    <3>1. TaskKeeps(task, u) /\ Escrows(u) = Escrows(task)
      BY Zenon, <1>0, LedgerExchangeKeeps
    <3>2. AppliedAtTask(e, u, answer)
      BY Zenon, <2>3
    <3> HIDE DEF u, answer
    <3> QED
      BY ZenonT(30), <2>2, <3>1, <3>2
  <2>4. CASE /\ e.op.kind = "Return"
             /\ AppliedAtTask(e, ApplyReturn(task, g), Answer("Accepted", 0, ""))
    <3> DEFINE u == ApplyReturn(task, g)
               answer == Answer("Accepted", 0, "")
    <3>1. TaskKeeps(task, u) /\ Escrows(task) \ {g} \subseteq Escrows(u)
      BY Zenon, <1>0, LedgerExchangeKeeps
    <3>2. ~MayAct(g)
      BY Zenon, <2>1, <2>4 DEF IInv, OwedInv, RunKinds, MayAct, Exists
    <3>3. AppliedAtTask(e, u, answer)
      BY Zenon, <2>4
    <3> HIDE DEF u, answer
    <3> QED
      BY ZenonT(30), <2>2, <3>1, <3>2, <3>3
  <2>5. CASE AppliedAtTask(e, ApplyTopUp(task, g, e.op.sequence),
                           Answer("Accepted", AnsweredGrant(task, g, e.op.sequence), ""))
    <3> DEFINE u == ApplyTopUp(task, g, e.op.sequence)
               answer == Answer("Accepted", AnsweredGrant(task, g, e.op.sequence), "")
    <3>1. TaskKeeps(task, u) /\ Escrows(u) = Escrows(task)
      BY Zenon, <1>0, LedgerExchangeKeeps
    <3>2. AppliedAtTask(e, u, answer)
      BY Zenon, <2>5
    <3> HIDE DEF u, answer
    <3> QED
      BY ZenonT(30), <2>2, <3>1, <3>2
  <2> QED
    BY Zenon, <1>4, <2>3, <2>4, <2>5 DEF ApplyLedgerExchange
<1> QED
  BY Zenon, <1>1, <1>2, <1>3, <1>4 DEF Deliver

\* The task's settlement of an assignment or a run cancel.
LEMMA SettleAtTaskKeepsInv ==
    ASSUME IInv, NEW e \in pending, NEW a \in log, a.op = e.op,
           e.op.kind \in {"Assignment", "RunCancel"}, SettleAtTask(e, a.answer)
    PROVE  IInv'
<1> DEFINE g == e.op.generation
           u == IF e.op.kind = "Assignment"
                THEN SettleAssignment(task, g, a.answer.verdict = "Accepted")
                ELSE FinalizeCancellation(task)
           owed == OwedByTask(u)
           D == {e}
           L == {}
<1>0. TaskInv(task) /\ g \in Generations
  BY ZenonT(30) DEF IInv, ExchangesInv
<1>1. /\ task' = u /\ runs' = runs /\ log' = log \cup L
      /\ pending' = (pending \ D) \cup Fresh(owed) /\ forgotten' = forgotten
  BY Zenon DEF SettleAtTask, Settled
<1>2. TaskKeeps(task, u)
  BY ZenonT(30), <1>0, SettleAssignmentKeeps, FinalizeKeeps
<1>3. \A h \in Generations : MayAct(h)' /\ h \in Escrows(task) => h \in Escrows(u)
  <2>1. CASE e.op.kind = "Assignment" /\ a.answer.verdict # "Accepted"
    <3>1. Escrows(task) \ {g} \subseteq Escrows(u)
      BY Zenon, <1>0, <2>1, SettleAssignmentKeeps
    <3>2. runs[g] = Unacceptable
      BY Zenon, <2>1 DEF IInv, AnsweredInv
    <3>3. NoRun # Unacceptable
      <4>1. NoRun.status # Unacceptable.status
        BY ZenonT(30) DEF NoRun, Unacceptable
      <4> QED
        BY Zenon, <4>1
    <3>4. ~MayAct(g)'
      BY Zenon, <1>1, <3>2, <3>3 DEF MayAct, Exists
    <3> QED
      BY Zenon, <3>1, <3>4
  <2>2. CASE e.op.kind = "Assignment" /\ a.answer.verdict = "Accepted"
    <3>1. Escrows(SettleAssignment(task, g, TRUE)) = Escrows(task)
      BY Zenon, <1>0, SettleAssignmentKeeps
    <3>2. u = SettleAssignment(task, g, TRUE)
      BY Zenon, <2>2
    <3> QED
      BY Zenon, <3>1, <3>2
  <2>3. CASE e.op.kind = "RunCancel"
    BY ZenonT(30), <1>0, <2>3, FinalizeKeeps
  <2> QED
    BY ZenonT(30), <2>1, <2>2, <2>3
<1> HIDE DEF u
<1>4. /\ \A x, y \in owed : x = y
      /\ \A x \in owed : /\ x.op = Op(x.op.kind, x.op.generation, x.op.sequence)
                         /\ x.op.kind = "RunCancel"
                         /\ x.op.generation \in Generations
                         /\ x.op.generation = task.generation
  BY Zenon, <1>2, OwedByTaskOK DEF TaskKeeps
<1>5. /\ \A d \in D : d.op.kind # "Proposal"
      /\ \A b, c \in L : b = c
      /\ \A b \in L : /\ ~Logged(b.op) /\ b.op.generation \in Generations
                      /\ b.op.kind # "Assignment" /\ DecidesAgain(b)
  BY ZenonT(30)
<1>6. /\ TaskKeeps(task, task')
      /\ \A h \in Generations : MayAct(h)' /\ h \in Escrows(task) => h \in Escrows(task')
  BY Zenon, <1>1, <1>2, <1>3
<1> HIDE DEF owed, D, L
<1> QED
  BY Zenon, <1>1, <1>4, <1>5, <1>6, TaskStepKeeps

\* The run's settlement of a top-up, a settlement or a return.
LEMMA SettleLedgerKeepsInv ==
    ASSUME IInv, NEW e \in pending, NEW answer,
           e.op.kind \in {"TopUp", "Settlement", "Return"}, SettleAtRun(e, answer)
    PROVE  IInv'
<1> DEFINE g == e.op.generation
           r == runs[g]
           s == SettledRun(r, e.op.kind, answer)
           owed == OwedByRun(g, s)
           D == {e}
           L == {}
<1>1. g \in Generations /\ Exists(g) /\ RunInv(r)
  BY ZenonT(30) DEF IInv, ExchangesInv, OwedInv, RunKinds, RunsInv
<1>2. /\ runs' = [runs EXCEPT ![g] = s] /\ task' = task /\ log' = log \cup L
      /\ pending' = (pending \ D) \cup Fresh(owed) /\ forgotten' = forgotten
  BY ZenonT(30) DEF SettleAtRun, Settled
<1>3. StepOK(r, s)
  <2>1. CASE e.op.kind = "TopUp"
    BY ZenonT(30), <1>1, <2>1, CreditKeeps DEF SettledRun
  <2>2. CASE e.op.kind \in {"Settlement", "Return"}
    <3>1. /\ s = [f \in RunFields |-> s[f]]
          /\ s.status = r.status /\ s.phase = r.phase /\ s.reason = r.reason
          /\ s.parked = r.parked /\ s.effect = r.effect /\ s.proposal = r.proposal
          /\ s.turn = r.turn
      BY Zenon, <1>1, <2>2 DEF SettledRun, RunInv, RunFields
    <3> HIDE DEF s
    <3> QED
      BY Zenon, <1>1, <3>1, PromotionKeeps
  <2> QED
    BY Zenon, <2>1, <2>2
<1>4. OwedOK(g, s, owed)
  BY Zenon, OwedByRunOK
<1>5. /\ \A d \in D : d.op.kind # "Proposal"
      /\ \A b, c \in L : b = c
      /\ \A b \in L : /\ ~Logged(b.op) /\ b.op.generation \in Generations
                      /\ b.op.kind \notin {"Proposal", "Assignment"}
  OBVIOUS
<1> HIDE DEF g, s, owed, D, L
<1> QED
  BY Zenon, <1>1, <1>2, <1>3, <1>4, <1>5, RunStepKeeps

\* The invariant holds initially and under every step.
LEMMA InitKeeps == Init => IInv
<1> SUFFICES ASSUME Init PROVE IInv
  BY Zenon
<1>1. TaskInv(task)
  <2>1. /\ task = [f \in TaskFields |-> task[f]]
        /\ task.ledger = [f \in LedgerFields |-> task.ledger[f]]
        /\ task.generation = 0 /\ task.result = NoResult /\ task.assignment = "none"
        /\ task.status = "Created"
    BY ZenonT(30) DEF Init, NewTask, NewLedger, TaskFields, LedgerFields
  <2>2. 0 \in Nat
    BY Zenon
  <2> QED
    BY Zenon, <2>1, <2>2 DEF TaskInv
<1>2. task.result = NoResult
  BY DEF Init, NewTask
<1>3. /\ runs = [g \in Generations |-> NoRun] /\ pending = {} /\ log = {}
      /\ \A g \in Generations : ~Exists(g)
  BY ZenonT(30) DEF Init, Exists
<1>4. RunsInv /\ ExchangesInv /\ OwedInv /\ AnsweredInv /\ EscrowInv
  BY Zenon, <1>3 DEF RunsInv, ExchangesInv, OwedInv, AnsweredInv, EscrowInv, MayAct
<1>5. OutcomeInv
  BY Zenon, <1>2, <1>3, NoGenerationZero DEF OutcomeInv
<1> QED
  BY Zenon, <1>1, <1>4, <1>5 DEF IInv

\* One case per action of Next.
LEMMA NextKeeps ==
    ASSUME IInv, [Next]_vars
    PROVE  IInv'
<1>1. CASE DecideAssignment \/ CancelTask
  BY Zenon, <1>1, TaskStepsKeepInv
<1>2. CASE \E g \in Generations : RunSteps(g)
  BY Zenon, <1>2, RunStepsKeepInv
<1>3. CASE Deliver
  BY ZenonT(30), <1>3, DeliverKeepsInv
<1>4. CASE Settle
  <2>1. PICK e \in pending, a \in log :
          /\ a.op = e.op
          /\ \/ e.op.kind \in {"Assignment", "RunCancel"} /\ SettleAtTask(e, a.answer)
             \/ e.op.kind \notin {"Assignment", "RunCancel"} /\ SettleAtRun(e, a.answer)
    BY ZenonT(30), <1>4 DEF Settle
  <2>2. e.op.kind \in RunKinds \cup {"Assignment", "RunCancel"}
    BY DEF IInv, ExchangesInv
  <2> QED
    BY <2>1, <2>2, SettleAtTaskKeepsInv, SettleProposalKeepsInv, SettleLedgerKeepsInv
    DEF RunKinds
<1>5. CASE Forget
  BY Zenon, <1>5, ForgetKeepsInv
<1>6. CASE UNCHANGED vars
  <2>1. /\ task' = task /\ runs' = runs /\ pending' = pending /\ log' = log
        /\ forgotten' = forgotten
    BY Zenon, <1>6 DEF vars
  <2>2. TaskInv(task)' /\ RunsInv' /\ ExchangesInv' /\ OwedInv' /\ AnsweredInv'
    BY Zenon, <2>1 DEF IInv, TaskInv, Escrows, TaskIsTerminal, Generations, RunsInv, Exists,
                ExchangesInv, OwedInv, AnsweredInv
  <2>3. EscrowInv'
    BY ZenonT(30), <2>1 DEF IInv, EscrowInv, MayAct, Exists, Escrows, Generations
  <2>4. OutcomeInv'
    <3>1. \A g \in Generations : DecisionOnTheWay(g) => DecisionOnTheWay(g)'
      BY Zenon, <2>1 DEF DecisionOnTheWay, Logged, SaysAccepted, SaysCompleted
    <3>2. \A g \in Generations : RefusedAgain(g) => RefusedAgain(g)'
      BY Zenon, <2>1 DEF RefusedAgain, JudgedAgain, Exists
    <3> QED
      BY Zenon, <2>1, <3>1, <3>2 DEF IInv, OutcomeInv, Exists, Generations
  <2> QED
    BY Zenon, <2>2, <2>3, <2>4 DEF IInv
<1> QED
  BY Zenon, <1>1, <1>2, <1>3, <1>4, <1>5, <1>6 DEF Next

\* The invariant holds for every budget, limit and number of attempts, and
\* whichever answers the bounded logs forget.
THEOREM Inductive == Spec => []IInv
<1>1. IInv /\ [Next]_vars => IInv'
  BY Zenon, NextKeeps
<1> QED
  BY <1>1, InitKeeps, PTL DEF Spec

\* A run ends Completed only when the task took its result, and the run whose
\* result the task took ends Completed unless its answer left the log and the
\* completed task refused the same proposal again (accept_result, settle_proposal,
\* push_resolved), however a cancellation, a rejection, a refusal or a budget that
\* ran out crossed it.
THEOREM ResultsAgree == Spec => []OutcomesAgree
<1>1. IInv => OutcomesAgree
  <2> SUFFICES ASSUME IInv, NEW g \in Generations, Exists(g)
               PROVE  /\ runs[g].status = "Completed" =>
                            task.status = "Completed" /\ task.result = g
                      /\ IsTerminal(runs[g]) /\ task.result = g =>
                            \/ runs[g].status = "Completed"
                            \/ JudgedAgain(g) /\ runs[g].reason = "RefusedByCompletedTask"
    BY Zenon DEF OutcomesAgree
  <2>1. task.result = g => task.status = "Completed"
    BY Zenon, NoGenerationZero DEF IInv, TaskInv
  <2>2. IsTerminal(runs[g]) => ~DecisionOnTheWay(g)
    BY Zenon DEF IInv, OwedInv, DecisionOnTheWay
  <2> QED
    BY Zenon, <2>1, <2>2 DEF IInv, OutcomeInv, RefusedAgain
<1> QED
  BY <1>1, Inductive, PTL

\* A task that reports Cancelled has every escrow back, every run ended and no
\* effect of a turn outstanding (finalize_task_cancellation).
THEOREM CancelledHasNoWork == Spec => []CancelledIsQuiescent
<1>1. IInv => CancelledIsQuiescent
  BY Zenon DEF IInv, TaskInv, Escrows, EscrowInv, MayAct, RunsInv, RunInv, BlocksSettlement,
         CancelledIsQuiescent
<1> QED
  BY <1>1, Inductive, PTL

\* What the settle pass's sweep of a requested cancellation would still have to
\* advance (settle_requested_cancellation): a closed ledger to finalize, or a
\* cancel the accepted run was never sent.
NothingToSweep ==
    task.cancelling /\ ~TaskIsTerminal(task) =>
        /\ Escrows(task) # {}
        /\ task.assignment = "Accepted" => HasInitiated(Op("RunCancel", task.generation, 0))

LEMMA FinalizeLeavesEscrow ==
    ASSUME NEW t, t = [f \in TaskFields |-> t[f]],
           NEW u, u = FinalizeCancellation(t), ~TaskIsTerminal(u), u.cancelling
    PROVE  u = t /\ Escrows(t) # {}
<1>1. CASE t.cancelling /\ ~TaskIsTerminal(t) /\ DOMAIN t.ledger.outstanding = {}
  <2>1. u.status = "Cancelled"
    BY Zenon, <1>1 DEF FinalizeCancellation, EndTask, TaskFields
  <2> QED
    BY Zenon, <2>1 DEF TaskIsTerminal, TerminalTaskStatus
<1>2. CASE ~(t.cancelling /\ ~TaskIsTerminal(t) /\ DOMAIN t.ledger.outstanding = {})
  BY Zenon, <1>2 DEF FinalizeCancellation, Escrows
<1> QED
  BY Zenon, <1>1, <1>2

\* An exchange once initiated stays so: pending, or settled.
LEMMA InitiatedStays ==
    ASSUME NEW owed,
           \/ pending' = pending \cup Fresh(owed) /\ settled' = settled
           \/ \E e \in pending : Settled(e, owed)
    PROVE  /\ \A op : HasInitiated(op) => HasInitiated(op)'
           /\ \A x \in owed : HasInitiated(x.op)'
BY DEF HasInitiated, Fresh, Settled

\* A commit that owes what the task owes leaves the sweep nothing.
LEMMA CommitSweeps ==
    ASSUME \A x \in OwedByTask(task') : HasInitiated(x.op)',
           task'.cancelling /\ ~TaskIsTerminal(task') => Escrows(task') # {}
    PROVE  NothingToSweep'
BY Zenon DEF NothingToSweep, OwedByTask, OwesRunCancel, Envelope, TaskIsTerminal, Escrows

\* Neither does one that keeps the assignment and an open escrow.
LEMMA QuietCommitSweeps ==
    ASSUME NothingToSweep, \A op : HasInitiated(op) => HasInitiated(op)',
           task'.cancelling /\ ~TaskIsTerminal(task') =>
               /\ task.cancelling /\ ~TaskIsTerminal(task) /\ Escrows(task') # {}
               /\ task'.assignment = task.assignment /\ task'.generation = task.generation
    PROVE  NothingToSweep'
BY Zenon DEF NothingToSweep, TaskIsTerminal, Escrows

LEMMA TaskAnswersSweep ==
    ASSUME TaskInv(task), NothingToSweep, NEW e \in pending,
           ApplyProposal(e) \/ ApplyLedgerExchange(e)
    PROVE  NothingToSweep'
<1>1. \A op : HasInitiated(op) => HasInitiated(op)'
  BY Zenon DEF ApplyProposal, ApplyLedgerExchange, AppliedAtTask, HasInitiated
<1>2. CASE ApplyProposal(e)
  <2>1. CASE task' = task
    BY Zenon, <1>1, <2>1, QuietCommitSweeps DEF NothingToSweep
  <2>2. CASE /\ ~task.cancelling
             /\ task' = AcceptResult(task, e.op.generation) \/ task' = RejectResult(task)
    <3>1. ~task'.cancelling
      BY Zenon, <2>2 DEF AcceptResult, RejectResult, EndTask, TaskInv, TaskFields
    <3> QED
      BY Zenon, <3>1 DEF NothingToSweep
  <2>3. \/ task' = task
        \/ /\ ProposalGate(task, e.op.generation) = "open"
           /\ task' = AcceptResult(task, e.op.generation) \/ task' = RejectResult(task)
    BY <1>2, Zenon DEF ApplyProposal, AppliedAtTask
  <2>4. ProposalGate(task, e.op.generation) = "open" => ~task.cancelling
    BY DEF ProposalGate, TaskIsTerminal, TerminalTaskStatus
  <2> QED
    BY ZenonT(30), <2>1, <2>2, <2>3, <2>4
<1>3. CASE ApplyLedgerExchange(e)
  <2>1. PICK u : /\ u = [f \in TaskFields |-> u[f]] /\ task' = FinalizeCancellation(u)
                 /\ u.cancelling = task.cancelling /\ u.status = task.status
                 /\ u.assignment = task.assignment /\ u.generation = task.generation
    <3>1. ASSUME NEW l
          PROVE  LET v == [task EXCEPT !.ledger = l]
                 IN  /\ v = [f \in TaskFields |-> v[f]]
                     /\ v.cancelling = task.cancelling /\ v.status = task.status
                     /\ v.assignment = task.assignment /\ v.generation = task.generation
      BY DEF TaskInv, TaskFields
    <3>2. \/ task' = FinalizeCancellation(task)
          \/ \E l : task' = FinalizeCancellation([task EXCEPT !.ledger = l])
      BY Zenon, <1>3 DEF ApplyLedgerExchange, AppliedAtTask, ApplySettlement, ApplyReturn, ApplyTopUp
    <3> QED
      BY Zenon, <3>1, <3>2 DEF TaskInv
  <2>2. task'.cancelling /\ ~TaskIsTerminal(task') =>
            task' = u /\ Escrows(u) # {} /\ ~TaskIsTerminal(u)
    BY <2>1, FinalizeLeavesEscrow
  <2> QED
    BY Zenon, <1>1, <2>1, <2>2, QuietCommitSweeps DEF TaskIsTerminal
<1> QED
  BY Zenon, <1>2, <1>3

LEMMA SettleSweeps ==
    ASSUME TaskInv(task), NEW e \in pending, NEW answer, SettleAtTask(e, answer)
    PROVE  NothingToSweep'
<1>1. Settled(e, OwedByTask(task'))
  BY DEF SettleAtTask
<1>2. PICK u : u = [f \in TaskFields |-> u[f]] /\ task' = FinalizeCancellation(u)
  <2>1. ASSUME NEW a, NEW s, NEW l
        PROVE  /\ LET v == [task EXCEPT !.assignment = a, !.status = s]
                  IN  v = [f \in TaskFields |-> v[f]]
               /\ LET v == [task EXCEPT !.assignment = a, !.status = s, !.ledger = l]
                  IN  v = [f \in TaskFields |-> v[f]]
    BY Zenon DEF TaskInv, TaskFields
  <2>2. \/ task' = FinalizeCancellation(task)
        \/ \E a, s : task' = FinalizeCancellation([task EXCEPT !.assignment = a, !.status = s])
        \/ \E a, s, l : task' = FinalizeCancellation(
                            [task EXCEPT !.assignment = a, !.status = s, !.ledger = l])
    BY Zenon DEF SettleAtTask, SettleAssignment
  <2> QED
    BY Zenon, <2>1, <2>2 DEF TaskInv
<1>3. \A x \in OwedByTask(task') : HasInitiated(x.op)'
  BY Zenon, <1>1, InitiatedStays
<1>4. task'.cancelling /\ ~TaskIsTerminal(task') => Escrows(task') # {}
  BY <1>2, FinalizeLeavesEscrow
<1> QED
  BY ZenonT(30), <1>3, <1>4, CommitSweeps

LEMMA RequestSweeps ==
    ASSUME TaskInv(task), CancelTask
    PROVE  NothingToSweep'
<1> DEFINE u == [task EXCEPT !.cancelling = TRUE]
<1>1. /\ task' = FinalizeCancellation(u) /\ CommitTask(task', OwedByTask(task'))
  BY DEF CancelTask, CommitTask, RequestCancellation
<1>2. u = [f \in TaskFields |-> u[f]]
  BY Zenon DEF TaskInv, TaskFields
<1> HIDE DEF u
<1>3. \A x \in OwedByTask(task') : HasInitiated(x.op)'
  BY Zenon, <1>1, InitiatedStays DEF CommitTask
<1>4. task'.cancelling /\ ~TaskIsTerminal(task') => Escrows(task') # {}
  BY <1>1, <1>2, FinalizeLeavesEscrow
<1> QED
  BY Zenon, <1>3, <1>4, CommitSweeps

\* A step that leaves the task's record alone.
LEMMA RunStepSweeps ==
    ASSUME NothingToSweep, task' = task, \A op : HasInitiated(op) => HasInitiated(op)'
    PROVE  NothingToSweep'
BY Zenon, QuietCommitSweeps DEF NothingToSweep

LEMMA NextSweeps ==
    ASSUME TaskInv(task), NothingToSweep, [Next]_vars
    PROVE  NothingToSweep'
<1>1. CASE DecideAssignment
  <2>1. ~task.cancelling
    BY Zenon, <1>1 DEF DecideAssignment, AwaitsAssignment
  <2>2. task' = EndTask(task, "Failed") \/ task' = Offer(task)
    BY Zenon, <1>1 DEF DecideAssignment, CommitTask
  <2>3. ~task'.cancelling
    BY Zenon, <2>1, <2>2 DEF EndTask, Offer, TaskInv, TaskFields
  <2> QED
    BY Zenon, <2>3 DEF NothingToSweep
<1>2. CASE CancelTask
  BY Zenon, <1>2, RequestSweeps
<1>3. CASE \E g \in Generations : RunSteps(g)
  <2>1. PICK g, r, extra : CommitRun(g, r, extra)
    BY Zenon, <1>3 DEF RunSteps, AdvanceRun, DispatchEffects, RecordTurnEffect, RecordPromotionEffect,
                PromoteMemory, ResolveTurnEffect, ResolvePromotion, CancelRun, RunOut
  <2> QED
    BY Zenon, <2>1, InitiatedStays, RunStepSweeps DEF CommitRun
<1>4. CASE Deliver
  <2>1. CASE \E e \in pending : AcceptAssignment(e) \/ AcceptRunCancel(e)
    <3>1. PICK e, r, owed, answer : AppliedAtRun(e, r, owed, answer)
      BY Zenon, <2>1 DEF AcceptAssignment, AcceptRunCancel
    <3> QED
      BY Zenon, <3>1, InitiatedStays, RunStepSweeps DEF AppliedAtRun
  <2> QED
    BY Zenon, <1>4, <2>1, TaskAnswersSweep DEF Deliver, Deliverable
<1>5. CASE Settle
  <2>1. PICK e, answer : e \in pending /\ (SettleAtTask(e, answer) \/ SettleAtRun(e, answer))
    BY Zenon, <1>5 DEF Settle
  <2>2. CASE SettleAtTask(e, answer)
    BY Zenon, <2>1, <2>2, SettleSweeps
  <2>3. CASE SettleAtRun(e, answer)
    <3>1. PICK owed : Settled(e, owed) /\ task' = task
      BY ZenonT(30), <2>3 DEF SettleAtRun
    <3> QED
      BY Zenon, <2>1, <3>1, InitiatedStays, RunStepSweeps
  <2> QED
    BY ZenonT(30), <2>1, <2>2, <2>3
<1>6. CASE Forget \/ UNCHANGED vars
  BY Zenon, <1>6, RunStepSweeps DEF Forget, vars, HasInitiated
<1> QED
  BY ZenonT(30), <1>1, <1>2, <1>3, <1>4, <1>5, <1>6 DEF Next

\* Every commit of the task already does what the settle pass's sweep of a
\* requested cancellation would do (request_task_cancellation, the participant's
\* apply and settle; settle_requested_cancellation): a cancelling task that has
\* not ended holds an escrow open and has owed its accepted run a cancel.
THEOREM SweepIsIdle == Spec => []NothingToSweep
<1>1. Init => NothingToSweep
  BY DEF Init, NewTask, NothingToSweep
<1>2. IInv /\ NothingToSweep /\ [Next]_vars => NothingToSweep'
  BY Zenon, NextSweeps DEF IInv
<1> QED
  BY <1>1, <1>2, Inductive, PTL DEF Spec

\* The books of a task and its runs, for every budget, limit and number of
\* attempts, and whichever answers the bounded logs forget.
THEOREM BooksInductive == Spec => [](IInv /\ MoneyInv)
<1>1. IInv /\ MoneyInv /\ [Next]_vars => IInv' /\ MoneyInv'
  BY Zenon, NextKeeps, NextMoney
<1>2. Init => IInv /\ MoneyInv
  BY Zenon, InitKeeps, InitMoney
<1> QED
  BY <1>1, <1>2, PTL DEF Spec

\* What settled runs consumed plus what unsettled ones were escrowed never exceeds
\* the task's allocation, and a run spends within its escrow (AgentEscrowLedger,
\* AgentRunBudget), however exchanges are redelivered or their answers forgotten.
THEOREM BudgetConserved == Spec => []EscrowConserved
<1>1. IInv /\ MoneyInv => EscrowConserved
  <2> SUFFICES ASSUME IInv, MoneyInv PROVE EscrowConserved
    OBVIOUS
  <2> DEFINE l == task.ledger
  <2>1. l.consumed + SumFunction([g \in Unsettled(l) |-> l.outstanding[g].allocated])
          <= l.allocation
    BY Zenon DEF MoneyInv, LimitInv, Allocated
  <2>2. Unsettled(l) = {g \in DOMAIN l.outstanding : l.outstanding[g].settled = NoAmount}
    BY Zenon DEF Unsettled
  <2>3. ASSUME NEW g \in Unsettled(l), Exists(g)
        PROVE  runs[g].consumed + runs[g].reserved <= l.outstanding[g].allocated
    <3> DEFINE r == runs[g]
    <3>1. g \in Generations
      BY Zenon DEF MoneyInv, Escrows, Unsettled
    <3>2. BudgetInv(r) /\ r.allocation <= l.outstanding[g].allocated
      BY Zenon, <2>3, <3>1 DEF MoneyInv, Book, IsRun, Exists, IsUnsettled, Unsettled
    <3>3. l.outstanding[g].allocated \in Nat
      BY Zenon DEF MoneyInv, LedgerInv, EscrowRecord, Unsettled
    <3> HIDE DEF r
    <3>4. r.consumed + r.reserved <= l.outstanding[g].allocated
      BY <3>2, <3>3 DEF BudgetInv
    <3> QED
      BY Zenon, <3>4 DEF r
  <2> QED
    BY Zenon, <2>1, <2>2, <2>3 DEF EscrowConserved
<1> QED
  BY <1>1, BooksInductive, PTL

\* A live run that waits for no top-up holds what the ledger escrowed for it, and
\* the task is charged no more than its runs consumed (top_up_child, credit,
\* settle_child), however often an exchange is delivered.
THEOREM LedgersAgree == Spec => []BooksAgree
<1>1. IInv /\ MoneyInv => BooksAgree
  <2> SUFFICES ASSUME IInv, MoneyInv PROVE BooksAgree
    OBVIOUS
  <2> DEFINE l == task.ledger
             S == {h \in Generations : Exists(h)}
             T == Charged(l, runs)
             f == [g \in S |-> runs[g].consumed]
             h == [g \in T |-> runs[g].consumed]
  <2>1. ASSUME NEW g \in Generations, Exists(g), ~IsTerminal(runs[g]), ~runs[g].parked
        PROVE  g \in DOMAIN l.outstanding /\ runs[g].allocation = l.outstanding[g].allocated
    BY Zenon, <2>1 DEF MoneyInv, Book, IsRun, Exists, IsUnsettled, LiveBook
  <2>2. \A g \in S : runs[g].consumed \in Nat
    BY Zenon DEF MoneyInv, Book, IsRun, Exists, BudgetInv
  <2>3. T \in SUBSET S
    BY Zenon DEF Charged, IsRun, Exists
  <2>4. Small(S)
    BY Zenon, SmallGenerations
  <2>5. l.consumed <= SumFunction(h) /\ l.consumed \in Nat
    BY Zenon DEF MoneyInv, ChargeInv, LedgerInv
  <2>6. f \in [S -> Nat] /\ h \in [T -> Nat] /\ \A g \in T : h[g] <= f[g]
    BY <2>2, <2>3
  <2> HIDE DEF S, T, f, h
  <2>7. SumFunction(f) \in Nat /\ SumFunction(h) \in Nat /\ SumFunction(h) <= SumFunction(f)
    BY Zenon, <2>3, <2>4, <2>6, SumMonotone
  <2>8. l.consumed <= SumFunction(f)
    BY <2>5, <2>7
  <2> QED
    BY Zenon, <2>1, <2>8 DEF BooksAgree, f, S
<1> QED
  BY <1>1, BooksInductive, PTL

=============================================================================
