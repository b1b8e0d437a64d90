--------------------------- MODULE AgentRunProofs ---------------------------
(***************************************************************************)
(* Lemmas about the records AgentWork is built from, each on its own: the  *)
(* sums an escrow ledger is read through, the transitions of a run, the    *)
(* budget they spend, and the operations of the escrow ledger.             *)
(***************************************************************************)
EXTENDS AgentRunLoop, AgentTaskDecisions, WellFoundedInduction, TLAPS

(***************************************************************************)
(* Sums of natural numbers.                                                *)
(***************************************************************************)
\* Every set of natural numbers has a least element.
LEMMA LeastNat ==
    ASSUME NEW T \in SUBSET Nat, T # {}
    PROVE  \E n \in T : \A m \in T : n <= m
<1>1. IsWellFoundedOn(OpToRel(<, Nat), Nat)
  BY ZenonT(30), NatLessThanWellFounded
<1>2. PICK n \in T : \A m \in T : ~(<<m, n>> \in OpToRel(<, Nat))
  BY ZenonT(30), <1>1, WFMin
<1>3. \A m \in T : ~(m < n)
  BY ZenonT(30), <1>2 DEF OpToRel
<1> QED
  BY <1>3

\* Induction, with the set of the numbers it holds of as a parameter.
LEMMA Induction ==
    ASSUME NEW P \in SUBSET Nat, 0 \in P, \A n \in P : n + 1 \in P
    PROVE  P = Nat
<1> SUFFICES ASSUME Nat \ P # {} PROVE FALSE
  BY ZenonT(30)
<1>1. PICK n \in Nat \ P : \A m \in Nat \ P : n <= m
  BY ZenonT(30), LeastNat
<1>2. n # 0 /\ n - 1 \in Nat /\ n - 1 \in P
  BY <1>1
<1> QED
  BY <1>1, <1>2

\* S has at most n elements.
AtMost(n, S) == \E f \in [S -> 1..n] : \A x, y \in S : f[x] = f[y] => x = y

Small(S) == \E n \in Nat : AtMost(n, S)

LEMMA FewerElements ==
    ASSUME NEW n \in Nat, NEW S
    PROVE  /\ AtMost(0, S) => S = {}
           /\ AtMost(n, S) => \A T \in SUBSET S : AtMost(n, T)
           /\ AtMost(n + 1, S) => \A x \in S : AtMost(n, S \ {x})
<1>1. AtMost(0, S) => S = {}
  BY DEF AtMost
<1>2. ASSUME NEW T \in SUBSET S, AtMost(n, S) PROVE AtMost(n, T)
  <2>1. PICK f \in [S -> 1..n] : \A x, y \in S : f[x] = f[y] => x = y
    BY Zenon, <1>2 DEF AtMost
  <2> DEFINE g == [x \in T |-> f[x]]
  <2>2. g \in [T -> 1..n] /\ \A x, y \in T : g[x] = g[y] => x = y
    BY <2>1
  <2> QED
    BY Zenon, <2>2 DEF AtMost
<1>3. ASSUME NEW x \in S, AtMost(n + 1, S) PROVE AtMost(n, S \ {x})
  <2>1. PICK f \in [S -> 1..(n + 1)] : \A y, z \in S : f[y] = f[z] => y = z
    BY Zenon, <1>3 DEF AtMost
  <2> DEFINE g == [y \in S \ {x} |-> IF f[y] = n + 1 THEN f[x] ELSE f[y]]
  <2>2. \A y \in S \ {x} : f[y] # f[x] /\ f[y] \in 1..(n + 1) /\ f[x] \in 1..(n + 1)
    BY <2>1
  <2>3. g \in [S \ {x} -> 1..n]
    BY <2>2
  <2>4. \A y, z \in S \ {x} : g[y] = g[z] => y = z
    BY <2>1, <2>2
  <2> QED
    BY Zenon, <2>3, <2>4 DEF AtMost
<1> QED
  BY Zenon, <1>1, <1>2, <1>3

LEMMA SmallSets ==
    ASSUME NEW S, Small(S)
    PROVE  \A T \in SUBSET S : Small(T)
BY Zenon, FewerElements DEF Small

LEMMA SmallWith ==
    ASSUME NEW S, Small(S), NEW x
    PROVE  Small(S \cup {x})
<1>0. PICK n \in Nat : AtMost(n, S)
  BY Zenon DEF Small
<1>1. PICK f \in [S -> 1..n] : \A y, z \in S : f[y] = f[z] => y = z
  BY Zenon, <1>0 DEF AtMost
<1> DEFINE g == [y \in S \cup {x} |-> IF y \in S THEN f[y] ELSE n + 1]
<1>2. /\ n + 1 \in Nat /\ g \in [S \cup {x} -> 1..(n + 1)]
      /\ \A y, z \in S \cup {x} : g[y] = g[z] => y = z
  BY <1>1
<1> QED
  BY Zenon, <1>2 DEF Small, AtMost

LEMMA SmallIntervals ==
    ASSUME NEW n \in Nat, NEW S \in SUBSET (1..n)
    PROVE  Small(S)
<1> DEFINE f == [x \in S |-> x]
<1>1. f \in [S -> 1..n] /\ \A x, y \in S : f[x] = f[y] => x = y
  OBVIOUS
<1> QED
  BY Zenon, <1>1 DEF Small, AtMost

\* Induction on the size of a set, with the family of the sets it holds of as a
\* parameter.
LEMMA SizeInduction ==
    ASSUME NEW S, Small(S), NEW P \in SUBSET SUBSET S, {} \in P,
           \A s \in SUBSET S : s # {} /\ (\A x \in s : s \ {x} \in P) => s \in P
    PROVE  P = SUBSET S
<1> DEFINE N == {n \in Nat : \A s \in SUBSET S : AtMost(n, s) => s \in P}
<1>1. 0 \in N
  BY Zenon, FewerElements
<1>2. ASSUME NEW n \in N PROVE n + 1 \in N
  <2>1. n \in Nat /\ n + 1 \in Nat /\ \A s \in SUBSET S : AtMost(n, s) => s \in P
    BY <1>2
  <2>2. ASSUME NEW s \in SUBSET S, AtMost(n + 1, s) PROVE s \in P
    <3>1. \A x \in s : s \ {x} \in SUBSET S /\ AtMost(n, s \ {x})
      BY Zenon, <2>1, <2>2, FewerElements
    <3> QED
      BY Zenon, <2>1, <3>1
  <2> QED
    BY Zenon, <2>1, <2>2
<1>3. N = Nat
  <2>1. N \in SUBSET Nat
    OBVIOUS
  <2> HIDE DEF N
  <2> QED
    BY Zenon, <1>1, <1>2, <2>1, Induction
<1>4. PICK n \in Nat : AtMost(n, S)
  BY Zenon DEF Small
<1>5. \A s \in SUBSET S : AtMost(n, s)
  BY Zenon, <1>4, FewerElements
<1> QED
  BY Zenon, <1>3, <1>4, <1>5

\* The element a fold takes next.
Pick(s) == CHOOSE x \in s : TRUE

\* The sums of f over the subsets of S, taking the elements in the order of the fold.
IsFold(S, f, h) ==
    h = [s \in SUBSET S |-> IF s = {} THEN 0 ELSE f[Pick(s)] + h[s \ {Pick(s)}]]

\* The same for the subsets of at most n elements.
FoldsUpTo(n, S, f, h) ==
    /\ h \in [SUBSET S -> Nat]
    /\ \A s \in SUBSET S : AtMost(n, s) =>
          h[s] = IF s = {} THEN 0 ELSE f[Pick(s)] + h[s \ {Pick(s)}]

\* The same in any order.
IsSum(S, f, h) ==
    /\ h \in [SUBSET S -> Nat] /\ h[{}] = 0
    /\ \A s \in SUBSET S : \A x \in s : h[s] = f[x] + h[s \ {x}]

LEMMA Picks ==
    ASSUME NEW s, s # {}
    PROVE  Pick(s) \in s
BY Zenon DEF Pick

\* A fold that is known for small sets is known for sets of one more element.
LEMMA FoldGrows ==
    ASSUME NEW S, Small(S), NEW f \in [S -> Nat], NEW n \in Nat, NEW g,
           FoldsUpTo(n, S, f, g)
    PROVE  \E h : FoldsUpTo(n + 1, S, f, h)
<1> DEFINE h == [s \in SUBSET S |-> IF s = {} THEN 0 ELSE f[Pick(s)] + g[s \ {Pick(s)}]]
<1>1. g \in [SUBSET S -> Nat]
  BY DEF FoldsUpTo
<1>2. ASSUME NEW s \in SUBSET S
      PROVE  h[s] \in Nat /\ h[s] = IF s = {} THEN 0 ELSE f[Pick(s)] + g[s \ {Pick(s)}]
  <2>1. s = {} \/ (f[Pick(s)] \in Nat /\ g[s \ {Pick(s)}] \in Nat)
    BY <1>1, Picks
  <2> QED
    BY <2>1
<1>3. h \in [SUBSET S -> Nat]
  BY Zenon, <1>2
<1> HIDE DEF h
<1>4. \A s \in SUBSET S : AtMost(n, s) => h[s] = g[s]
  BY Zenon, <1>2 DEF FoldsUpTo
<1>5. ASSUME NEW s \in SUBSET S, AtMost(n + 1, s), s # {}
      PROVE  h[s] = f[Pick(s)] + h[s \ {Pick(s)}]
  <2>1. s \ {Pick(s)} \in SUBSET S /\ AtMost(n, s \ {Pick(s)})
    BY Zenon, <1>5, Picks, FewerElements
  <2> QED
    BY Zenon, <1>2, <1>4, <1>5, <2>1
<1>6. FoldsUpTo(n + 1, S, f, h)
  BY Zenon, <1>2, <1>3, <1>5 DEF FoldsUpTo
<1> QED
  BY Zenon, <1>6

LEMMA FoldExists ==
    ASSUME NEW S, Small(S), NEW f \in [S -> Nat]
    PROVE  \E h : h \in [SUBSET S -> Nat] /\ IsFold(S, f, h)
<1> DEFINE P == {n \in Nat : \E h : FoldsUpTo(n, S, f, h)}
<1>1. 0 \in P
  <2> DEFINE h == [s \in SUBSET S |-> 0]
  <2>1. h \in [SUBSET S -> Nat] /\ \A s \in SUBSET S : h[s] = 0
    OBVIOUS
  <2> HIDE DEF h
  <2>2. ASSUME NEW s \in SUBSET S, AtMost(0, s) PROVE s = {}
    BY <2>2, FewerElements
  <2>3. FoldsUpTo(0, S, f, h)
    BY <2>1, <2>2 DEF FoldsUpTo
  <2> QED
    BY Zenon, <2>3
<1>2. ASSUME NEW n \in P PROVE n + 1 \in P
  <2>1. n \in Nat /\ n + 1 \in Nat /\ \E g : FoldsUpTo(n, S, f, g)
    OBVIOUS
  <2> QED
    BY Zenon, <2>1, FoldGrows
<1>3. PICK n \in Nat : AtMost(n, S)
  BY Zenon DEF Small
<1>4. P = Nat
  <2>1. P \in SUBSET Nat
    OBVIOUS
  <2> HIDE DEF P
  <2> QED
    BY Zenon, <1>1, <1>2, <2>1, Induction
<1>5. PICK h : FoldsUpTo(n, S, f, h)
  BY Zenon, <1>4
<1>6. h \in [SUBSET S -> Nat]
  BY <1>5 DEF FoldsUpTo
<1>7. ASSUME NEW s \in SUBSET S
      PROVE  h[s] = IF s = {} THEN 0 ELSE f[Pick(s)] + h[s \ {Pick(s)}]
  <2>1. AtMost(n, s)
    BY Zenon, <1>3, FewerElements
  <2> QED
    BY Zenon, <1>5, <2>1 DEF FoldsUpTo
<1>8. IsFold(S, f, h)
  BY <1>6, <1>7 DEF IsFold
<1> QED
  BY Zenon, <1>6, <1>8

\* The order in which a fold takes the elements does not matter.
LEMMA FoldIsSum ==
    ASSUME NEW S, Small(S), NEW f \in [S -> Nat], NEW h \in [SUBSET S -> Nat],
           IsFold(S, f, h)
    PROVE  IsSum(S, f, h)
<1> DEFINE P == {s \in SUBSET S : \A x \in s : h[s] = f[x] + h[s \ {x}]}
<1>1. h[{}] = 0
  BY DEF IsFold
<1>2. ASSUME NEW s \in SUBSET S, s # {}
      PROVE  Pick(s) \in s /\ h[s] = f[Pick(s)] + h[s \ {Pick(s)}]
  BY Zenon, <1>2, Picks DEF IsFold
<1>3. {} \in P
  OBVIOUS
<1>4. ASSUME NEW s \in SUBSET S, s # {}, \A x \in s : s \ {x} \in P PROVE s \in P
  <2> SUFFICES ASSUME NEW x \in s PROVE h[s] = f[x] + h[s \ {x}]
    BY <1>4
  <2> DEFINE p == Pick(s)
  <2>1. p \in s /\ h[s] = f[p] + h[s \ {p}]
    BY Zenon, <1>2, <1>4
  <2> HIDE DEF p
  <2>2. CASE x = p
    BY <2>1, <2>2
  <2>3. CASE x # p
    <3>1. h[s \ {p}] = f[x] + h[(s \ {p}) \ {x}] /\ h[s \ {x}] = f[p] + h[(s \ {x}) \ {p}]
      BY Zenon, <1>4, <2>1, <2>3
    <3>2. (s \ {p}) \ {x} = (s \ {x}) \ {p} /\ (s \ {p}) \ {x} \in SUBSET S
      OBVIOUS
    <3>3. f[x] \in Nat /\ f[p] \in Nat /\ h[(s \ {p}) \ {x}] \in Nat
      BY <2>1, <3>2
    <3>4. h[(s \ {x}) \ {p}] = h[(s \ {p}) \ {x}]
      BY Zenon, <3>2
    <3> HIDE DEF P
    <3> QED
      BY <2>1, <3>1, <3>3, <3>4
  <2> QED
    BY <2>2, <2>3
<1>5. P = SUBSET S
  <2>1. P \in SUBSET SUBSET S
    OBVIOUS
  <2> HIDE DEF P
  <2> QED
    BY Zenon, <1>3, <1>4, <2>1, SizeInduction
<1> QED
  BY <1>1, <1>5 DEF IsSum

\* SumFunction is the sum over the whole domain.
LEMMA SumsUp ==
    ASSUME NEW S, Small(S), NEW f \in [S -> Nat]
    PROVE  \E h : IsSum(S, f, h) /\ SumFunction(f) = h[S]
<1> DEFINE h == CHOOSE g : IsFold(S, f, g)
<1>1. SumFunction(f) = h[S]
  <2>1. DOMAIN f = S
    OBVIOUS
  <2> QED
    BY <2>1 DEF SumFunction, SumFunctionOnSet, FoldFunctionOnSet, MapThenFoldSet, IsFold, Pick
<1>2. IsFold(S, f, h)
  BY Zenon, FoldExists
<1> HIDE DEF h
<1>3. PICK g : g \in [SUBSET S -> Nat] /\ IsFold(S, f, g)
  BY Zenon, FoldExists
<1>4. ASSUME NEW s \in SUBSET S PROVE h[s] = g[s]
  <2> DEFINE P == {t \in SUBSET S : h[t] = g[t]}
  <2>1. {} \in P
    BY <1>2, <1>3 DEF IsFold
  <2>2. ASSUME NEW t \in SUBSET S, t # {}, \A x \in t : t \ {x} \in P PROVE t \in P
    <3>1. Pick(t) \in t /\ t \ {Pick(t)} \in P
      BY <2>2, Picks
    <3>2. h[t] = f[Pick(t)] + h[t \ {Pick(t)}] /\ g[t] = f[Pick(t)] + g[t \ {Pick(t)}]
      BY Zenon, <1>2, <1>3, <2>2 DEF IsFold
    <3> QED
      BY <3>1, <3>2
  <2>3. P = SUBSET S
    <3>1. P \in SUBSET SUBSET S
      OBVIOUS
    <3> HIDE DEF P
    <3> QED
      BY Zenon, <2>1, <2>2, <3>1, SizeInduction
  <2> QED
    BY <2>3
<1>5. h = g
  BY Zenon, <1>2, <1>3, <1>4 DEF IsFold
<1> QED
  BY Zenon, <1>1, <1>3, <1>5, FoldIsSum

LEMMA SumEmpty ==
    ASSUME NEW f \in [{} -> Nat]
    PROVE  SumFunction(f) = 0
<1>1. Small({})
  BY SmallIntervals
<1> QED
  BY Zenon, <1>1, SumsUp DEF IsSum

\* A smaller function on a smaller domain has a smaller sum.
LEMMA SumMonotone ==
    ASSUME NEW S, Small(S), NEW f \in [S -> Nat], NEW T \in SUBSET S,
           NEW g \in [T -> Nat], \A x \in T : g[x] <= f[x]
    PROVE  /\ SumFunction(f) \in Nat /\ SumFunction(g) \in Nat
           /\ SumFunction(g) <= SumFunction(f)
<1>1. PICK h : IsSum(S, f, h) /\ SumFunction(f) = h[S]
  BY Zenon, SumsUp
<1>2. Small(T)
  BY SmallSets
<1>3. PICK k : IsSum(T, g, k) /\ SumFunction(g) = k[T]
  BY Zenon, <1>2, SumsUp
<1>4. h \in [SUBSET S -> Nat] /\ k \in [SUBSET T -> Nat] /\ h[{}] = 0 /\ k[{}] = 0
  BY <1>1, <1>3 DEF IsSum
<1> DEFINE P == {s \in SUBSET S : k[s \cap T] <= h[s]}
<1>5. {} \in P
  BY <1>4
<1>6. ASSUME NEW s \in SUBSET S, s # {}, \A x \in s : s \ {x} \in P PROVE s \in P
  <2>1. PICK x \in s : TRUE
    BY <1>6
  <2>2. h[s] = f[x] + h[s \ {x}] /\ k[(s \ {x}) \cap T] <= h[s \ {x}]
    BY Zenon, <1>1, <1>6, <2>1 DEF IsSum
  <2>3. f[x] \in Nat /\ h[s \ {x}] \in Nat /\ k[(s \ {x}) \cap T] \in Nat
    BY <1>4, <2>1
  <2>4. CASE x \in T
    <3>1. s \cap T \in SUBSET T /\ x \in s \cap T /\ (s \cap T) \ {x} = (s \ {x}) \cap T
      BY <2>4
    <3>2. k[s \cap T] = g[x] + k[(s \ {x}) \cap T]
      BY Zenon, <1>3, <3>1 DEF IsSum
    <3>3. g[x] \in Nat /\ g[x] <= f[x]
      BY <2>4
    <3> QED
      BY <2>2, <2>3, <3>2, <3>3
  <2>5. CASE x \notin T
    <3>1. (s \ {x}) \cap T = s \cap T
      BY <2>5
    <3>2. k[(s \ {x}) \cap T] = k[s \cap T]
      BY Zenon, <3>1
    <3> HIDE DEF P
    <3>3. k[s \cap T] <= h[s]
      BY <2>2, <2>3, <3>2
    <3> QED
      BY Zenon, <3>3 DEF P
  <2> QED
    BY <2>4, <2>5
<1>7. P = SUBSET S
  <2>1. P \in SUBSET SUBSET S
    OBVIOUS
  <2> HIDE DEF P
  <2> QED
    BY Zenon, <1>5, <1>6, <2>1, SizeInduction
<1>8. k[S \cap T] <= h[S] /\ S \cap T = T
  BY <1>7
<1>9. h[S] \in Nat /\ k[T] \in Nat
  BY <1>4
<1> HIDE DEF P
<1> QED
  BY <1>1, <1>3, <1>8, <1>9

SplitsOff(S, f, x) ==
    /\ SumFunction(f) \in Nat /\ SumFunction([y \in S \ {x} |-> f[y]]) \in Nat
    /\ SumFunction(f) = f[x] + SumFunction([y \in S \ {x} |-> f[y]])

\* The sum without one element of the domain.
LEMMA SumWithout ==
    ASSUME NEW S, Small(S), NEW f \in [S -> Nat], NEW x \in S
    PROVE  SplitsOff(S, f, x)
<1> DEFINE T == S \ {x}
           g == [y \in T |-> f[y]]
<1>1. PICK h : IsSum(S, f, h) /\ SumFunction(f) = h[S]
  BY Zenon, SumsUp
<1>2. Small(T) /\ g \in [T -> Nat]
  BY SmallSets
<1>3. PICK k : IsSum(T, g, k) /\ SumFunction(g) = k[T]
  BY Zenon, <1>2, SumsUp
<1>4. h \in [SUBSET S -> Nat] /\ k \in [SUBSET T -> Nat] /\ h[{}] = 0 /\ k[{}] = 0
  BY <1>1, <1>3 DEF IsSum
<1> DEFINE P == {s \in SUBSET T : k[s] = h[s]}
<1>5. {} \in P
  BY <1>4
<1>6. ASSUME NEW s \in SUBSET T, s # {}, \A y \in s : s \ {y} \in P PROVE s \in P
  <2>1. PICK y \in s : TRUE
    BY <1>6
  <2>2. h[s] = f[y] + h[s \ {y}]
    BY Zenon, <1>1, <2>1 DEF IsSum
  <2>3. k[s] = g[y] + k[s \ {y}]
    BY Zenon, <1>3, <2>1 DEF IsSum
  <2> QED
    BY <1>6, <2>1, <2>2, <2>3
<1>7. P = SUBSET T
  <2>1. P \in SUBSET SUBSET T
    OBVIOUS
  <2> HIDE DEF P
  <2> QED
    BY Zenon, <1>2, <1>5, <1>6, <2>1, SizeInduction
<1>8. k[T] = h[T] /\ h[S] = f[x] + h[T] /\ T \in SUBSET S
  BY Zenon, <1>1, <1>7 DEF IsSum
<1> QED
  BY <1>1, <1>3, <1>4, <1>8 DEF SplitsOff

(***************************************************************************)
(* The transitions of a run.                                               *)
(***************************************************************************)
RunFields ==
    {"status", "phase", "reason", "turn", "output", "proposal", "effect", "promotion",
     "allocation", "consumed", "reserved", "topUps", "parked", "settlement", "session"}

LiveStatus ==
    {"Accepted", "Running", "WaitingForEffect", "Cancelling", "WaitingForReconciliation"}

\* What every run record satisfies on its own.
RunInv(r) ==
    /\ r = [f \in RunFields |-> r[f]]
    /\ r.status \in TerminalStatus \cup LiveStatus
    /\ r.parked \in BOOLEAN
    /\ r.parked => /\ ~IsTerminal(r)
                   /\ r.phase \in {"PreparingContext", "EvaluatingModelOutput"}
    /\ r.proposal # "none" /\ ~IsTerminal(r) => r.phase = "DecidingContinuation"
    /\ BlocksSettlement(r.effect) => /\ ~IsTerminal(r)
                                     /\ r.phase \in {"AwaitingModel", "AwaitingTools"}
    /\ r.reason = "ResultAccepted" => r.status = "Completed"

\* What a step may do to a run other than settle its proposal.
StepOK(r, s) ==
    /\ RunInv(s)
    /\ IsTerminal(r) => s.status = r.status /\ s.reason = r.reason /\ s.turn = r.turn
    /\ s.status = "Completed" => r.status = "Completed"
    /\ r.proposal # "none" /\ ~IsTerminal(r) =>
          /\ ~IsTerminal(s) /\ s.proposal = r.proposal /\ s.turn = r.turn

\* Two such steps are one.
LEMMA StepOKChains ==
    ASSUME NEW r, NEW s, NEW t, StepOK(r, s), StepOK(s, t)
    PROVE  StepOK(r, t)
BY DEF StepOK, IsTerminal

\* Ending a run whose turn has no effect in flight.
LEMMA TerminateEnds ==
    ASSUME NEW r, RunInv(r), NEW reason, ~BlocksSettlement(r.effect)
    PROVE  /\ RunInv(Terminate(r, reason))
           /\ IsTerminal(Terminate(r, reason))
           /\ ~IsTerminal(r) => Terminate(r, reason).status = StatusOf(reason)
           /\ IsTerminal(r) => Terminate(r, reason) = r
<1>1. /\ StatusOf(reason) \in TerminalStatus
      /\ reason = "ResultAccepted" => StatusOf(reason) = "Completed"
  BY DEF StatusOf, TerminalStatus
<1>2. CASE IsTerminal(r)
  BY <1>2 DEF Terminate
<1>3. CASE ~IsTerminal(r)
  <2> DEFINE s == Terminate(r, reason)
  <2>1. s = [r EXCEPT !.status = StatusOf(reason), !.phase = "Complete",
                      !.parked = FALSE, !.reason = reason]
    BY <1>3 DEF Terminate
  <2>2. /\ s = [f \in RunFields |-> s[f]]
        /\ s.status = StatusOf(reason) /\ s.parked = FALSE /\ s.reason = reason
        /\ s.effect = r.effect /\ s.proposal = r.proposal
    BY ZenonT(30), <2>1 DEF RunInv, RunFields
  <2>3. IsTerminal(s)
    BY <1>1, <2>2 DEF IsTerminal
  <2> HIDE DEF s
  <2>4. s.parked \in BOOLEAN /\ ~s.parked
    BY Zenon, <2>2
  <2>5. RunInv(s)
    BY <1>1, <2>2, <2>3, <2>4 DEF RunInv
  <2> QED
    BY <1>3, <2>2, <2>3, <2>5 DEF s
<1> QED
  BY <1>2, <1>3

\* Ending a run without a proposal for any reason but an accepted result.
LEMMA TerminateKeeps ==
    ASSUME NEW r, RunInv(r), NEW reason, reason # "ResultAccepted",
           r.proposal = "none", ~BlocksSettlement(r.effect)
    PROVE  StepOK(r, Terminate(r, reason))
<1>1. StatusOf(reason) # "Completed"
  BY DEF StatusOf
<1> QED
  BY <1>1, TerminateEnds DEF StepOK, IsTerminal, TerminalStatus

\* park_or_terminate, where it ends the run.
LEMMA ExhaustKeeps ==
    ASSUME NEW r, RunInv(r), Reserves(r)
    PROVE  StepOK(r, Exhaust(r))
<1> DEFINE s == [r EXCEPT !.session = @ \/ r.phase = "PreparingContext"]
<1>1. /\ s = [f \in RunFields |-> s[f]]
      /\ s.status = r.status /\ s.phase = r.phase /\ s.reason = r.reason
      /\ s.parked = r.parked /\ s.effect = r.effect /\ s.proposal = r.proposal
      /\ s.turn = r.turn
  BY ZenonT(30) DEF RunInv, RunFields
<1>2. Exhaust(r) = Terminate(s, "BudgetExhausted")
  BY DEF Exhaust
<1> HIDE DEF s
<1>3. RunInv(s) /\ StepOK(r, s)
  BY <1>1 DEF StepOK, RunInv, IsTerminal
<1>4. s.proposal = "none" /\ ~BlocksSettlement(s.effect)
  <2>1. r.phase \in {"PreparingContext", "EvaluatingModelOutput"} /\ ~IsTerminal(r)
    BY DEF Reserves, CanAdvance, PermitsProgress, IsTerminal
  <2> QED
    BY <1>1, <2>1 DEF RunInv
<1>5. StepOK(s, Terminate(s, "BudgetExhausted"))
  BY <1>3, <1>4, TerminateKeeps
<1> QED
  BY <1>2, <1>3, <1>5, StepOKChains

\* What settle_run_disposition does to a run keeps it.
LEMMA DispositionKeeps ==
    ASSUME NEW r, RunInv(r)
    PROVE  StepOK(r, SettleDisposition(r))
<1> DEFINE s == SettleDisposition(r)
<1>0. StepOK(r, r)
  BY DEF StepOK
<1>1. ASSUME NEW status \in LiveStatus, ~IsTerminal(r)
      PROVE  StepOK(r, [r EXCEPT !.status = status])
  <2> DEFINE t == [r EXCEPT !.status = status]
  <2>1. /\ t = [f \in RunFields |-> t[f]]
        /\ t.status = status /\ t.phase = r.phase /\ t.reason = r.reason
        /\ t.effect = r.effect /\ t.proposal = r.proposal /\ t.turn = r.turn
        /\ t.parked = r.parked
    BY DEF RunInv, RunFields
  <2> HIDE DEF t
  <2>2. ~IsTerminal(t) /\ t.status # "Completed"
    BY <1>1, <2>1 DEF IsTerminal, LiveStatus, TerminalStatus
  <2>3. RunInv(t)
    BY <1>1, <2>1, <2>2 DEF RunInv, IsTerminal, TerminalStatus
  <2>4. StepOK(r, t)
    BY <1>1, <2>1, <2>2, <2>3 DEF StepOK
  <2> QED
    BY <2>4 DEF t
<1>2. CASE IsTerminal(r) \/ (~HasIndeterminate(r) /\ ~WindingDown(r))
  BY <1>0, <1>2 DEF SettleDisposition
<1>3. CASE ~IsTerminal(r) /\ HasIndeterminate(r)
  BY <1>1, <1>3 DEF SettleDisposition, LiveStatus
<1>4. CASE ~IsTerminal(r) /\ ~HasIndeterminate(r) /\ WindingDown(r)
  <2>1. CASE AwaitsSettlement(r)
    BY <1>1, <1>4, <2>1 DEF SettleDisposition, LiveStatus
  <2>2. CASE ~AwaitsSettlement(r)
    <3> DEFINE reason == IF r.reason = NoReason THEN "CancellationRequested" ELSE r.reason
    <3>1. reason # "ResultAccepted"
      BY <1>4 DEF RunInv, IsTerminal, TerminalStatus
    <3>2. s = Terminate(r, reason)
      BY <1>4, <2>2 DEF SettleDisposition
    <3> HIDE DEF reason
    <3> QED
      BY <2>2, <3>1, <3>2, TerminateKeeps DEF AwaitsSettlement
  <2> QED
    BY <2>1, <2>2
<1> QED
  BY <1>2, <1>3, <1>4
\* cancel
LEMMA CancelKeeps ==
    ASSUME NEW r, RunInv(r), ~IsTerminal(r)
    PROVE  StepOK(r, Cancel(r))
<1> DEFINE t == [FenceUnsent(r) EXCEPT !.status = "Cancelling",
                     !.reason = IF @ = NoReason THEN "CancellationRequested" ELSE @]
<1>1. /\ t = [f \in RunFields |-> t[f]]
      /\ t.status = "Cancelling" /\ t.phase = r.phase
      /\ t.proposal = r.proposal /\ t.turn = r.turn /\ t.parked = r.parked
      /\ t.reason \in {r.reason, "CancellationRequested"}
      /\ t.effect \in {r.effect, "Cancelled"}
  BY Zenon DEF RunInv, RunFields, FenceUnsent
<1>2. Cancel(r) = SettleDisposition(t)
  BY DEF Cancel
<1> HIDE DEF t
<1>3. ~IsTerminal(t) /\ t.status # "Completed" /\ r.reason # "ResultAccepted"
  BY <1>1 DEF IsTerminal, TerminalStatus, RunInv
<1>4. RunInv(t)
  BY <1>1, <1>3 DEF RunInv, IsTerminal, TerminalStatus, LiveStatus, BlocksSettlement,
                    IsOutstanding
<1>5. StepOK(r, t)
  BY <1>1, <1>3, <1>4 DEF StepOK
<1> QED
  BY <1>2, <1>4, <1>5, DispositionKeeps, StepOKChains

\* A promotion moves neither the loop nor the run's end.
LEMMA PromotionKeeps ==
    ASSUME NEW r, RunInv(r), NEW s, s = [f \in RunFields |-> s[f]],
           s.status = r.status, s.phase = r.phase, s.reason = r.reason, s.parked = r.parked,
           s.effect = r.effect, s.proposal = r.proposal, s.turn = r.turn
    PROVE  StepOK(r, s)
BY DEF StepOK, RunInv, IsTerminal

\* advance_once
LEMMA AdvanceKeeps ==
    ASSUME NEW r, RunInv(r), CanAdvance(r)
    PROVE  /\ StepOK(r, Advance(r))
           /\ ~IsTerminal(r) /\ ~IsTerminal(Advance(r))
           /\ Proposes(r) => Advance(r).proposal # "none" /\ Advance(r).turn = r.turn
<1> DEFINE s == Advance(r)
<1>1. /\ ~IsTerminal(r) /\ ~BlocksSettlement(r.effect) /\ r.proposal = "none"
      /\ r.reason # "ResultAccepted" /\ ~r.parked
  BY DEF CanAdvance, PermitsProgress, IsTerminal, RunInv, TerminalStatus
<1>2. s = [f \in RunFields |-> s[f]] /\ s.reason = r.reason /\ s.status \in LiveStatus
  <2>1. CASE r.phase = "PreparingContext"
    BY ZenonT(30), <2>1 DEF Advance, PrepareContext, Park, Reserve, RunInv, RunFields, LiveStatus
  <2>2. CASE r.phase = "EvaluatingModelOutput"
    BY ZenonT(30), <2>2 DEF Advance, EvaluateModelOutput, CommitToolCalls, Park, Reserve, RunInv,
                RunFields, LiveStatus
  <2>3. CASE r.phase = "RecordingTurn"
    BY ZenonT(30), <2>3 DEF Advance, RecordTurn, RunInv, RunFields, LiveStatus
  <2>4. CASE r.phase = "DecidingContinuation"
    BY ZenonT(30), <2>4 DEF Advance, DecideContinuation, ClearTurn, BeginTurn, RunInv, RunFields,
                LiveStatus
  <2> QED
    BY <2>1, <2>2, <2>3, <2>4 DEF CanAdvance
<1>3. CASE r.phase \in {"PreparingContext", "EvaluatingModelOutput"}
  <2>1. /\ s.proposal = r.proposal
        /\ \/ s.parked = TRUE /\ s.phase = r.phase /\ s.effect = r.effect
           \/ s.parked = r.parked /\ s.effect = r.effect
           \/ s.parked = r.parked /\ s.phase \in {"AwaitingModel", "AwaitingTools"}
    BY <1>3 DEF Advance, PrepareContext, EvaluateModelOutput, CommitToolCalls, Park, Reserve, RunInv, RunFields
  <2>2. ~Proposes(r)
    BY <1>3 DEF Proposes
  <2>3. /\ s.parked \in BOOLEAN
        /\ s.parked => s.phase \in {"PreparingContext", "EvaluatingModelOutput"}
    BY Zenon, <1>1, <1>3, <2>1 DEF RunInv
  <2> HIDE DEF s
  <2>4. ~IsTerminal(s) /\ s.status # "Completed"
    BY <1>2 DEF IsTerminal, LiveStatus, TerminalStatus
  <2>5. RunInv(s)
    BY <1>1, <1>2, <2>1, <2>3, <2>4 DEF RunInv
  <2> QED
    BY <1>1, <2>2, <2>4, <2>5 DEF StepOK, s
<1>4. CASE r.phase \in {"RecordingTurn", "DecidingContinuation"}
  <2>1. /\ s.parked = r.parked
        /\ s.effect \in {r.effect, "none"}
        /\ s.proposal # "none" => s.phase = "DecidingContinuation"
        /\ Proposes(r) => s.proposal # "none" /\ s.turn = r.turn
    BY <1>1, <1>4 DEF Advance, RecordTurn, DecideContinuation, Proposes, ClearTurn, Kept,
                 BeginTurn, RunInv, RunFields
  <2> HIDE DEF s
  <2>2. s.parked \in BOOLEAN /\ ~s.parked
    BY <1>1, <2>1 DEF RunInv
  <2>3. ~BlocksSettlement(s.effect)
    BY <1>1, <2>1 DEF BlocksSettlement, IsOutstanding
  <2>4. ~IsTerminal(s) /\ s.status # "Completed"
    BY <1>2 DEF IsTerminal, LiveStatus, TerminalStatus
  <2>5. RunInv(s)
    BY <1>1, <1>2, <2>1, <2>2, <2>3, <2>4 DEF RunInv
  <2> QED
    BY <1>1, <2>1, <2>4, <2>5 DEF StepOK, s
<1> QED
  BY <1>3, <1>4 DEF CanAdvance
\* dispatch_effects
LEMMA MarkReadyKeeps ==
    ASSUME NEW r, RunInv(r)
    PROVE  StepOK(r, MarkReady(r))
<1> DEFINE s == MarkReady(r)
<1>1. /\ s = [f \in RunFields |-> s[f]]
      /\ s.status = r.status /\ s.phase = r.phase /\ s.reason = r.reason /\ s.parked = r.parked
      /\ s.proposal = r.proposal /\ s.turn = r.turn
      /\ s.effect = r.effect \/ r.effect = "Pending"
  BY Zenon DEF MarkReady, RunInv, RunFields
<1> HIDE DEF s
<1>2. BlocksSettlement(s.effect) => BlocksSettlement(r.effect)
  BY <1>1 DEF BlocksSettlement, IsOutstanding
<1>3. StepOK(r, s)
  BY <1>1, <1>2 DEF StepOK, RunInv, IsTerminal
<1> QED
  BY <1>3 DEF s

\* apply_effect_outcome, on the effect of the turn of a live run.
LEMMA OutcomeKeeps ==
    ASSUME NEW r, RunInv(r), ~IsTerminal(r), r.effect \in {"Ready", "Indeterminate"},
           NEW outcome \in {"Succeeded", "Failed", "Indeterminate", "Cancelled"}, NEW output
    PROVE  StepOK(r, ApplyTurnOutcome(r, outcome, output))
<1> DEFINE s == ApplyTurnOutcome(r, outcome, output)
<1>1. /\ r.proposal = "none" /\ ~r.parked /\ r.phase \in {"AwaitingModel", "AwaitingTools"}
      /\ r.reason # "ResultAccepted" /\ r.status \in LiveStatus
  BY Zenon DEF RunInv, BlocksSettlement, IsOutstanding, IsTerminal, TerminalStatus
<1>2. /\ s = [f \in RunFields |-> s[f]]
      /\ s.status \in {r.status, "Running"} /\ s.reason \in {r.reason, "EffectFailed"}
      /\ s.parked = r.parked /\ s.proposal = r.proposal
      /\ \/ s.effect = "Indeterminate" /\ s.phase = r.phase
         \/ s.effect \in {"Succeeded", "Failed", "Cancelled"}
  <2>1. CASE outcome = "Succeeded"
    BY ZenonT(30), <2>1 DEF ApplyTurnOutcome, TurnSucceeds, RunInv, RunFields
  <2>2. CASE outcome = "Failed"
    BY ZenonT(30), <2>2 DEF ApplyTurnOutcome, TurnFails, FenceUnsent, RunInv, RunFields
  <2>3. CASE outcome \in {"Indeterminate", "Cancelled"}
    BY <2>3 DEF ApplyTurnOutcome, RunInv, RunFields
  <2> QED
    BY <2>1, <2>2, <2>3
<1> HIDE DEF s
<1>3. s.parked \in BOOLEAN /\ ~s.parked
  BY <1>1, <1>2 DEF RunInv
<1>4. ~IsTerminal(s) /\ s.status # "Completed"
  BY <1>1, <1>2 DEF IsTerminal, LiveStatus, TerminalStatus
<1>5. BlocksSettlement(s.effect) => s.phase \in {"AwaitingModel", "AwaitingTools"}
  BY <1>1, <1>2 DEF BlocksSettlement, IsOutstanding
<1>6. RunInv(s)
  BY <1>1, <1>2, <1>3, <1>4, <1>5 DEF RunInv, LiveStatus
<1>7. StepOK(r, s)
  BY <1>1, <1>4, <1>6 DEF StepOK
<1> QED
  BY <1>7 DEF s

\* AgentRunBudget::settle_effect
LEMMA SettleEffectKeeps ==
    ASSUME NEW r, RunInv(r), NEW made
    PROVE  StepOK(r, SettleEffect(r, made))
<1> DEFINE s == SettleEffect(r, made)
<1>1. /\ s = [f \in RunFields |-> s[f]]
      /\ s.status = r.status /\ s.phase = r.phase /\ s.reason = r.reason /\ s.parked = r.parked
      /\ s.effect = r.effect /\ s.proposal = r.proposal /\ s.turn = r.turn
  BY Zenon DEF SettleEffect, RunInv, RunFields
<1> HIDE DEF s
<1>2. StepOK(r, s)
  BY <1>1, PromotionKeeps
<1> QED
  BY <1>2 DEF s

\* record_effect_result, on the effect of the turn.
LEMMA TurnResultKeeps ==
    ASSUME NEW r, RunInv(r), ~IsTerminal(r), r.effect \in {"Ready", "Indeterminate"},
           NEW outcome \in {"Succeeded", "Failed", "Indeterminate", "Cancelled"}, NEW output,
           NEW made
    PROVE  /\ StepOK(r, RecordTurnResult(r, outcome, output, made))
           /\ StepOK(r, ConfirmTurnExecuted(r, outcome, output))
<1> DEFINE s == ApplyTurnOutcome(r, outcome, output)
           t == SettleEffect(s, made)
<1>1. /\ RecordTurnResult(r, outcome, output, made) = SettleDisposition(t)
      /\ ConfirmTurnExecuted(r, outcome, output) = SettleDisposition(s)
  BY DEF RecordTurnResult, ConfirmTurnExecuted
<1>2. StepOK(r, s)
  BY OutcomeKeeps
<1> HIDE DEF s
<1>3. StepOK(s, t)
  BY <1>2, SettleEffectKeeps DEF StepOK
<1> HIDE DEF t
<1>4. StepOK(r, t)
  BY <1>2, <1>3, StepOKChains
<1>5. StepOK(t, SettleDisposition(t)) /\ StepOK(s, SettleDisposition(s))
  BY <1>2, <1>3, DispositionKeeps DEF StepOK
<1> QED
  BY <1>1, <1>2, <1>4, <1>5, StepOKChains

\* record_effect_result, promote_memory and the resolution of an indeterminate
\* promotion.
LEMMA PromotionStepsKeep ==
    ASSUME NEW r, RunInv(r), NEW outcome, NEW made
    PROVE  /\ StepOK(r, Promote(r))
           /\ StepOK(r, RecordPromotionResult(r, outcome, made))
           /\ StepOK(r, ConfirmPromotionExecuted(r, outcome))
<1> DEFINE p == Promote(r)
           s == [r EXCEPT !.promotion = outcome]
           t == SettleEffect(s, made)
<1>1. /\ p = [f \in RunFields |-> p[f]]
      /\ p.status = r.status /\ p.phase = r.phase /\ p.reason = r.reason /\ p.parked = r.parked
      /\ p.effect = r.effect /\ p.proposal = r.proposal /\ p.turn = r.turn
  BY Zenon DEF Promote, Reserve, RunInv, RunFields
<1>2. /\ s = [f \in RunFields |-> s[f]]
      /\ s.status = r.status /\ s.phase = r.phase /\ s.reason = r.reason /\ s.parked = r.parked
      /\ s.effect = r.effect /\ s.proposal = r.proposal /\ s.turn = r.turn
  BY DEF RunInv, RunFields
<1>3. /\ RecordPromotionResult(r, outcome, made) = SettleDisposition(t)
      /\ ConfirmPromotionExecuted(r, outcome) = SettleDisposition(s)
      /\ Promote(r) = p
  BY DEF RecordPromotionResult, ConfirmPromotionExecuted
<1> HIDE DEF p, s
<1>4. StepOK(r, p) /\ StepOK(r, s)
  BY <1>1, <1>2, PromotionKeeps
<1>5. StepOK(s, t)
  BY <1>4, SettleEffectKeeps DEF StepOK
<1> HIDE DEF t
<1>6. StepOK(r, t)
  BY <1>4, <1>5, StepOKChains
<1>7. StepOK(t, SettleDisposition(t)) /\ StepOK(s, SettleDisposition(s))
  BY <1>4, <1>5, DispositionKeeps DEF StepOK
<1> QED
  BY <1>3, <1>4, <1>6, <1>7, StepOKChains
\* apply_indeterminate_resolution with ConfirmedNotExecuted.
LEMMA NotExecutedKeeps ==
    ASSUME NEW r, RunInv(r)
    PROVE  /\ ~IsTerminal(r) /\ r.effect = "Indeterminate" =>
                 StepOK(r, ConfirmTurnNotExecuted(r))
           /\ StepOK(r, ConfirmPromotionNotExecuted(r))
<1>1. ASSUME NEW s, s = [f \in RunFields |-> s[f]],
             s.status = r.status \/ (~IsTerminal(r) /\ s.status = "WaitingForEffect"),
             s.phase = r.phase, s.reason = r.reason, s.parked = r.parked,
             s.proposal = r.proposal, s.turn = r.turn,
             BlocksSettlement(s.effect) => BlocksSettlement(r.effect)
      PROVE  StepOK(r, SettleDisposition(s))
  <2>1. /\ IsTerminal(s) <=> IsTerminal(r)
        /\ IsTerminal(r) => s.status = r.status
        /\ s.status = "Completed" => r.status = "Completed"
        /\ r.status = "Completed" => s.status = "Completed"
        /\ s.status \in TerminalStatus \cup LiveStatus
    BY <1>1 DEF IsTerminal, TerminalStatus, LiveStatus, RunInv
  <2>2. RunInv(s)
    BY <1>1, <2>1 DEF RunInv
  <2>3. StepOK(r, s)
    BY <1>1, <2>1, <2>2 DEF StepOK
  <2> QED
    BY <2>2, <2>3, DispositionKeeps, StepOKChains
<1>2. ASSUME ~IsTerminal(r), r.effect = "Indeterminate"
      PROVE  StepOK(r, ConfirmTurnNotExecuted(r))
  <2> DEFINE s == IF Redispatches(r)
                  THEN [Reserve(r) EXCEPT !.effect = "Pending", !.status = RedispatchStatus(r)]
                  ELSE [r EXCEPT !.effect = "Cancelled"]
  <2>1. /\ s = [f \in RunFields |-> s[f]]
        /\ s.status = r.status \/ (~IsTerminal(r) /\ s.status = "WaitingForEffect")
        /\ s.phase = r.phase /\ s.reason = r.reason /\ s.parked = r.parked
        /\ s.proposal = r.proposal /\ s.turn = r.turn
    BY Zenon DEF Reserve, RedispatchStatus, RunInv, RunFields
  <2>2. BlocksSettlement(r.effect)
    BY <1>2 DEF BlocksSettlement
  <2>3. ConfirmTurnNotExecuted(r) = SettleDisposition(s)
    BY DEF ConfirmTurnNotExecuted
  <2> HIDE DEF s
  <2> QED
    BY <1>1, <2>1, <2>2, <2>3
<1>3. StepOK(r, ConfirmPromotionNotExecuted(r))
  <2> DEFINE s == IF Redispatches(r)
                  THEN [Reserve(r) EXCEPT !.promotion = "Pending", !.status = RedispatchStatus(r)]
                  ELSE [r EXCEPT !.promotion = "Cancelled"]
  <2>1. /\ s = [f \in RunFields |-> s[f]]
        /\ s.status = r.status \/ (~IsTerminal(r) /\ s.status = "WaitingForEffect")
        /\ s.phase = r.phase /\ s.reason = r.reason /\ s.parked = r.parked
        /\ s.proposal = r.proposal /\ s.turn = r.turn /\ s.effect = r.effect
    BY Zenon DEF Reserve, RedispatchStatus, RunInv, RunFields
  <2>2. ConfirmPromotionNotExecuted(r) = SettleDisposition(s)
    BY DEF ConfirmPromotionNotExecuted
  <2> HIDE DEF s
  <2> QED
    BY <1>1, <2>1, <2>2
<1> QED
  BY <1>2, <1>3

\* apply_top_up_grant
LEMMA CreditKeeps ==
    ASSUME NEW r, RunInv(r), NEW grant
    PROVE  StepOK(r, CreditTopUp(r, grant))
<1>1. CASE ~r.parked
  BY <1>1 DEF CreditTopUp, StepOK
<1>2. CASE r.parked
  <2> DEFINE c == [r EXCEPT !.allocation = @ + grant, !.topUps = PendingTopUp(r),
                            !.parked = FALSE]
             d == [c EXCEPT !.status = "Running"]
  <2>1. /\ ~IsTerminal(r) /\ ~BlocksSettlement(r.effect) /\ r.proposal = "none"
        /\ r.reason # "ResultAccepted"
    BY <1>2 DEF RunInv, IsTerminal, TerminalStatus
  <2>2. /\ c = [f \in RunFields |-> c[f]]
        /\ c.status = r.status /\ c.phase = r.phase /\ c.reason = r.reason
        /\ c.effect = r.effect /\ c.proposal = r.proposal /\ c.parked = FALSE
    BY Zenon DEF RunInv, RunFields
  <2>3. /\ d = [f \in RunFields |-> d[f]]
        /\ d.status = "Running" /\ d.phase = r.phase /\ d.reason = r.reason
        /\ d.effect = r.effect /\ d.proposal = r.proposal /\ d.parked = FALSE
    BY Zenon DEF RunInv, RunFields
  <2>4. CreditTopUp(r, grant) \in {d, Terminate(c, "BudgetExhausted")}
    BY <1>2 DEF CreditTopUp
  <2> HIDE DEF c, d
  <2>5. c.parked \in BOOLEAN /\ ~c.parked /\ d.parked \in BOOLEAN /\ ~d.parked
    BY Zenon, <2>2, <2>3
  <2>6. StepOK(r, c)
    BY <2>1, <2>2, <2>5 DEF StepOK, RunInv, IsTerminal
  <2>7. d.status # "Completed" /\ d.status \in LiveStatus /\ ~IsTerminal(d)
    BY <2>3 DEF IsTerminal, TerminalStatus, LiveStatus
  <2>8. StepOK(r, d)
    BY Zenon, <2>1, <2>3, <2>5, <2>7 DEF StepOK, RunInv
  <2>9. StepOK(c, Terminate(c, "BudgetExhausted"))
    BY Zenon, <2>1, <2>2, <2>6, TerminateKeeps DEF StepOK
  <2> QED
    BY <2>4, <2>6, <2>8, <2>9, StepOKChains
<1> QED
  BY <1>1, <1>2

\* settle_proposal, for a run that still has its proposal.
LEMMA ProposalSettles ==
    ASSUME NEW r, RunInv(r), ~IsTerminal(r), r.proposal # "none", NEW x
    PROVE  /\ RunInv(ProposalAccepted(r)) /\ ProposalAccepted(r).status = "Completed"
           /\ RunInv(ProposalRejected(r, x)) /\ ProposalRejected(r, x).status # "Completed"
           /\ RunInv(ProposalRefused(r, x)) /\ ProposalRefused(r, x).status # "Completed"
           /\ x = "Completed" => /\ IsTerminal(ProposalRefused(r, x))
                                 /\ ProposalRefused(r, x).reason = "RefusedByCompletedTask"
                                 /\ ProposalRefused(r, x).turn = r.turn
<1>1. /\ ~BlocksSettlement(r.effect) /\ r.reason # "ResultAccepted"
      /\ r.phase = "DecidingContinuation" /\ ~r.parked
  BY DEF RunInv, IsTerminal, TerminalStatus
<1>2. RunInv(ProposalAccepted(r)) /\ ProposalAccepted(r).status = "Completed"
  BY <1>1, TerminateEnds DEF ProposalAccepted, StatusOf
<1>3. ASSUME NEW reason, reason # "ResultAccepted"
      PROVE  RunInv(Terminate(r, reason)) /\ Terminate(r, reason).status # "Completed"
  BY <1>1, <1>3, TerminateEnds DEF StatusOf
<1>4. RunInv(ProposalRejected(r, x)) /\ ProposalRejected(r, x).status # "Completed"
  <2> DEFINE s == BeginTurn(r)
             reason == IF r.reason = NoReason THEN "CancellationRequested" ELSE r.reason
  <2>1. /\ s = [f \in RunFields |-> s[f]]
        /\ s.status = "Running" /\ s.phase = "PreparingContext" /\ s.reason = r.reason
        /\ s.effect = r.effect /\ s.proposal = "none" /\ s.parked = r.parked
    BY Zenon DEF BeginTurn, RunInv, RunFields
  <2>2. ProposalRejected(r, x) \in {s, Terminate(r, reason),
                                    Terminate(r, "ResultRejectionsExhausted")}
    BY DEF ProposalRejected
  <2>3. reason # "ResultAccepted"
    BY <1>1
  <2> HIDE DEF s, reason
  <2>4. ~IsTerminal(s) /\ s.status # "Completed" /\ s.status \in LiveStatus
    BY <2>1 DEF IsTerminal, TerminalStatus, LiveStatus
  <2>5. s.parked \in BOOLEAN /\ ~s.parked
    BY Zenon, <1>1, <2>1 DEF RunInv
  <2>6. RunInv(s)
    BY Zenon, <1>1, <2>1, <2>4, <2>5 DEF RunInv
  <2> QED
    BY <1>3, <2>2, <2>3, <2>4, <2>6
<1>5. RunInv(ProposalRefused(r, x)) /\ ProposalRefused(r, x).status # "Completed"
  <2> DEFINE reason == CASE x = "stale-generation" -> "Superseded"
                         [] x = "Completed"        -> "RefusedByCompletedTask"
                         [] x = "Cancelled"        -> "RefusedByCancelledTask"
                         [] OTHER                  -> "RefusedByTask"
  <2>1. ProposalRefused(r, x) \in {Cancel(r), Terminate(r, reason)}
    BY DEF ProposalRefused
  <2>2. reason # "ResultAccepted"
    OBVIOUS
  <2>3. StepOK(r, Cancel(r)) /\ r.status # "Completed"
    BY CancelKeeps DEF IsTerminal, TerminalStatus
  <2> HIDE DEF reason
  <2> QED
    BY Zenon, <1>3, <2>1, <2>2, <2>3 DEF StepOK
<1>6. ASSUME x = "Completed"
      PROVE  /\ IsTerminal(ProposalRefused(r, x))
             /\ ProposalRefused(r, x).reason = "RefusedByCompletedTask"
             /\ ProposalRefused(r, x).turn = r.turn
  <2> DEFINE s == Terminate(r, "RefusedByCompletedTask")
  <2>1. ProposalRefused(r, x) = s
    BY <1>6 DEF ProposalRefused
  <2>2. IsTerminal(s)
    BY <1>1, TerminateEnds
  <2>3. s.reason = "RefusedByCompletedTask" /\ s.turn = r.turn
    BY ZenonT(30) DEF Terminate, RunInv, RunFields
  <2> QED
    BY Zenon, <2>1, <2>2, <2>3
<1> QED
  BY <1>2, <1>4, <1>5, <1>6

(***************************************************************************)
(* The budget of a run.                                                    *)
(***************************************************************************)
\* Attempts an effect in flight has reserved.
Held(effect) == IF IsOutstanding(effect) THEN Attempts ELSE 0

\* A run spends within its allocation, and what is in flight is reserved.
BudgetInv(r) ==
    /\ r.allocation \in Nat /\ r.consumed \in Nat /\ r.reserved \in Nat /\ r.topUps \in Nat
    /\ Held(r.effect) + Held(r.promotion) <= r.reserved
    /\ r.consumed + r.reserved <= r.allocation

\* What a step may do to a run's budget short of crediting a top-up.
BudgetOK(r, s) ==
    /\ BudgetInv(s)
    /\ s.allocation = r.allocation /\ s.topUps = r.topUps /\ r.consumed <= s.consumed
    /\ IsTerminal(r) => IsTerminal(s)
    /\ r.parked /\ ~IsTerminal(s) => s.parked

SameMoney(r, s) ==
    /\ s.allocation = r.allocation /\ s.topUps = r.topUps
    /\ s.consumed = r.consumed /\ s.reserved = r.reserved

\* Two such steps are one.
LEMMA BudgetChains ==
    ASSUME NEW r, NEW s, NEW t, BudgetInv(r), BudgetOK(r, s), BudgetOK(s, t)
    PROVE  BudgetOK(r, t)
<1>1. r.consumed \in Nat /\ s.consumed \in Nat /\ t.consumed \in Nat
  BY Zenon DEF BudgetOK, BudgetInv
<1> QED
  BY <1>1 DEF BudgetOK

\* A step that moves no amount and sends no effect.
LEMMA BudgetSame ==
    ASSUME NEW r, BudgetInv(r), NEW s, SameMoney(r, s),
           IsOutstanding(s.effect) => IsOutstanding(r.effect),
           IsOutstanding(s.promotion) => IsOutstanding(r.promotion),
           IsTerminal(r) => IsTerminal(s), r.parked /\ ~IsTerminal(s) => s.parked
    PROVE  BudgetOK(r, s)
<1>1. Held(s.effect) <= Held(r.effect) /\ Held(s.promotion) <= Held(r.promotion)
  BY AttemptsAssumption DEF Held
<1>2. /\ Held(s.effect) \in Nat /\ Held(r.effect) \in Nat
      /\ Held(s.promotion) \in Nat /\ Held(r.promotion) \in Nat
  BY AttemptsAssumption DEF Held
<1>3. BudgetInv(s)
  BY <1>1, <1>2 DEF BudgetInv, SameMoney
<1> QED
  BY <1>3 DEF BudgetOK, BudgetInv, SameMoney

\* Ending a run, and settle_run_disposition.
LEMMA TerminateBudget ==
    ASSUME NEW r, RunInv(r), BudgetInv(r), NEW reason
    PROVE  BudgetOK(r, Terminate(r, reason))
<1> DEFINE s == Terminate(r, reason)
<1>1. SameMoney(r, s) /\ s.effect = r.effect /\ s.promotion = r.promotion /\ IsTerminal(s)
  <2>1. CASE IsTerminal(r)
    BY <2>1 DEF Terminate, SameMoney
  <2>2. CASE ~IsTerminal(r)
    <3>1. StatusOf(reason) \in TerminalStatus
      BY DEF StatusOf, TerminalStatus
    <3>2. s.status = StatusOf(reason)
      BY ZenonT(30), <2>2 DEF Terminate, RunInv, RunFields
    <3> QED
      BY ZenonT(30), <2>2, <3>1, <3>2 DEF Terminate, RunInv, RunFields, SameMoney, IsTerminal
  <2> QED
    BY <2>1, <2>2
<1> HIDE DEF s
<1>2. BudgetOK(r, s)
  BY <1>1, BudgetSame
<1> QED
  BY <1>2 DEF s

LEMMA ExhaustBudget ==
    ASSUME NEW r, RunInv(r), BudgetInv(r), Reserves(r)
    PROVE  BudgetOK(r, Exhaust(r))
<1> DEFINE s == [r EXCEPT !.session = @ \/ r.phase = "PreparingContext"]
<1>1. /\ s = [f \in RunFields |-> s[f]]
      /\ s.status = r.status /\ s.phase = r.phase /\ s.reason = r.reason
      /\ s.parked = r.parked /\ s.effect = r.effect /\ s.proposal = r.proposal
      /\ s.promotion = r.promotion
  BY ZenonT(30) DEF RunInv, RunFields
<1>2. SameMoney(r, s)
  BY ZenonT(30) DEF RunInv, RunFields, SameMoney
<1>3. Exhaust(r) = Terminate(s, "BudgetExhausted")
  BY DEF Exhaust
<1> HIDE DEF s
<1>4. RunInv(s)
  BY <1>1 DEF RunInv, IsTerminal
<1>5. BudgetOK(r, s)
  BY <1>1, <1>2, BudgetSame DEF IsTerminal
<1> QED
  BY <1>3, <1>4, <1>5, TerminateBudget, BudgetChains DEF BudgetOK

LEMMA DispositionBudget ==
    ASSUME NEW r, RunInv(r), BudgetInv(r)
    PROVE  BudgetOK(r, SettleDisposition(r))
<1>1. BudgetOK(r, r)
  BY BudgetSame DEF SameMoney
<1>2. ASSUME NEW status, ~IsTerminal(r) PROVE BudgetOK(r, [r EXCEPT !.status = status])
  <2> DEFINE s == [r EXCEPT !.status = status]
  <2>1. SameMoney(r, s) /\ s.effect = r.effect /\ s.promotion = r.promotion
        /\ s.parked = r.parked
    BY ZenonT(30) DEF RunInv, RunFields, SameMoney
  <2> HIDE DEF s
  <2>2. BudgetOK(r, s)
    BY <1>2, <2>1, BudgetSame
  <2> QED
    BY <2>2 DEF s
<1>3. CASE IsTerminal(r)
  BY <1>1, <1>3 DEF SettleDisposition
<1>4. CASE ~IsTerminal(r)
  BY Zenon, <1>1, <1>2, <1>4, TerminateBudget DEF SettleDisposition
<1> QED
  BY <1>3, <1>4

\* cancel
LEMMA CancelBudget ==
    ASSUME NEW r, RunInv(r), BudgetInv(r), ~IsTerminal(r)
    PROVE  BudgetOK(r, Cancel(r))
<1> DEFINE t == [FenceUnsent(r) EXCEPT !.status = "Cancelling",
                     !.reason = IF @ = NoReason THEN "CancellationRequested" ELSE @]
<1>1. /\ t = [f \in RunFields |-> t[f]]
      /\ t.status = "Cancelling" /\ t.phase = r.phase
      /\ t.proposal = r.proposal /\ t.turn = r.turn /\ t.parked = r.parked
      /\ t.reason \in {r.reason, "CancellationRequested"}
      /\ t.effect \in {r.effect, "Cancelled"} /\ t.promotion = r.promotion
  BY ZenonT(30) DEF RunInv, RunFields, FenceUnsent
<1>2. SameMoney(r, t)
  BY ZenonT(30) DEF RunInv, RunFields, FenceUnsent, SameMoney
<1>3. Cancel(r) = SettleDisposition(t)
  BY DEF Cancel
<1> HIDE DEF t
<1>4. /\ ~IsTerminal(t) /\ r.reason # "ResultAccepted"
      /\ IsOutstanding(t.effect) => IsOutstanding(r.effect)
  BY <1>1 DEF IsTerminal, TerminalStatus, RunInv, IsOutstanding
<1>5. RunInv(t)
  BY Zenon, <1>1, <1>4 DEF RunInv, IsTerminal, TerminalStatus, LiveStatus, BlocksSettlement,
                    IsOutstanding
<1>6. BudgetOK(r, t)
  BY Zenon, <1>1, <1>2, <1>4, BudgetSame
<1> QED
  BY <1>3, <1>5, <1>6, DispositionBudget, BudgetChains DEF BudgetOK

\* The reservation of one more effect, on record.
LEMMA ReserveBudget ==
    ASSUME NEW r, BudgetInv(r), CanReserve(r), NEW s,
           s.allocation = r.allocation, s.topUps = r.topUps, s.consumed = r.consumed,
           s.reserved = r.reserved + Attempts,
           s.effect = r.effect \/ s.promotion = r.promotion,
           IsTerminal(r) => IsTerminal(s), r.parked /\ ~IsTerminal(s) => s.parked
    PROVE  BudgetOK(r, s)
<1>1. /\ Held(s.effect) \in {0, Attempts} /\ Held(r.effect) \in {0, Attempts}
      /\ Held(s.promotion) \in {0, Attempts} /\ Held(r.promotion) \in {0, Attempts}
      /\ Held(s.effect) = Held(r.effect) \/ Held(s.promotion) = Held(r.promotion)
  BY DEF Held
<1>2. Attempts \in Nat
  BY Zenon, AttemptsAssumption
<1>3. BudgetInv(s)
  BY <1>1, <1>2 DEF BudgetInv, CanReserve
<1> QED
  BY <1>2, <1>3 DEF BudgetOK, BudgetInv

\* An effect that is over gives its reservation back for the attempts it made.
LEMMA SpendBudget ==
    ASSUME NEW r, BudgetInv(r), NEW made \in 0..Attempts, NEW s,
           s.allocation = r.allocation, s.topUps = r.topUps,
           s.consumed = r.consumed + made, s.reserved = r.reserved - Attempts,
           \/ IsOutstanding(r.effect) /\ ~IsOutstanding(s.effect) /\ s.promotion = r.promotion
           \/ IsOutstanding(r.promotion) /\ ~IsOutstanding(s.promotion) /\ s.effect = r.effect,
           IsTerminal(r) => IsTerminal(s), r.parked /\ ~IsTerminal(s) => s.parked
    PROVE  BudgetOK(r, s)
<1>1. /\ Held(s.effect) \in {0, Attempts} /\ Held(s.promotion) \in {0, Attempts}
      /\ Held(r.effect) + Held(r.promotion) = Held(s.effect) + Held(s.promotion) + Attempts
  BY AttemptsAssumption DEF Held
<1>2. Attempts \in Nat /\ made \in Nat /\ made <= Attempts
  BY AttemptsAssumption
<1>3. BudgetInv(s)
  BY <1>1, <1>2 DEF BudgetInv
<1> QED
  BY <1>2, <1>3 DEF BudgetOK, BudgetInv

\* A step followed by settle_run_disposition.
LEMMA ThenDisposition ==
    ASSUME NEW r, NEW s, BudgetInv(r), RunInv(s), BudgetOK(r, s)
    PROVE  BudgetOK(r, SettleDisposition(s))
BY DispositionBudget, BudgetChains DEF BudgetOK

\* advance_once: the budget is charged before the effect exists.
LEMMA AdvanceBudget ==
    ASSUME NEW r, RunInv(r), BudgetInv(r), CanAdvance(r)
    PROVE  BudgetOK(r, Advance(r))
<1> DEFINE s == Advance(r)
<1>1. ~IsTerminal(r) /\ ~r.parked
  BY Zenon, AdvanceKeeps DEF CanAdvance
<1>2. \/ /\ CanReserve(r)
         /\ s.allocation = r.allocation /\ s.topUps = r.topUps /\ s.consumed = r.consumed
         /\ s.reserved = r.reserved + Attempts /\ s.promotion = r.promotion
      \/ /\ SameMoney(r, s)
         /\ s.effect = r.effect \/ s.effect = Kept(r.effect)
         /\ s.promotion = r.promotion \/ s.promotion = Kept(r.promotion)
  <2>1. CASE r.phase = "PreparingContext"
    BY ZenonT(30), <2>1 DEF Advance, PrepareContext, Park, Reserve, RunInv, RunFields, SameMoney
  <2>2. CASE r.phase = "EvaluatingModelOutput"
    BY ZenonT(30), <2>2 DEF Advance, EvaluateModelOutput, CommitToolCalls, Park, Reserve, RunInv,
                RunFields, SameMoney
  <2>3. CASE r.phase = "RecordingTurn"
    BY ZenonT(30), <2>3 DEF Advance, RecordTurn, RunInv, RunFields, SameMoney
  <2>4. CASE r.phase = "DecidingContinuation"
    BY ZenonT(30), <2>4 DEF Advance, DecideContinuation, ClearTurn, BeginTurn, RunInv, RunFields,
                SameMoney
  <2> QED
    BY <2>1, <2>2, <2>3, <2>4 DEF CanAdvance
<1> HIDE DEF s
<1>3. ASSUME NEW x PROVE IsOutstanding(Kept(x)) => IsOutstanding(x)
  BY Zenon DEF Kept, IsOutstanding
<1>4. BudgetOK(r, s)
  <2>1. CASE SameMoney(r, s) /\ (s.effect = r.effect \/ s.effect = Kept(r.effect))
             /\ (s.promotion = r.promotion \/ s.promotion = Kept(r.promotion))
    BY Zenon, <1>1, <1>3, <2>1, BudgetSame
  <2>2. CASE CanReserve(r) /\ s.allocation = r.allocation /\ s.topUps = r.topUps
             /\ s.consumed = r.consumed /\ s.reserved = r.reserved + Attempts
             /\ s.promotion = r.promotion
    BY <1>1, <2>2, ReserveBudget
  <2> QED
    BY Zenon, <1>2, <2>1, <2>2
<1> QED
  BY <1>4 DEF s

\* dispatch_effects
LEMMA MarkReadyBudget ==
    ASSUME NEW r, RunInv(r), BudgetInv(r)
    PROVE  BudgetOK(r, MarkReady(r))
<1> DEFINE s == MarkReady(r)
<1>1. /\ SameMoney(r, s) /\ s.status = r.status /\ s.parked = r.parked
      /\ s.effect = r.effect \/ r.effect = "Pending"
      /\ s.promotion = r.promotion \/ r.promotion = "Pending"
  BY ZenonT(30) DEF MarkReady, RunInv, RunFields, SameMoney
<1> HIDE DEF s
<1>2. BudgetOK(r, s)
  BY Zenon, <1>1, BudgetSame DEF IsOutstanding, IsTerminal
<1> QED
  BY <1>2 DEF s

\* apply_effect_outcome on the turn's effect moves no amount.
LEMMA OutcomeMoney ==
    ASSUME NEW r, RunInv(r),
           NEW outcome \in {"Succeeded", "Failed", "Indeterminate", "Cancelled"}, NEW output
    PROVE  LET s == ApplyTurnOutcome(r, outcome, output)
           IN  /\ SameMoney(r, s) /\ s.parked = r.parked /\ s.promotion = r.promotion
               /\ ~IsOutstanding(s.effect)
<1> DEFINE s == ApplyTurnOutcome(r, outcome, output)
<1>1. /\ SameMoney(r, s) /\ s.parked = r.parked /\ s.promotion = r.promotion
      /\ s.effect \in {"Succeeded", "Failed", "Indeterminate", "Cancelled"}
  <2>1. CASE outcome = "Succeeded"
    BY ZenonT(30), <2>1 DEF ApplyTurnOutcome, TurnSucceeds, RunInv, RunFields, SameMoney
  <2>2. CASE outcome = "Failed"
    BY ZenonT(30), <2>2 DEF ApplyTurnOutcome, TurnFails, FenceUnsent, RunInv, RunFields,
                            SameMoney
  <2>3. CASE outcome \in {"Indeterminate", "Cancelled"}
    BY <2>3 DEF ApplyTurnOutcome, RunInv, RunFields, SameMoney
  <2> QED
    BY Zenon, <2>1, <2>2, <2>3
<1> HIDE DEF s
<1>2. ~IsOutstanding(s.effect)
  BY <1>1 DEF IsOutstanding
<1> QED
  BY Zenon, <1>1, <1>2 DEF s

\* AgentRunBudget::settle_effect
LEMMA SettleEffectMoney ==
    ASSUME NEW r, RunInv(r), NEW made
    PROVE  LET s == SettleEffect(r, made)
           IN  /\ s.allocation = r.allocation /\ s.topUps = r.topUps
               /\ s.consumed = r.consumed + made /\ s.reserved = r.reserved - Attempts
               /\ s.effect = r.effect /\ s.promotion = r.promotion
               /\ s.parked = r.parked /\ s.status = r.status
BY ZenonT(30) DEF SettleEffect, RunInv, RunFields

\* record_effect_result on the turn's effect, and its confirmation.
LEMMA TurnResultBudget ==
    ASSUME NEW r, RunInv(r), BudgetInv(r), ~IsTerminal(r),
           NEW outcome \in {"Succeeded", "Failed", "Indeterminate", "Cancelled"}, NEW output,
           NEW made \in 0..Attempts
    PROVE  /\ r.effect = "Ready" => BudgetOK(r, RecordTurnResult(r, outcome, output, made))
           /\ r.effect = "Indeterminate" => BudgetOK(r, ConfirmTurnExecuted(r, outcome, output))
<1> DEFINE s == ApplyTurnOutcome(r, outcome, output)
           t == SettleEffect(s, made)
<1>1. /\ RecordTurnResult(r, outcome, output, made) = SettleDisposition(t)
      /\ ConfirmTurnExecuted(r, outcome, output) = SettleDisposition(s)
  BY DEF RecordTurnResult, ConfirmTurnExecuted
<1>2. /\ SameMoney(r, s) /\ s.parked = r.parked /\ s.promotion = r.promotion
      /\ ~IsOutstanding(s.effect)
  BY OutcomeMoney
<1>3. r.effect \in {"Ready", "Indeterminate"} => RunInv(s)
  BY Zenon, OutcomeKeeps DEF StepOK
<1> HIDE DEF s
<1>4. RunInv(s) => /\ t.allocation = s.allocation /\ t.topUps = s.topUps
                   /\ t.consumed = s.consumed + made /\ t.reserved = s.reserved - Attempts
                   /\ t.effect = s.effect /\ t.promotion = s.promotion /\ t.parked = s.parked
                   /\ RunInv(t)
  BY SettleEffectMoney, SettleEffectKeeps DEF StepOK
<1> HIDE DEF t
<1>5. ASSUME r.effect = "Ready" PROVE BudgetOK(r, SettleDisposition(t))
  <2>1. RunInv(s) /\ RunInv(t) /\ IsOutstanding(r.effect)
    BY Zenon, <1>3, <1>4, <1>5 DEF IsOutstanding
  <2>2. /\ t.allocation = r.allocation /\ t.topUps = r.topUps
        /\ t.consumed = r.consumed + made /\ t.reserved = r.reserved - Attempts
        /\ ~IsOutstanding(t.effect) /\ t.promotion = r.promotion /\ t.parked = r.parked
    BY Zenon, <1>2, <1>4, <2>1 DEF SameMoney
  <2>3. BudgetOK(r, t)
    BY <2>1, <2>2, SpendBudget
  <2> QED
    BY <2>1, <2>3, ThenDisposition
<1>6. ASSUME r.effect = "Indeterminate" PROVE BudgetOK(r, SettleDisposition(s))
  <2>1. BudgetOK(r, s)
    BY Zenon, <1>2, BudgetSame
  <2> QED
    BY Zenon, <1>3, <1>6, <2>1, ThenDisposition
<1> QED
  BY <1>1, <1>5, <1>6

\* promote_memory, record_effect_result on a promotion and its confirmation.
LEMMA PromotionBudget ==
    ASSUME NEW r, RunInv(r), BudgetInv(r), NEW made \in 0..Attempts,
           NEW outcome \in {"Succeeded", "Failed", "Indeterminate"}
    PROVE  /\ CanPromote(r) => BudgetOK(r, Promote(r))
           /\ r.promotion = "Ready" => BudgetOK(r, RecordPromotionResult(r, outcome, made))
           /\ BudgetOK(r, ConfirmPromotionExecuted(r, outcome))
<1> DEFINE p == Promote(r)
           s == [r EXCEPT !.promotion = outcome]
           t == SettleEffect(s, made)
<1>1. /\ p.allocation = r.allocation /\ p.topUps = r.topUps /\ p.consumed = r.consumed
      /\ p.reserved = r.reserved + Attempts
      /\ p.effect = r.effect /\ p.parked = r.parked /\ p.status = r.status
  BY ZenonT(30) DEF Promote, Reserve, RunInv, RunFields
<1>2. /\ s = [f \in RunFields |-> s[f]]
      /\ s.status = r.status /\ s.phase = r.phase /\ s.reason = r.reason /\ s.parked = r.parked
      /\ s.effect = r.effect /\ s.proposal = r.proposal /\ s.turn = r.turn
      /\ SameMoney(r, s) /\ s.promotion = outcome
  BY ZenonT(30) DEF RunInv, RunFields, SameMoney
<1>3. /\ RecordPromotionResult(r, outcome, made) = SettleDisposition(t)
      /\ ConfirmPromotionExecuted(r, outcome) = SettleDisposition(s)
      /\ Promote(r) = p
  BY DEF RecordPromotionResult, ConfirmPromotionExecuted
<1> HIDE DEF p, s
<1>4. RunInv(s) /\ ~IsOutstanding(s.promotion)
  BY Zenon, <1>2, PromotionKeeps DEF StepOK, IsOutstanding
<1>5. /\ t.allocation = s.allocation /\ t.topUps = s.topUps
      /\ t.consumed = s.consumed + made /\ t.reserved = s.reserved - Attempts
      /\ t.effect = s.effect /\ t.promotion = s.promotion /\ t.parked = s.parked
      /\ t.status = s.status /\ RunInv(t)
  BY <1>4, SettleEffectMoney, SettleEffectKeeps DEF StepOK
<1> HIDE DEF t
<1>6. CanPromote(r) => BudgetOK(r, p)
  BY Zenon, <1>1, ReserveBudget DEF CanPromote, IsTerminal
<1>7. ASSUME r.promotion = "Ready" PROVE BudgetOK(r, SettleDisposition(t))
  <2>1. IsOutstanding(r.promotion) /\ ~IsOutstanding(t.promotion)
    BY Zenon, <1>4, <1>5, <1>7 DEF IsOutstanding
  <2>2. BudgetOK(r, t)
    BY <1>2, <1>5, <2>1, SpendBudget DEF SameMoney, IsTerminal
  <2> QED
    BY Zenon, <1>5, <2>2, ThenDisposition
<1>8. BudgetOK(r, SettleDisposition(s))
  <2>1. BudgetOK(r, s)
    BY Zenon, <1>2, <1>4, BudgetSame DEF IsTerminal
  <2> QED
    BY Zenon, <1>4, <2>1, ThenDisposition
<1> QED
  BY Zenon, <1>3, <1>6, <1>7, <1>8

\* apply_indeterminate_resolution with ConfirmedNotExecuted.
LEMMA NotExecutedBudget ==
    ASSUME NEW r, RunInv(r), BudgetInv(r), Redispatches(r) => CanReserve(r)
    PROVE  /\ ~IsTerminal(r) /\ r.effect = "Indeterminate" =>
                 BudgetOK(r, ConfirmTurnNotExecuted(r))
           /\ BudgetOK(r, ConfirmPromotionNotExecuted(r))
<1>1. ASSUME NEW s, s = [f \in RunFields |-> s[f]],
             s.status = r.status \/ (~IsTerminal(r) /\ s.status = "WaitingForEffect"),
             s.phase = r.phase, s.reason = r.reason, s.parked = r.parked,
             s.proposal = r.proposal, s.turn = r.turn,
             BlocksSettlement(s.effect) => BlocksSettlement(r.effect),
             \/ /\ CanReserve(r) /\ (s.effect = r.effect \/ s.promotion = r.promotion)
                /\ s.allocation = r.allocation /\ s.topUps = r.topUps
                /\ s.consumed = r.consumed /\ s.reserved = r.reserved + Attempts
             \/ /\ SameMoney(r, s)
                /\ IsOutstanding(s.effect) => IsOutstanding(r.effect)
                /\ IsOutstanding(s.promotion) => IsOutstanding(r.promotion)
      PROVE  BudgetOK(r, SettleDisposition(s))
  <2>1. /\ IsTerminal(s) <=> IsTerminal(r)
        /\ IsTerminal(r) => s.status = r.status
        /\ r.status = "Completed" => s.status = "Completed"
        /\ s.status \in TerminalStatus \cup LiveStatus
    BY Zenon, <1>1 DEF IsTerminal, TerminalStatus, LiveStatus, RunInv
  <2>2. RunInv(s)
    BY Zenon, <1>1, <2>1 DEF RunInv
  <2>3. BudgetOK(r, s)
    BY Zenon, <1>1, <2>1, ReserveBudget, BudgetSame
  <2> QED
    BY Zenon, <2>2, <2>3, ThenDisposition
<1>2. ASSUME ~IsTerminal(r), r.effect = "Indeterminate"
      PROVE  BudgetOK(r, ConfirmTurnNotExecuted(r))
  <2> DEFINE s == IF Redispatches(r)
                  THEN [Reserve(r) EXCEPT !.effect = "Pending", !.status = RedispatchStatus(r)]
                  ELSE [r EXCEPT !.effect = "Cancelled"]
  <2>1. /\ s = [f \in RunFields |-> s[f]]
        /\ s.status = r.status \/ (~IsTerminal(r) /\ s.status = "WaitingForEffect")
        /\ s.phase = r.phase /\ s.reason = r.reason /\ s.parked = r.parked
        /\ s.proposal = r.proposal /\ s.turn = r.turn /\ s.promotion = r.promotion
    BY ZenonT(30) DEF Reserve, RedispatchStatus, RunInv, RunFields
  <2>2. \/ /\ CanReserve(r)
           /\ s.allocation = r.allocation /\ s.topUps = r.topUps
           /\ s.consumed = r.consumed /\ s.reserved = r.reserved + Attempts
        \/ SameMoney(r, s) /\ s.effect = "Cancelled"
    BY ZenonT(30) DEF Reserve, RunInv, RunFields, SameMoney
  <2>3. BlocksSettlement(r.effect) /\ ~IsOutstanding("Cancelled")
    BY <1>2 DEF BlocksSettlement, IsOutstanding
  <2>4. ConfirmTurnNotExecuted(r) = SettleDisposition(s)
    BY DEF ConfirmTurnNotExecuted
  <2> HIDE DEF s
  <2> QED
    BY Zenon, <1>1, <2>1, <2>2, <2>3, <2>4
<1>3. BudgetOK(r, ConfirmPromotionNotExecuted(r))
  <2> DEFINE s == IF Redispatches(r)
                  THEN [Reserve(r) EXCEPT !.promotion = "Pending", !.status = RedispatchStatus(r)]
                  ELSE [r EXCEPT !.promotion = "Cancelled"]
  <2>1. /\ s = [f \in RunFields |-> s[f]]
        /\ s.status = r.status \/ (~IsTerminal(r) /\ s.status = "WaitingForEffect")
        /\ s.phase = r.phase /\ s.reason = r.reason /\ s.parked = r.parked
        /\ s.proposal = r.proposal /\ s.turn = r.turn /\ s.effect = r.effect
    BY ZenonT(30) DEF Reserve, RedispatchStatus, RunInv, RunFields
  <2>2. \/ /\ CanReserve(r)
           /\ s.allocation = r.allocation /\ s.topUps = r.topUps
           /\ s.consumed = r.consumed /\ s.reserved = r.reserved + Attempts
        \/ SameMoney(r, s) /\ s.promotion = "Cancelled"
    BY ZenonT(30) DEF Reserve, RunInv, RunFields, SameMoney
  <2>3. ~IsOutstanding("Cancelled")
    BY DEF IsOutstanding
  <2>4. ConfirmPromotionNotExecuted(r) = SettleDisposition(s)
    BY DEF ConfirmPromotionNotExecuted
  <2> HIDE DEF s
  <2> QED
    BY Zenon, <1>1, <2>1, <2>2, <2>3, <2>4
<1> QED
  BY <1>2, <1>3

\* settle_proposal
LEMMA ProposalBudget ==
    ASSUME NEW r, RunInv(r), BudgetInv(r), NEW x
    PROVE  /\ BudgetOK(r, ProposalAccepted(r))
           /\ BudgetOK(r, ProposalRejected(r, x))
           /\ BudgetOK(r, ProposalRefused(r, x))
<1>1. BudgetOK(r, r)
  BY BudgetSame DEF SameMoney
<1>2. ASSUME ~IsTerminal(r) PROVE BudgetOK(r, BeginTurn(r))
  <2> DEFINE s == BeginTurn(r)
  <2>1. /\ SameMoney(r, s) /\ s.effect = r.effect /\ s.promotion = r.promotion
        /\ s.parked = r.parked
    BY ZenonT(30) DEF BeginTurn, RunInv, RunFields, SameMoney
  <2> HIDE DEF s
  <2>2. BudgetOK(r, s)
    BY <1>2, <2>1, BudgetSame
  <2> QED
    BY <2>2 DEF s
<1>3. \A reason : BudgetOK(r, Terminate(r, reason))
  BY TerminateBudget
<1>4. BudgetOK(r, ProposalAccepted(r))
  BY <1>3 DEF ProposalAccepted
<1>5. BudgetOK(r, ProposalRejected(r, x))
  BY <1>1, <1>2, <1>3 DEF ProposalRejected
<1>6. BudgetOK(r, ProposalRefused(r, x))
  BY Zenon, <1>1, <1>3, CancelBudget DEF ProposalRefused
<1> QED
  BY Zenon, <1>4, <1>5, <1>6

\* apply_top_up_grant: the grant is credited once, to a run that waits for it.
LEMMA CreditBudget ==
    ASSUME NEW r, RunInv(r), BudgetInv(r), r.parked, NEW grant \in Nat
    PROVE  LET s == CreditTopUp(r, grant)
           IN  /\ BudgetInv(s) /\ s.allocation = r.allocation + grant
               /\ s.topUps = r.topUps + 1 /\ s.consumed = r.consumed /\ ~s.parked
<1> DEFINE c == [r EXCEPT !.allocation = @ + grant, !.topUps = PendingTopUp(r),
                          !.parked = FALSE]
           d == [c EXCEPT !.status = "Running"]
           e == Terminate(c, "BudgetExhausted")
           s == CreditTopUp(r, grant)
<1>1. /\ c.allocation = r.allocation + grant /\ c.topUps = r.topUps + 1
      /\ c.consumed = r.consumed /\ c.reserved = r.reserved
      /\ c.effect = r.effect /\ c.promotion = r.promotion /\ c.parked = FALSE
  BY ZenonT(30) DEF RunInv, RunFields, PendingTopUp
<1>2. /\ d.allocation = r.allocation + grant /\ d.topUps = r.topUps + 1
      /\ d.consumed = r.consumed /\ d.reserved = r.reserved
      /\ d.effect = r.effect /\ d.promotion = r.promotion /\ d.parked = FALSE
  BY ZenonT(30) DEF RunInv, RunFields, PendingTopUp
<1>3. c = [f \in RunFields |-> c[f]]
  BY ZenonT(30) DEF RunInv, RunFields
<1>4. s \in {d, e}
  BY DEF CreditTopUp
<1> HIDE DEF c, d
<1>5. /\ e.allocation = c.allocation /\ e.topUps = c.topUps
      /\ e.consumed = c.consumed /\ e.reserved = c.reserved
      /\ e.effect = c.effect /\ e.promotion = c.promotion /\ e.parked = FALSE
  BY ZenonT(30), <1>1, <1>3 DEF Terminate, RunFields
<1> HIDE DEF e, s
<1>6. /\ s.allocation = r.allocation + grant /\ s.topUps = r.topUps + 1
      /\ s.consumed = r.consumed /\ s.reserved = r.reserved
      /\ s.effect = r.effect /\ s.promotion = r.promotion /\ s.parked = FALSE
  BY Zenon, <1>1, <1>2, <1>4, <1>5
<1>7. /\ Held(r.effect) \in Nat /\ Held(r.promotion) \in Nat
  BY Zenon, AttemptsAssumption DEF Held
<1>8. BudgetInv(s)
  BY <1>6, <1>7 DEF BudgetInv
<1> QED
  BY <1>6, <1>8 DEF s

(***************************************************************************)
(* The escrow ledger.                                                      *)
(***************************************************************************)
LedgerFields == {"allocation", "consumed", "outstanding"}

EscrowRecord ==
    [allocated : Nat, grantedThrough : Nat, lastTopUp : Nat \cup {NoAmount},
     settled : Nat \cup {NoAmount}]

IsUnsettled(l, g) == g \in DOMAIN l.outstanding /\ l.outstanding[g].settled = NoAmount
Unsettled(l) == {g \in DOMAIN l.outstanding : l.outstanding[g].settled = NoAmount}

\* What a set of a ledger's runs were escrowed together.
Allocated(l, S) == SumFunction([g \in S |-> l.outstanding[g].allocated])

LedgerInv(l) ==
    /\ l = [f \in LedgerFields |-> l[f]]
    /\ l.allocation \in Nat /\ l.consumed \in Nat
    /\ Small(DOMAIN l.outstanding)
    /\ \A g \in DOMAIN l.outstanding : l.outstanding[g] \in EscrowRecord

\* What was charged and what may still be fit in the task's allocation.
LimitInv(l) == l.consumed + Allocated(l, Unsettled(l)) <= l.allocation

\* A sum over some runs of a ledger is at most the sum over more of them.
LEMMA AllocatedMonotone ==
    ASSUME NEW l, LedgerInv(l), NEW S \in SUBSET DOMAIN l.outstanding, NEW T \in SUBSET S
    PROVE  Allocated(l, T) \in Nat /\ Allocated(l, S) \in Nat
           /\ Allocated(l, T) <= Allocated(l, S)
<1> DEFINE f == [g \in S |-> l.outstanding[g].allocated]
           h == [g \in T |-> l.outstanding[g].allocated]
<1>1. \A g \in DOMAIN l.outstanding : l.outstanding[g].allocated \in Nat
  BY DEF LedgerInv, EscrowRecord
<1>2. Small(S)
  BY Zenon, SmallSets DEF LedgerInv
<1>3. f \in [S -> Nat] /\ h \in [T -> Nat] /\ \A g \in T : h[g] <= f[g]
  BY <1>1
<1> HIDE DEF f, h
<1>4. SumFunction(f) \in Nat /\ SumFunction(h) \in Nat /\ SumFunction(h) <= SumFunction(f)
  BY Zenon, <1>2, <1>3, SumMonotone
<1> QED
  BY Zenon, <1>4 DEF Allocated, f, h

LEMMA AllocatedWithout ==
    ASSUME NEW l, LedgerInv(l), NEW S \in SUBSET DOMAIN l.outstanding, NEW g \in S
    PROVE  /\ l.outstanding[g].allocated \in Nat
           /\ Allocated(l, S \ {g}) \in Nat
           /\ Allocated(l, S) = l.outstanding[g].allocated + Allocated(l, S \ {g})
<1> DEFINE f == [c \in S |-> l.outstanding[c].allocated]
           h == [c \in S \ {g} |-> f[c]]
<1>1. \A c \in DOMAIN l.outstanding : l.outstanding[c].allocated \in Nat
  BY DEF LedgerInv, EscrowRecord
<1>2. Small(S)
  BY Zenon, SmallSets DEF LedgerInv
<1>3. f \in [S -> Nat] /\ f[g] = l.outstanding[g].allocated
      /\ h = [c \in S \ {g} |-> l.outstanding[c].allocated]
  BY <1>1
<1>4. /\ SumFunction(f) = f[g] + SumFunction(h) /\ SumFunction(h) \in Nat
  <2> HIDE DEF f, h
  <2>1. f \in [S -> Nat]
    BY <1>3
  <2>2. SplitsOff(S, f, g)
    BY Zenon, <1>2, <2>1, SumWithout
  <2> QED
    BY Zenon, <2>2 DEF h, SplitsOff
<1> HIDE DEF h
<1>5. Allocated(l, S) = SumFunction(f) /\ Allocated(l, S \ {g}) = SumFunction(h)
  BY <1>3 DEF Allocated
<1> QED
  BY Zenon, <1>1, <1>3, <1>4, <1>5

\* Two ledgers that agree on a set of runs agree on what it was escrowed.
LEMMA AllocatedSame ==
    ASSUME NEW l, NEW m, NEW S,
           \A g \in S : m.outstanding[g].allocated = l.outstanding[g].allocated
    PROVE  Allocated(m, S) = Allocated(l, S)
<1>1. [g \in S |-> m.outstanding[g].allocated] = [g \in S |-> l.outstanding[g].allocated]
  BY Zenon
<1> QED
  BY <1>1 DEF Allocated

\* A grant narrowed to what is available fits beside everything at stake
\* (narrowed_to, available).
LEMMA GrantFits ==
    ASSUME NEW l, LedgerInv(l), LimitInv(l), NEW request \in Nat
    PROVE  LET x == NarrowedTo(request, Available(l))
           IN  x \in Nat /\ l.consumed + Allocated(l, Unsettled(l)) + x <= l.allocation
<1>1. /\ Allocated(l, Unsettled(l)) \in Nat /\ Escrowed(l) \in Nat
      /\ Allocated(l, Unsettled(l)) <= Escrowed(l)
  <2>1. Escrowed(l) = Allocated(l, DOMAIN l.outstanding)
    BY DEF Escrowed, Allocated
  <2>2. Unsettled(l) \in SUBSET DOMAIN l.outstanding
    BY DEF Unsettled
  <2> QED
    BY Zenon, <2>1, <2>2, AllocatedMonotone
<1>2. l.allocation \in Nat /\ l.consumed \in Nat
  BY DEF LedgerInv
<1>3. l.consumed + Allocated(l, Unsettled(l)) <= l.allocation
  BY DEF LimitInv
<1> HIDE DEF LimitInv
<1>4. CASE l.allocation > l.consumed /\ l.allocation - l.consumed > Escrowed(l)
  <2>1. Available(l) = l.allocation - l.consumed - Escrowed(l)
    BY Zenon, <1>1, <1>2, <1>4 DEF Available, SaturatingSub
  <2> QED
    BY <1>1, <1>2, <2>1, <1>4 DEF NarrowedTo
<1>5. CASE ~(l.allocation > l.consumed /\ l.allocation - l.consumed > Escrowed(l))
  <2>1. Available(l) = 0
    BY <1>1, <1>2, <1>5 DEF Available, SaturatingSub
  <2> QED
    BY <1>1, <1>2, <1>3, <2>1 DEF NarrowedTo
<1> QED
  BY Zenon, <1>4, <1>5

\* open_child
LEMMA OpenMoney ==
    ASSUME NEW l, LedgerInv(l), LimitInv(l), NEW g, g \notin DOMAIN l.outstanding,
           NEW request \in Nat
    PROVE  LET m == OpenChild(l, g, request)
           IN  /\ LedgerInv(m) /\ LimitInv(m) /\ m.consumed = l.consumed
               /\ DOMAIN m.outstanding = DOMAIN l.outstanding \cup {g}
               /\ \A c \in DOMAIN l.outstanding : m.outstanding[c] = l.outstanding[c]
               /\ m.outstanding[g].settled = NoAmount /\ m.outstanding[g].grantedThrough = 0
<1> DEFINE x == NarrowedTo(request, Available(l))
           fresh == [allocated |-> x, grantedThrough |-> 0, lastTopUp |-> NoAmount,
                     settled |-> NoAmount]
           m == OpenChild(l, g, request)
<1>1. x \in Nat /\ l.consumed + Allocated(l, Unsettled(l)) + x <= l.allocation
  BY GrantFits
<1>2. /\ m = [f \in LedgerFields |-> m[f]]
      /\ m.allocation = l.allocation /\ m.consumed = l.consumed
      /\ m.outstanding = [c \in DOMAIN l.outstanding \cup {g} |->
                             IF c \in DOMAIN l.outstanding THEN l.outstanding[c] ELSE fresh]
  BY ZenonT(30) DEF OpenChild, LedgerInv, LedgerFields
<1> HIDE DEF x
<1>3. /\ fresh \in EscrowRecord /\ fresh.settled = NoAmount /\ fresh.grantedThrough = 0
      /\ fresh.allocated = x
  BY <1>1 DEF EscrowRecord
<1> HIDE DEF m, fresh
<1>4. /\ DOMAIN m.outstanding = DOMAIN l.outstanding \cup {g}
      /\ \A c \in DOMAIN l.outstanding : m.outstanding[c] = l.outstanding[c]
      /\ m.outstanding[g] = fresh
  BY Zenon, <1>2
<1>5. LedgerInv(m)
  <2>1. Small(DOMAIN m.outstanding)
    <3>1. Small(DOMAIN l.outstanding)
      BY Zenon DEF LedgerInv
    <3> QED
      BY Zenon, <1>4, <3>1, SmallWith
  <2> QED
    BY Zenon, <1>2, <1>3, <1>4, <2>1 DEF LedgerInv
<1>6. Unsettled(m) \ {g} = Unsettled(l) /\ g \in Unsettled(m)
      /\ Unsettled(m) \in SUBSET DOMAIN m.outstanding
  BY Zenon, <1>3, <1>4 DEF Unsettled
<1>7. Allocated(m, Unsettled(m)) = x + Allocated(m, Unsettled(l))
  BY <1>3, <1>4, <1>5, <1>6, AllocatedWithout
<1>8. Allocated(m, Unsettled(l)) = Allocated(l, Unsettled(l))
  BY <1>4, AllocatedSame DEF Unsettled
<1>9. Unsettled(l) \in SUBSET DOMAIN l.outstanding
  BY DEF Unsettled
<1>10. Allocated(l, Unsettled(l)) \in Nat /\ l.consumed \in Nat
  BY Zenon, <1>9, AllocatedMonotone DEF LedgerInv
<1>11. LimitInv(m)
  BY <1>1, <1>2, <1>7, <1>8, <1>10 DEF LimitInv
<1> QED
  BY Zenon, <1>2, <1>3, <1>4, <1>5, <1>11 DEF m

\* m is the ledger l with x more escrowed for run g by its top-up of this sequence.
ToppedUp(l, m, g, sequence, x) ==
    /\ LedgerInv(m) /\ LimitInv(m) /\ m.consumed = l.consumed
    /\ DOMAIN m.outstanding = DOMAIN l.outstanding
    /\ \A c \in DOMAIN l.outstanding \ {g} : m.outstanding[c] = l.outstanding[c]
    /\ x \in Nat /\ m.outstanding[g].allocated = l.outstanding[g].allocated + x
    /\ m.outstanding[g].grantedThrough = sequence
    /\ m.outstanding[g].lastTopUp = x /\ m.outstanding[g].settled = NoAmount

\* top_up_child, where the sequence is a new one.
LEMMA TopUpMoney ==
    ASSUME NEW l, LedgerInv(l), LimitInv(l), NEW g, IsUnsettled(l, g),
           NEW sequence \in Nat, NEW request \in Nat,
           ~IsReplayedTopUp(l.outstanding[g], sequence)
    PROVE  ToppedUp(l, TopUpChild(l, g, sequence, request), g, sequence,
                    NarrowedTo(request, Available(l)))
<1> DEFINE x == NarrowedTo(request, Available(l))
           old == l.outstanding[g]
           new == [old EXCEPT !.allocated = old.allocated + x, !.grantedThrough = sequence,
                              !.lastTopUp = x]
           out == [l.outstanding EXCEPT ![g] = new]
           m == TopUpChild(l, g, sequence, request)
<1>1. x \in Nat /\ l.consumed + Allocated(l, Unsettled(l)) + x <= l.allocation
  BY GrantFits
<1>2. /\ m = [f \in LedgerFields |-> m[f]]
      /\ m.allocation = l.allocation /\ m.consumed = l.consumed
      /\ m.outstanding = [l.outstanding EXCEPT ![g] = new]
  <2>1. m = [l EXCEPT !.outstanding = out]
    BY DEF TopUpChild
  <2> HIDE DEF out, m
  <2>2. /\ m = [f \in LedgerFields |-> m[f]]
        /\ m.allocation = l.allocation /\ m.consumed = l.consumed /\ m.outstanding = out
    BY ZenonT(30), <2>1 DEF LedgerInv, LedgerFields
  <2> QED
    BY <2>2 DEF out
<1> HIDE DEF x
<1>3. g \in DOMAIN l.outstanding /\ old \in EscrowRecord /\ old.settled = NoAmount
  BY DEF IsUnsettled, LedgerInv
<1>4. /\ new \in EscrowRecord /\ new.settled = NoAmount /\ new.grantedThrough = sequence
      /\ new.allocated = old.allocated + x /\ new.lastTopUp = x /\ old.allocated \in Nat
  <2> HIDE DEF old
  <2>1. old.allocated \in Nat /\ old.allocated + x \in Nat
    BY <1>1, <1>3 DEF EscrowRecord
  <2> DEFINE y == old.allocated + x
             first == [old EXCEPT !.allocated = y]
             second == [first EXCEPT !.grantedThrough = sequence]
  <2> HIDE DEF y
  <2>2. y \in Nat
    BY <2>1 DEF y
  <2>3. first \in EscrowRecord /\ first.allocated = y /\ first.settled = NoAmount
    BY <1>3, <2>2 DEF EscrowRecord
  <2> HIDE DEF first
  <2>4. /\ second \in EscrowRecord /\ second.allocated = y /\ second.settled = NoAmount
        /\ second.grantedThrough = sequence
    BY <2>3 DEF EscrowRecord
  <2> HIDE DEF second
  <2>5. new = [second EXCEPT !.lastTopUp = x]
    BY DEF second, first, y
  <2> HIDE DEF new
  <2>6. /\ new \in EscrowRecord /\ new.allocated = y /\ new.settled = NoAmount
        /\ new.grantedThrough = sequence /\ new.lastTopUp = x
    BY Zenon, <1>1, <2>4, <2>5 DEF EscrowRecord
  <2> QED
    BY Zenon, <2>1, <2>6 DEF y
<1> HIDE DEF m, new
<1>5. /\ DOMAIN m.outstanding = DOMAIN l.outstanding
      /\ \A c \in DOMAIN l.outstanding \ {g} : m.outstanding[c] = l.outstanding[c]
      /\ m.outstanding[g] = new
  BY Zenon, <1>2, <1>3
<1>6. LedgerInv(m)
  BY Zenon, <1>2, <1>4, <1>5 DEF LedgerInv
<1>7. Unsettled(m) = Unsettled(l) /\ g \in Unsettled(l)
      /\ Unsettled(l) \in SUBSET DOMAIN l.outstanding
  BY Zenon, <1>3, <1>4, <1>5 DEF Unsettled
<1>8. /\ Allocated(m, Unsettled(m)) = new.allocated + Allocated(m, Unsettled(l) \ {g})
      /\ Allocated(l, Unsettled(l)) = old.allocated + Allocated(l, Unsettled(l) \ {g})
      /\ Allocated(l, Unsettled(l) \ {g}) \in Nat
  BY <1>5, <1>6, <1>7, AllocatedWithout
<1>9. Allocated(m, Unsettled(l) \ {g}) = Allocated(l, Unsettled(l) \ {g})
  BY <1>5, <1>7, AllocatedSame
<1>10. l.consumed \in Nat /\ l.allocation \in Nat
  BY DEF LedgerInv
<1> HIDE DEF old
<1>11. LimitInv(m)
  BY <1>1, <1>2, <1>4, <1>8, <1>9, <1>10 DEF LimitInv
<1> QED
  BY Zenon, <1>1, <1>2, <1>4, <1>5, <1>6, <1>11 DEF ToppedUp, m, x, old

\* m is the ledger l charged with the x that run g reported.
ChargedFor(l, m, g, x) ==
    /\ LedgerInv(m) /\ LimitInv(m) /\ m.consumed = l.consumed + x
    /\ DOMAIN m.outstanding = DOMAIN l.outstanding
    /\ \A c \in DOMAIN l.outstanding \ {g} : m.outstanding[c] = l.outstanding[c]
    /\ m.outstanding[g].settled = x

\* settle_child, the first report of a run that spent within its escrow.
LEMMA SettleMoney ==
    ASSUME NEW l, LedgerInv(l), LimitInv(l), NEW g, IsUnsettled(l, g),
           NEW x \in Nat, x <= l.outstanding[g].allocated
    PROVE  ChargedFor(l, SettleChild(l, g, x), g, x)
<1> DEFINE old == l.outstanding[g]
           new == [old EXCEPT !.settled = x]
           m == SettleChild(l, g, x)
<1>1. g \in DOMAIN l.outstanding /\ old \in EscrowRecord /\ old.settled = NoAmount
  BY DEF IsUnsettled, LedgerInv
<1>2. /\ m = [f \in LedgerFields |-> m[f]]
      /\ m.allocation = l.allocation /\ m.consumed = l.consumed + x
      /\ m.outstanding = [l.outstanding EXCEPT ![g] = new]
  BY ZenonT(30), <1>1 DEF SettleChild, LedgerInv, LedgerFields
<1>3. /\ new \in EscrowRecord /\ new.settled = x /\ old.allocated \in Nat
  <2> HIDE DEF old
  <2> QED
    BY <1>1 DEF EscrowRecord
<1> HIDE DEF m, new
<1>4. /\ DOMAIN m.outstanding = DOMAIN l.outstanding
      /\ \A c \in DOMAIN l.outstanding \ {g} : m.outstanding[c] = l.outstanding[c]
      /\ m.outstanding[g] = new
  BY <1>1, <1>2
<1>5. LedgerInv(m)
  <2>1. \A c \in DOMAIN m.outstanding : m.outstanding[c] \in EscrowRecord
    BY Zenon, <1>3, <1>4 DEF LedgerInv
  <2>2. m.allocation \in Nat /\ m.consumed \in Nat
    BY <1>2 DEF LedgerInv
  <2> QED
    BY Zenon, <1>2, <1>4, <2>1, <2>2 DEF LedgerInv
<1>6. /\ Unsettled(m) = Unsettled(l) \ {g} /\ g \in Unsettled(l)
      /\ Unsettled(l) \in SUBSET DOMAIN l.outstanding
  <2>1. x # NoAmount
    BY DEF NoAmount
  <2> QED
    BY <1>1, <1>3, <1>4, <2>1 DEF Unsettled
<1>7. /\ Allocated(l, Unsettled(l)) = old.allocated + Allocated(l, Unsettled(l) \ {g})
      /\ Allocated(l, Unsettled(l) \ {g}) \in Nat
  BY <1>6, AllocatedWithout
<1>8. Allocated(m, Unsettled(m)) = Allocated(l, Unsettled(l) \ {g})
  BY <1>4, <1>6, AllocatedSame
<1>9. l.consumed \in Nat /\ l.allocation \in Nat
  BY DEF LedgerInv
<1>10. x <= old.allocated
  BY Zenon
<1> HIDE DEF old
<1>11. LimitInv(m)
  BY <1>2, <1>3, <1>7, <1>8, <1>9, <1>10 DEF LimitInv
<1> QED
  BY Zenon, <1>2, <1>3, <1>4, <1>5, <1>11 DEF ChargedFor, m

\* return_child
LEMMA ReturnMoney ==
    ASSUME NEW l, LedgerInv(l), LimitInv(l), NEW g
    PROVE  LET m == ReturnChild(l, g)
           IN  /\ LedgerInv(m) /\ LimitInv(m) /\ m.consumed = l.consumed
               /\ DOMAIN m.outstanding \subseteq DOMAIN l.outstanding
               /\ DOMAIN l.outstanding \ {g} \subseteq DOMAIN m.outstanding
               /\ \A c \in DOMAIN m.outstanding : m.outstanding[c] = l.outstanding[c]
               /\ \A c : IsUnsettled(m, c) <=> IsUnsettled(l, c)
<1> DEFINE m == ReturnChild(l, g)
<1>1. CASE g \notin DOMAIN l.outstanding \/ l.outstanding[g].settled = NoAmount
  <2>1. m = l
    BY Zenon, <1>1 DEF ReturnChild
  <2> QED
    BY <2>1
<1>2. CASE g \in DOMAIN l.outstanding /\ l.outstanding[g].settled # NoAmount
  <2>1. /\ m = [f \in LedgerFields |-> m[f]]
        /\ m.allocation = l.allocation /\ m.consumed = l.consumed
        /\ m.outstanding = [c \in DOMAIN l.outstanding \ {g} |-> l.outstanding[c]]
    BY ZenonT(30), <1>2 DEF ReturnChild, LedgerInv, LedgerFields
  <2> HIDE DEF m
  <2>2. /\ DOMAIN m.outstanding = DOMAIN l.outstanding \ {g}
        /\ \A c \in DOMAIN m.outstanding : m.outstanding[c] = l.outstanding[c]
    BY <2>1
  <2>3. Small(DOMAIN m.outstanding)
    BY Zenon, <2>2, SmallSets DEF LedgerInv
  <2>4. LedgerInv(m)
    BY Zenon, <2>1, <2>2, <2>3 DEF LedgerInv
  <2>5. \A c : IsUnsettled(m, c) <=> IsUnsettled(l, c)
    BY Zenon, <1>2, <2>2 DEF IsUnsettled
  <2>6. Unsettled(m) = Unsettled(l)
    BY Zenon, <1>2, <2>2 DEF Unsettled
  <2>7. Allocated(m, Unsettled(m)) = Allocated(l, Unsettled(l))
    BY <2>2, <2>6, AllocatedSame DEF Unsettled
  <2>8. LimitInv(m)
    BY <2>1, <2>7 DEF LimitInv
  <2> QED
    BY Zenon, <2>1, <2>2, <2>4, <2>5, <2>8 DEF m
<1> QED
  BY Zenon, <1>1, <1>2
=============================================================================
