-------------------------- MODULE EntityRouteProofs --------------------------
(***************************************************************************)
(* Proofs about EntityRoute for every capacity, number of messages and     *)
(* number of calls: no incarnation runs outside the registry's slot, an    *)
(* accepted message is always in a queue, messages are handled in order,   *)
(* passivation drops none, and a shard that has left spawns nothing.       *)
(*                                                                         *)
(* The lemmas about queues come first: they say what each step does to a   *)
(* mailbox and a held queue as sequences.  The inductive invariant then    *)
(* ties both, the slot and the incarnations to the fates of the messages.  *)
(***************************************************************************)
EXTENDS EntityRoute, SequenceTheorems, TLAPS

Fates == {"unsent", "rejected", "accepted", "handled", "dropped"}

Phases == {"starting", "running", "stopping", "closed", "dead"}

Incarnations == [phase : Phases, box : Seq(Int)]

Slots ==
    [kind : {"none", "active", "stopping"}, uid : Nat, held : Seq(Msgs), reactivate : BOOLEAN,
     due : {"none", "future", "past"}, armed : BOOLEAN]

\* The user messages of a queue are in the order they were delivered.
Ordered(s) ==
    \A i, j \in 1..Len(s) : i < j /\ s[i] \in Msgs /\ s[j] \in Msgs => s[i] < s[j]

\* A mailbox and the messages held for the incarnation after it: every accepted message
\* is in one of them and nothing else is, in order, behind everything handled so far.
Queued(box, held, f) ==
    /\ Ordered(box) /\ Ordered(held)
    /\ \A k \in UserMsgs(box), m \in UserMsgs(held) : k < m
    /\ \A m \in Msgs : f[m] = "accepted" <=> m \in UserMsgs(box) \cup UserMsgs(held)
    /\ \A k, m \in Msgs : f[k] = "handled" /\ f[m] = "accepted" => k < m

\* Messages are delivered in order.
SentInOrder(f) == \A k, m \in Msgs : k < m /\ f[k] = "unsent" => f[m] = "unsent"

------------------------------------------------------------------------------
\* Messages are numbers.
LEMMA MsgsAreNumbers ==
    Msgs \subseteq Nat /\ StopEnvelope \notin Msgs /\ StopMessage \notin Msgs
BY RouteAssumption DEF Msgs, StopEnvelope, StopMessage

LEMMA SeqMsgs == ASSUME NEW s \in Seq(Msgs) PROVE s \in Seq(Int)
<1>1. Msgs \subseteq Int
  BY MsgsAreNumbers
<1> QED
  BY Zenon, <1>1, SeqMonotonic

\* Appending x to a queue.
LEMMA AppendUser ==
    ASSUME NEW s \in Seq(Int), NEW x \in Int
    PROVE  UserMsgs(Append(s, x)) = UserMsgs(s) \cup ({x} \cap Msgs)
<1>1. /\ Append(s, x) \in Seq(Int) /\ Len(Append(s, x)) = Len(s) + 1 /\ Len(s) \in Nat
      /\ \A i \in 1..Len(s) : Append(s, x)[i] = s[i]
      /\ Append(s, x)[Len(s) + 1] = x
  OBVIOUS
<1> QED
  BY <1>1 DEF UserMsgs

LEMMA AppendOrdered ==
    ASSUME NEW s \in Seq(Int), NEW x \in Int, Ordered(s),
           x \in Msgs => \A k \in UserMsgs(s) : k < x
    PROVE  Ordered(Append(s, x))
<1>1. /\ Append(s, x) \in Seq(Int) /\ Len(Append(s, x)) = Len(s) + 1 /\ Len(s) \in Nat
      /\ \A i \in 1..Len(s) : Append(s, x)[i] = s[i]
      /\ Append(s, x)[Len(s) + 1] = x
  OBVIOUS
<1> QED
  BY <1>1 DEF Ordered, UserMsgs

LEMMA EmptyQueue == UserMsgs(<<>>) = {} /\ Ordered(<<>>)
BY DEF UserMsgs, Ordered

\* Taking the first of a queue.
LEMMA TailUser ==
    ASSUME NEW s \in Seq(Int), s # <<>>
    PROVE  UserMsgs(s) = UserMsgs(Tail(s)) \cup ({Head(s)} \cap Msgs)
<1>1. /\ Tail(s) \in Seq(Int) /\ Len(s) \in Nat \ {0} /\ Len(Tail(s)) = Len(s) - 1
      /\ \A i \in 1..Len(Tail(s)) : Tail(s)[i] = s[i + 1]
      /\ Head(s) = s[1]
  OBVIOUS
<1>2. ASSUME NEW m \in Msgs, NEW i \in 1..Len(s), s[i] = m
      PROVE  m \in UserMsgs(Tail(s)) \/ m = Head(s)
  <2>1. CASE i = 1
    BY <1>1, <1>2, <2>1
  <2>2. CASE i # 1
    <3>1. i - 1 \in 1..Len(Tail(s)) /\ Tail(s)[i - 1] = s[i]
      BY <1>1, <2>2
    <3> QED
      BY Zenon, <1>2, <3>1 DEF UserMsgs
  <2> QED
    BY <2>1, <2>2
<1>3. ASSUME NEW m \in Msgs, m \in UserMsgs(Tail(s)) \/ m = Head(s)
      PROVE  m \in UserMsgs(s)
  <2>1. CASE m = Head(s)
    BY <1>1, <2>1 DEF UserMsgs
  <2>2. CASE m \in UserMsgs(Tail(s))
    <3>1. PICK i \in 1..Len(Tail(s)) : Tail(s)[i] = m
      BY <2>2 DEF UserMsgs
    <3>2. i + 1 \in 1..Len(s) /\ s[i + 1] = m
      BY <1>1, <3>1
    <3> QED
      BY <3>2 DEF UserMsgs
  <2> QED
    BY <1>3, <2>1, <2>2
<1> QED
  BY <1>2, <1>3 DEF UserMsgs

LEMMA TailOrdered ==
    ASSUME NEW s \in Seq(Int), s # <<>>, Ordered(s)
    PROVE  Ordered(Tail(s)) /\ (Head(s) \in Msgs => \A m \in UserMsgs(Tail(s)) : Head(s) < m)
<1>1. /\ Tail(s) \in Seq(Int) /\ Len(s) \in Nat \ {0} /\ Len(Tail(s)) = Len(s) - 1
      /\ \A i \in 1..Len(Tail(s)) : Tail(s)[i] = s[i + 1]
      /\ Head(s) = s[1]
  OBVIOUS
<1>2. \A i \in 1..Len(Tail(s)) : i + 1 \in 1..Len(s) /\ 1 < i + 1
  BY <1>1
<1>3. Ordered(Tail(s))
  BY <1>1, <1>2 DEF Ordered
<1>4. Head(s) \in Msgs => \A m \in UserMsgs(Tail(s)) : Head(s) < m
  BY <1>1, <1>2 DEF Ordered, UserMsgs
<1> QED
  BY <1>3, <1>4

------------------------------------------------------------------------------
(* What becomes of the queues. *)

\* A message that is delivered and refused.
LEMMA RejectKeeps ==
    ASSUME NEW f \in [Msgs -> Fates], NEW m \in Msgs, f[m] = "unsent",
           NEW box, NEW held, Queued(box, held, f)
    PROVE  Queued(box, held, [f EXCEPT ![m] = "rejected"])
BY DEF Queued

\* The message delivered next is behind every message queued or handled.
LEMMA NextIsLast ==
    ASSUME NEW f \in [Msgs -> Fates], SentInOrder(f), NEW m \in Msgs, f[m] = "unsent",
           NEW k \in Msgs, f[k] # "unsent"
    PROVE  k < m
BY MsgsAreNumbers DEF SentInOrder

LEMMA TellKeeps ==
    ASSUME NEW f \in [Msgs -> Fates], SentInOrder(f), NEW m \in Msgs, f[m] = "unsent",
           NEW box \in Seq(Int), Queued(box, <<>>, f)
    PROVE  Queued(Append(box, m), <<>>, [f EXCEPT ![m] = "accepted"])
<1>1. \A k \in UserMsgs(box) : k \in Msgs /\ f[k] = "accepted"
  BY DEF Queued, UserMsgs
<1>2. \A k \in Msgs : f[k] # "unsent" => k < m
  BY NextIsLast
<1>3. Ordered(Append(box, m)) /\ UserMsgs(Append(box, m)) = UserMsgs(box) \cup {m}
  <2>1. Ordered(box) /\ box \in Seq(Int) /\ m \in Int /\ \A k \in UserMsgs(box) : k < m
    BY <1>1, <1>2, MsgsAreNumbers DEF Queued
  <2>2. Ordered(Append(box, m))
    BY <2>1, AppendOrdered
  <2>3. UserMsgs(Append(box, m)) = UserMsgs(box) \cup ({m} \cap Msgs)
    BY <2>1, AppendUser
  <2> QED
    BY <2>2, <2>3
<1>4. \A k \in Msgs : f[k] = "accepted" <=> k \in UserMsgs(box)
  BY EmptyQueue DEF Queued
<1> QED
  BY <1>2, <1>3, <1>4, EmptyQueue DEF Queued

LEMMA HoldKeeps ==
    ASSUME NEW f \in [Msgs -> Fates], SentInOrder(f), NEW m \in Msgs, f[m] = "unsent",
           NEW box, NEW held \in Seq(Msgs), Queued(box, held, f)
    PROVE  Queued(box, Append(held, m), [f EXCEPT ![m] = "accepted"])
<1>1. \A k \in UserMsgs(box) \cup UserMsgs(held) : k \in Msgs /\ f[k] = "accepted"
  BY DEF Queued, UserMsgs
<1>2. \A k \in Msgs : f[k] # "unsent" => k < m
  BY NextIsLast
<1>3. Ordered(Append(held, m)) /\ UserMsgs(Append(held, m)) = UserMsgs(held) \cup {m}
  <2> held \in Seq(Int)
    BY SeqMsgs
  <2>1. Ordered(held) /\ m \in Int /\ \A k \in UserMsgs(held) : k < m
    BY <1>1, <1>2, MsgsAreNumbers DEF Queued
  <2>2. Ordered(Append(held, m))
    BY <2>1, AppendOrdered
  <2>3. UserMsgs(Append(held, m)) = UserMsgs(held) \cup ({m} \cap Msgs)
    BY <2>1, AppendUser
  <2> QED
    BY <2>2, <2>3
<1>4. \A k \in UserMsgs(box) : k < m
  BY <1>1, <1>2
<1>5. \A k \in Msgs : f[k] = "accepted" <=> k \in UserMsgs(box) \cup UserMsgs(held)
  BY DEF Queued
<1> QED
  BY <1>2, <1>3, <1>4, <1>5 DEF Queued

\* The held messages become the mailbox of the next incarnation.
LEMMA HandOverKeeps ==
    ASSUME NEW f, NEW held, Queued(<<>>, held, f)
    PROVE  Queued(held, <<>>, f)
BY EmptyQueue DEF Queued

\* A stop, or a stop message, is queued.
LEMMA PadKeeps ==
    ASSUME NEW f, NEW box \in Seq(Int), NEW held, Queued(box, held, f),
           NEW x \in Int, x \notin Msgs
    PROVE  Queued(Append(box, x), held, f)
<1>1. Ordered(box)
  BY DEF Queued
<1>2. Ordered(Append(box, x))
  BY <1>1, AppendOrdered
<1>3. UserMsgs(Append(box, x)) = UserMsgs(box) \cup ({x} \cap Msgs)
  BY AppendUser
<1> QED
  BY <1>2, <1>3 DEF Queued

\* The first of a mailbox is handled.
LEMMA HandleKeeps ==
    ASSUME NEW f \in [Msgs -> Fates], NEW box \in Seq(Int), box # <<>>, NEW held,
           Queued(box, held, f)
    PROVE  /\ Queued(Tail(box), held,
                     IF Head(box) \in Msgs THEN [f EXCEPT ![Head(box)] = "handled"] ELSE f)
           /\ Head(box) \in Msgs =>
                 f[Head(box)] = "accepted" /\ \A k \in Msgs : f[k] = "handled" => k < Head(box)
<1> DEFINE e == Head(box)
<1>1. /\ UserMsgs(box) = UserMsgs(Tail(box)) \cup ({e} \cap Msgs)
      /\ Ordered(Tail(box)) /\ (e \in Msgs => \A m \in UserMsgs(Tail(box)) : e < m)
  BY TailUser, TailOrdered DEF Queued
<1>2. CASE e \notin Msgs
  BY <1>1, <1>2 DEF Queued
<1>3. CASE e \in Msgs
  <2> HIDE DEF e
  <2>1. f[e] = "accepted" /\ \A k \in Msgs : f[k] = "handled" => k < e
    BY <1>1, <1>3 DEF Queued
  <2>2. \A m \in UserMsgs(Tail(box)) \cup UserMsgs(held) : e < m /\ m # e
    <3> TAKE m \in UserMsgs(Tail(box)) \cup UserMsgs(held)
    <3>1. e < m
      BY Zenon, <1>1, <1>3 DEF Queued
    <3>2. m \in Msgs
      BY DEF UserMsgs
    <3> QED BY <1>3, <3>1, <3>2, MsgsAreNumbers
  <2> DEFINE g == [f EXCEPT ![e] = "handled"]
  <2>3. \A m \in Msgs : g[m] = IF m = e THEN "handled" ELSE f[m]
    BY <1>3
  <2> HIDE DEF g
  <2>4. \A m \in Msgs : g[m] = "accepted" <=> m \in UserMsgs(Tail(box)) \cup UserMsgs(held)
    BY <1>1, <1>3, <2>2, <2>3 DEF Queued
  <2>5. \A k, m \in Msgs : g[k] = "handled" /\ g[m] = "accepted" => k < m
    BY <2>2, <2>3, <2>4 DEF Queued
  <2>6. \A k \in UserMsgs(Tail(box)), m \in UserMsgs(held) : k < m
    BY <1>1 DEF Queued
  <2>7. Queued(Tail(box), held, g)
    BY <1>1, <2>4, <2>5, <2>6 DEF Queued
  <2> QED
    BY <1>3, <2>1, <2>7 DEF e, g
<1> QED
  BY <1>2, <1>3

\* A mailbox is drained, or what is held is dropped.
LEMMA DropKeeps ==
    ASSUME NEW f \in [Msgs -> Fates], NEW box, NEW held, Queued(box, held, f)
    PROVE  /\ Queued(<<>>, held, [m \in Msgs |-> IF m \in UserMsgs(box) THEN "dropped" ELSE f[m]])
           /\ Queued(box, <<>>, [m \in Msgs |-> IF m \in UserMsgs(held) THEN "dropped" ELSE f[m]])
<1>1. \A k \in UserMsgs(box), m \in UserMsgs(held) : k # m
  BY MsgsAreNumbers DEF Queued, UserMsgs
<1> QED
  BY <1>1, EmptyQueue DEF Queued

\* A step that sends one message at most keeps the order of the rest.
LEMMA SentKeeps ==
    ASSUME NEW f \in [Msgs -> Fates], NEW g \in [Msgs -> Fates], SentInOrder(f),
           \/ \A k \in Msgs : g[k] = "unsent" <=> f[k] = "unsent"
           \/ \E m \in Msgs : /\ \A k \in 1..(m - 1) : f[k] # "unsent"
                              /\ \A k \in Msgs : g[k] = "unsent" <=> f[k] = "unsent" /\ k # m
    PROVE  SentInOrder(g)
<1>1. CASE \A k \in Msgs : g[k] = "unsent" <=> f[k] = "unsent"
  BY <1>1 DEF SentInOrder
<1>2. ASSUME NEW n \in Msgs, \A k \in 1..(n - 1) : f[k] # "unsent",
             \A k \in Msgs : g[k] = "unsent" <=> f[k] = "unsent" /\ k # n
      PROVE  SentInOrder(g)
  <2>1. \A k, m \in Msgs : k < m /\ m = n => k \in 1..(n - 1)
    BY DEF Msgs
  <2> QED
    BY <1>2, <2>1 DEF SentInOrder
<1> QED
  BY <1>1, <1>2

------------------------------------------------------------------------------
(* Stops in a mailbox. *)

Clean(box) == \A i \in 1..Len(box) : box[i] # StopEnvelope

\* Nothing a sender waits for is behind a stop.
StopLast(box) ==
    \A i, j \in 1..Len(box) : i < j /\ box[i] = StopEnvelope => box[j] \notin Msgs

LEMMA AppendStops ==
    ASSUME NEW s \in Seq(Int), NEW x \in Int
    PROVE  /\ Clean(s) /\ x # StopEnvelope => Clean(Append(s, x))
           /\ Clean(s) => StopLast(Append(s, x))
<1>1. /\ Append(s, x) \in Seq(Int) /\ Len(Append(s, x)) = Len(s) + 1 /\ Len(s) \in Nat
      /\ \A i \in 1..Len(s) : Append(s, x)[i] = s[i]
      /\ Append(s, x)[Len(s) + 1] = x
  OBVIOUS
<1> QED
  BY <1>1 DEF Clean, StopLast

LEMMA TailStops ==
    ASSUME NEW s \in Seq(Int), s # <<>>
    PROVE  /\ Clean(s) => Clean(Tail(s)) /\ Head(s) # StopEnvelope
           /\ StopLast(s) => /\ StopLast(Tail(s))
                             /\ Head(s) = StopEnvelope => UserMsgs(Tail(s)) = {}
<1>1. /\ Tail(s) \in Seq(Int) /\ Len(s) \in Nat \ {0} /\ Len(Tail(s)) = Len(s) - 1
      /\ \A i \in 1..Len(Tail(s)) : Tail(s)[i] = s[i + 1]
      /\ Head(s) = s[1]
  OBVIOUS
<1>2. /\ \A i \in 1..Len(Tail(s)) : i + 1 \in 1..Len(s) /\ 1 < i + 1
      /\ 1 \in 1..Len(s)
  BY <1>1
<1>3. Clean(s) => Clean(Tail(s)) /\ Head(s) # StopEnvelope
  BY <1>1, <1>2 DEF Clean
<1>4. StopLast(s) => StopLast(Tail(s))
  BY <1>1, <1>2 DEF StopLast
<1>5. StopLast(s) /\ Head(s) = StopEnvelope => UserMsgs(Tail(s)) = {}
  BY <1>1, <1>2 DEF StopLast, UserMsgs
<1> QED
  BY <1>3, <1>4, <1>5

LEMMA HeldIsClean ==
    ASSUME NEW s \in Seq(Msgs)
    PROVE  Clean(s) /\ StopLast(s)
BY MsgsAreNumbers DEF Clean, StopLast

------------------------------------------------------------------------------
(* The inductive invariant. *)

\* An incarnation that may lose none of its messages: an active one has not begun to
\* stop, and a stopping one has no user message behind its stop.
Unharmed(kind, phase, box) ==
    /\ kind = "active" => phase \in {"starting", "running"} /\ Clean(box)
    /\ kind = "stopping" =>
          /\ StopLast(box)
          /\ phase \notin {"starting", "running"} => UserMsgs(box) = {}

SlotInv(s) == s \in Slots /\ (s.kind # "stopping" => s.held = <<>> /\ s.reactivate = FALSE)

IncInv(r) == r \in Incarnations /\ (r.phase \in {"closed", "dead"} => r.box = <<>>)

RegistryInv ==
    /\ SlotInv(slot)
    /\ inc \in Seq(Incarnations) /\ \A u \in Uids : IncInv(inc[u])
    /\ slot.kind # "none" => slot.uid \in Uids
    /\ NoOrphanIncarnation

MessagesInv ==
    /\ fate \in [Msgs -> Fates] /\ SentInOrder(fate)
    /\ Queued(Box, slot.held, fate)

LossInv ==
    /\ terminating => excused
    /\ ~excused => /\ \A m \in Msgs : fate[m] # "dropped"
                   /\ Unharmed(slot.kind, Phase, Box)

AwayInv == left => shard = "Transferring" /\ slot.held = <<>> /\ slot.reactivate = FALSE

IInv == RegistryInv /\ MessagesInv /\ LossInv /\ AwayInv

\* What a step establishes, with the incarnation it leaves in the slot.
After(kind, held, reactivate, phase, box) ==
    /\ fate' \in [Msgs -> Fates] /\ SentInOrder(fate')
    /\ Queued(box, held, fate')
    /\ terminating' => excused'
    /\ ~excused' => (\A m \in Msgs : fate'[m] # "dropped") /\ Unharmed(kind, phase, box)
    /\ left' => shard' = "Transferring" /\ held = <<>> /\ reactivate = FALSE

\* The incarnation in the slot.
LEMMA InSlot ==
    ASSUME IInv, slot.kind # "none"
    PROVE  /\ slot.uid \in Uids /\ IncInv(inc[slot.uid])
           /\ Phase = inc[slot.uid].phase /\ Box = inc[slot.uid].box
           /\ Phase \in Phases /\ Box \in Seq(Int)
           /\ Phase \in {"closed", "dead"} => Box = <<>>
BY DEF IInv, RegistryInv, IncInv, Phase, Box, Incarnations

\* A step of the incarnation in the slot, which stays there.
LEMMA CurrentStep ==
    ASSUME IInv, slot.kind # "none", NEW r, IncInv(r), inc' = [inc EXCEPT ![slot.uid] = r],
           SlotInv(slot'), slot'.kind # "none", slot'.uid = slot.uid,
           After(slot'.kind, slot'.held, slot'.reactivate, r.phase, r.box)
    PROVE  IInv'
<1>1. slot.uid \in Uids /\ inc \in Seq(Incarnations) /\ r \in Incarnations
  BY DEF IInv, RegistryInv, IncInv
<1>2. /\ inc' \in Seq(Incarnations) /\ Len(inc') = Len(inc) /\ inc'[slot.uid] = r
      /\ \A u \in Uids : u # slot.uid => inc'[u] = inc[u]
  BY <1>1, ExceptSeq DEF Uids
<1>3. Uids' = Uids
  BY <1>2 DEF Uids
<1>4. Phase' = r.phase /\ Box' = r.box
  BY <1>2 DEF Phase, Box
<1>5. RegistryInv'
  BY Zenon, <1>1, <1>2, <1>3 DEF IInv, RegistryInv, NoOrphanIncarnation
<1> QED
  BY <1>4, <1>5 DEF IInv, After, MessagesInv, LossInv, AwayInv

\* A step that leaves the incarnations alone.
LEMMA SlotStep ==
    ASSUME IInv, inc' = inc, SlotInv(slot'), slot'.uid = slot.uid,
           slot'.kind = "none" <=> slot.kind = "none",
           After(slot'.kind, slot'.held, slot'.reactivate, Phase, Box)
    PROVE  IInv'
<1>1. Phase' = Phase /\ Box' = Box /\ Uids' = Uids
  BY DEF Phase, Box, Uids
<1>2. RegistryInv'
  BY Zenon, <1>1 DEF IInv, RegistryInv, NoOrphanIncarnation
<1> QED
  BY Zenon, <1>1, <1>2 DEF IInv, After, MessagesInv, LossInv, AwayInv

\* A terminated incarnation gives way to a new one,
LEMMA FreshStep ==
    ASSUME IInv, slot.kind = "none" \/ Terminated, NEW r, IncInv(r), inc' = Append(inc, r),
           SlotInv(slot'), slot'.kind # "none", slot'.uid = Len(inc) + 1,
           After(slot'.kind, slot'.held, slot'.reactivate, r.phase, r.box)
    PROVE  IInv'
<1>1. inc \in Seq(Incarnations) /\ r \in Incarnations /\ Len(inc) \in Nat
  BY DEF IInv, RegistryInv, IncInv
<1>2. /\ inc' \in Seq(Incarnations) /\ Len(inc') = Len(inc) + 1 /\ inc'[Len(inc) + 1] = r
      /\ \A u \in Uids : inc'[u] = inc[u]
  BY <1>1 DEF Uids
<1>3. Uids' = Uids \cup {Len(inc) + 1}
  BY <1>1, <1>2 DEF Uids
<1>4. Phase' = r.phase /\ Box' = r.box
  BY <1>2 DEF Phase, Box
<1>5. \A u \in Uids : inc[u].phase = "dead"
  BY DEF IInv, RegistryInv, NoOrphanIncarnation, Terminated, Phase
<1>6. RegistryInv'
  BY Zenon, <1>2, <1>3, <1>5 DEF IInv, RegistryInv, NoOrphanIncarnation
<1> QED
  BY <1>4, <1>6 DEF IInv, After, MessagesInv, LossInv, AwayInv

\* or leaves the slot empty.
LEMMA ClearStep ==
    ASSUME IInv, slot.kind = "none" \/ Terminated, inc' = inc, slot' = NoSlot,
           After("none", <<>>, FALSE, "none", <<>>)
    PROVE  IInv'
<1>1. /\ SlotInv(slot') /\ slot'.kind = "none" /\ slot'.held = <<>> /\ slot'.reactivate = FALSE
  BY DEF NoSlot, SlotInv, Slots
<1>2. Phase' = "none" /\ Box' = <<>> /\ Uids' = Uids
  BY <1>1 DEF Phase, Box, Uids
<1>3. \A u \in Uids : inc[u].phase = "dead"
  BY DEF IInv, RegistryInv, NoOrphanIncarnation, Terminated, Phase
<1>4. RegistryInv'
  BY <1>1, <1>2, <1>3 DEF IInv, RegistryInv, NoOrphanIncarnation
<1> QED
  BY <1>1, <1>2, <1>4 DEF IInv, After, MessagesInv, LossInv, AwayInv

------------------------------------------------------------------------------
(* deliver *)

LEMMA NotedKeeps ==
    ASSUME NEW s, SlotInv(s)
    PROVE  /\ SlotInv(Noted(s)) /\ Noted(s).kind = s.kind /\ Noted(s).uid = s.uid
           /\ Noted(s).held = s.held /\ Noted(s).reactivate = s.reactivate
BY Zenon DEF SlotInv, Slots, Noted

LEMMA NewSlots ==
    ASSUME NEW u \in Nat, NEW held \in Seq(Msgs)
    PROVE  /\ SlotInv(NoSlot) /\ SlotInv(Active(u)) /\ SlotInv(Stopping(u, held))
           /\ Active(u).kind = "active" /\ Active(u).uid = u
           /\ Active(u).held = <<>> /\ Active(u).reactivate = FALSE
           /\ Stopping(u, held).kind = "stopping" /\ Stopping(u, held).uid = u
           /\ Stopping(u, held).held = held /\ Stopping(u, held).reactivate = FALSE
<1>1. <<>> \in Seq(Msgs)
  OBVIOUS
<1>2. NoSlot \in Slots /\ Active(u) \in Slots /\ Stopping(u, held) \in Slots
  BY Zenon, <1>1 DEF Slots, NoSlot, Active, Stopping
<1>3. /\ NoSlot.held = <<>> /\ NoSlot.reactivate = FALSE
      /\ Active(u).kind = "active" /\ Active(u).uid = u
      /\ Active(u).held = <<>> /\ Active(u).reactivate = FALSE
      /\ Stopping(u, held).kind = "stopping" /\ Stopping(u, held).uid = u
      /\ Stopping(u, held).held = held /\ Stopping(u, held).reactivate = FALSE
  BY DEF NoSlot, Active, Stopping
<1> QED
  BY <1>2, <1>3 DEF SlotInv

LEMMA NewActive ==
    ASSUME NEW u \in Nat, NEW s \in {Active(u), Noted(Active(u))}
    PROVE  /\ SlotInv(s) /\ s.kind = "active" /\ s.uid = u
           /\ s.held = <<>> /\ s.reactivate = FALSE
<1>1. <<>> \in Seq(Msgs)
  OBVIOUS
<1>2. /\ SlotInv(Active(u)) /\ Active(u).kind = "active" /\ Active(u).uid = u
      /\ Active(u).held = <<>> /\ Active(u).reactivate = FALSE
  BY Zenon, <1>1, NewSlots
<1>3. CASE s = Active(u)
  BY <1>2, <1>3
<1>4. CASE s = Noted(Active(u))
  BY Zenon, <1>2, <1>4, NotedKeeps
<1> QED
  BY Zenon, <1>3, <1>4

\* What the invariant says before a step.
LEMMA Before ==
    ASSUME IInv
    PROVE  /\ fate \in [Msgs -> Fates] /\ SentInOrder(fate)
           /\ Queued(Box, slot.held, fate)
           /\ slot.held \in Seq(Msgs) /\ slot.uid \in Nat
           /\ slot.kind \in {"none", "active", "stopping"}
           /\ slot.kind # "stopping" => slot.held = <<>> /\ slot.reactivate = FALSE
           /\ Box \in Seq(Int)
           /\ slot.kind = "none" \/ Terminated => Box = <<>>
<1>1. slot.kind = "none" => Box = <<>> /\ Box \in Seq(Int)
  BY DEF Box
<1>2. slot.kind # "none" => Box \in Seq(Int) /\ (Terminated => Box = <<>>)
  BY InSlot DEF Terminated
<1>3. SlotInv(slot) /\ MessagesInv
  BY DEF IInv, RegistryInv
<1>4. /\ slot.held \in Seq(Msgs) /\ slot.uid \in Nat
      /\ slot.kind \in {"none", "active", "stopping"}
      /\ slot.kind # "stopping" => slot.held = <<>> /\ slot.reactivate = FALSE
  BY <1>3 DEF SlotInv, Slots
<1> QED
  BY <1>1, <1>2, <1>3, <1>4 DEF MessagesInv

\* A message gets its first fate.
LEMMA SendKeeps ==
    ASSUME IInv, NEW m \in Msgs, NextMessage(m), NEW to \in {"accepted", "rejected"}
    PROVE  /\ fate[m] = "unsent"
           /\ [fate EXCEPT ![m] = to] \in [Msgs -> Fates]
           /\ SentInOrder([fate EXCEPT ![m] = to])
           /\ (\A k \in Msgs : fate[k] # "dropped") =>
                 \A k \in Msgs : [fate EXCEPT ![m] = to][k] # "dropped"
<1> DEFINE g == [fate EXCEPT ![m] = to]
<1>1. fate[m] = "unsent" /\ \A k \in 1..(m - 1) : fate[k] # "unsent"
  BY DEF NextMessage
<1>2. /\ g \in [Msgs -> Fates]
      /\ \A k \in Msgs : g[k] = IF k = m THEN to ELSE fate[k]
  BY Before DEF Fates
<1> HIDE DEF g
<1>3. SentInOrder(g)
  <2>1. \A k \in Msgs : g[k] = "unsent" <=> fate[k] = "unsent" /\ k # m
    BY <1>1, <1>2
  <2>2. fate \in [Msgs -> Fates] /\ SentInOrder(fate)
    BY Before
  <2> QED
    BY <1>1, <1>2, <2>1, <2>2, SentKeeps
<1> QED
  BY <1>1, <1>2, <1>3 DEF g

\* Something is queued in the mailbox of the incarnation in the slot.
LEMMA BoxChange ==
    ASSUME IInv, slot.kind # "none", NEW b
    PROVE  [inc EXCEPT ![slot.uid].box = b] = [inc EXCEPT ![slot.uid] = [phase |-> Phase, box |-> b]]
<1>1. inc[slot.uid] \in Incarnations /\ inc[slot.uid].phase = Phase
  BY InSlot DEF IncInv
<1>2. [inc[slot.uid] EXCEPT !.box = b] = [phase |-> Phase, box |-> b]
  BY <1>1 DEF Incarnations
<1> QED
  BY Zenon, <1>2

LEMMA RejectStep ==
    ASSUME IInv, NEW m \in Msgs, NextMessage(m), Reject(m)
    PROVE  IInv'
<1> DEFINE g == [fate EXCEPT ![m] = "rejected"]
<1>1. /\ fate' = g /\ slot' = slot /\ inc' = inc /\ shard' = shard /\ left' = left
      /\ terminating' = terminating /\ excused' = excused
  BY DEF Reject, shardVars
<1>2. /\ g \in [Msgs -> Fates] /\ SentInOrder(g)
      /\ (\A k \in Msgs : fate[k] # "dropped") => \A k \in Msgs : g[k] # "dropped"
  BY Zenon, SendKeeps
<1>3. Queued(Box, slot.held, g)
  BY Zenon, Before, SendKeeps, RejectKeeps
<1> HIDE DEF g
<1>4. After(slot.kind, slot.held, slot.reactivate, Phase, Box)
  BY Zenon, <1>1, <1>2, <1>3 DEF After, IInv, LossInv, AwayInv
<1>5. SlotInv(slot)
  BY DEF IInv, RegistryInv
<1> QED
  BY <1>1, <1>4, <1>5, SlotStep

LEMMA TellStep ==
    ASSUME IInv, NEW m \in Msgs, Tell(m)
    PROVE  IInv'
<1> DEFINE g == [fate EXCEPT ![m] = "accepted"]
           r == [phase |-> Phase, box |-> Append(Box, m)]
<1>1. /\ NextMessage(m) /\ slot.kind = "active" /\ Phase \in {"starting", "running", "stopping"}
      /\ inc' = [inc EXCEPT ![slot.uid].box = Append(@, m)] /\ slot' = Noted(slot)
      /\ fate' = g /\ shard' = shard /\ left' = left
      /\ terminating' = terminating /\ excused' = excused
  BY DEF Tell, shardVars
<1>2. /\ slot.uid \in Uids /\ inc[slot.uid] \in Incarnations /\ inc \in Seq(Incarnations)
      /\ inc[slot.uid].phase = Phase /\ inc[slot.uid].box = Box /\ Box \in Seq(Int)
  BY <1>1, InSlot DEF IncInv, IInv, RegistryInv
<1>3. m \in Int /\ m # StopEnvelope
  BY MsgsAreNumbers
<1>4. /\ g \in [Msgs -> Fates] /\ SentInOrder(g)
      /\ (\A k \in Msgs : fate[k] # "dropped") => \A k \in Msgs : g[k] # "dropped"
  BY Zenon, <1>1, SendKeeps
<1>5. Queued(Append(Box, m), <<>>, g)
  BY ZenonT(30), <1>1, <1>2, Before, SendKeeps, TellKeeps
<1>6. IncInv(r) /\ r.phase = Phase /\ r.box = Append(Box, m)
  BY <1>1, <1>2, <1>3 DEF IncInv, Incarnations, Phases
<1>7. inc' = [inc EXCEPT ![slot.uid] = r]
  <2>1. inc' = [inc EXCEPT ![slot.uid].box = Append(Box, m)]
    BY <1>1, <1>2
  <2> QED
    BY Zenon, <1>1, <2>1, BoxChange
<1>8. ~excused => Unharmed("active", Phase, Append(Box, m))
  BY <1>1, <1>2, <1>3, AppendStops DEF IInv, LossInv, Unharmed
<1>9. /\ SlotInv(slot') /\ slot'.kind = "active" /\ slot'.uid = slot.uid
      /\ slot'.held = <<>> /\ slot'.reactivate = FALSE
  BY Zenon, <1>1, NotedKeeps, Before DEF IInv, RegistryInv
<1> HIDE DEF g, r
<1>10. After(slot'.kind, slot'.held, slot'.reactivate, r.phase, r.box)
  BY <1>1, <1>4, <1>5, <1>6, <1>8, <1>9 DEF After, IInv, LossInv, AwayInv
<1> QED
  BY Zenon, <1>1, <1>6, <1>7, <1>9, <1>10, CurrentStep

\* A message is held for the incarnation after the one that stops.
LEMMA HoldStep ==
    ASSUME IInv, NEW m \in Msgs, HoldBehindSelfStop(m) \/ Hold(m)
    PROVE  IInv'
<1> DEFINE g == [fate EXCEPT ![m] = "accepted"]
           h == Append(slot.held, m)
<1>1. /\ NextMessage(m) /\ ~left /\ slot.kind # "none"
      /\ slot.kind = "active" => Phase \in {"stopping", "closed", "dead"}
      /\ fate' = g /\ inc' = inc /\ shard' = shard /\ left' = left
      /\ terminating' = terminating /\ excused' = excused
  BY DEF HoldBehindSelfStop, Hold, shardVars, Accepts, IInv, AwayInv
<1>2. h \in Seq(Msgs)
  BY Before
<1>3. /\ g \in [Msgs -> Fates] /\ SentInOrder(g)
      /\ (\A k \in Msgs : fate[k] # "dropped") => \A k \in Msgs : g[k] # "dropped"
  BY Zenon, <1>1, SendKeeps
<1>4. Queued(Box, h, g)
  BY Zenon, <1>1, Before, SendKeeps, HoldKeeps
<1>5. SlotInv(slot') /\ slot'.kind = "stopping" /\ slot'.uid = slot.uid /\ slot'.held = h
  <2>1. CASE HoldBehindSelfStop(m)
    <3>1. slot' = Stopping(slot.uid, <<m>>) /\ slot.held = <<>>
      BY <2>1, Before DEF HoldBehindSelfStop
    <3>2. h = <<m>>
      BY <3>1
    <3> QED
      BY ZenonT(30), <1>2, <3>1, <3>2, NewSlots, Before
  <2>2. CASE Hold(m)
    <3>1. slot' = [slot EXCEPT !.held = h] /\ slot.kind = "stopping" /\ slot \in Slots
      BY <2>2 DEF Hold, IInv, RegistryInv, SlotInv, Slots
    <3> HIDE DEF h
    <3> QED
      BY ZenonT(30), <1>2, <3>1 DEF SlotInv, Slots
  <2> QED
    BY <2>1, <2>2
<1>6. ~excused => Unharmed("stopping", Phase, Box)
  BY Zenon, <1>1, Before DEF IInv, LossInv, Unharmed
<1> HIDE DEF g, h
<1>7. After(slot'.kind, slot'.held, slot'.reactivate, Phase, Box)
  BY <1>1, <1>3, <1>4, <1>5, <1>6 DEF After, IInv, LossInv
<1> QED
  BY <1>1, <1>5, <1>7, SlotStep

------------------------------------------------------------------------------
(* Activation *)

\* What is passed on to a new incarnation: nothing, or the message delivered.
Incoming(new) == new = <<>> \/ \E m \in Msgs : NextMessage(m) /\ new = <<m>>

LEMMA OneMessage == ASSUME NEW m \in Msgs PROVE UserMsgs(<<m>>) = {m}
BY DEF UserMsgs

\* The fates when what was held is dropped and what comes in is returned.
DropsAll(held, new) ==
    [m \in Msgs |-> IF m \in UserMsgs(held) THEN "dropped"
                    ELSE IF m \in UserMsgs(new) THEN "rejected" ELSE fate[m]]

LEMMA DropsAllKeeps ==
    ASSUME IInv, slot.kind = "none" \/ Terminated, NEW new, Incoming(new),
           NEW g, g = DropsAll(slot.held, new)
    PROVE  g \in [Msgs -> Fates] /\ SentInOrder(g) /\ Queued(<<>>, <<>>, g)
<1> DEFINE d == [m \in Msgs |-> IF m \in UserMsgs(slot.held) THEN "dropped" ELSE fate[m]]
<1>1. Queued(<<>>, slot.held, fate) /\ fate \in [Msgs -> Fates] /\ SentInOrder(fate)
  BY Before
<1>2. Queued(<<>>, <<>>, d)
  BY Zenon, <1>1, DropKeeps
<1>3. \A m \in UserMsgs(slot.held) : fate[m] = "accepted"
  BY <1>1 DEF Queued, UserMsgs
<1>4. /\ d \in [Msgs -> Fates]
      /\ \A m \in Msgs : d[m] = "unsent" <=> fate[m] = "unsent"
  BY <1>1, <1>3 DEF Fates
<1>5. SentInOrder(d)
  BY <1>1, <1>4, SentKeeps
<1>6. CASE new = <<>>
  <2>1. g = d
    BY <1>6, EmptyQueue DEF DropsAll
  <2> HIDE DEF d
  <2> QED
    BY Zenon, <1>2, <1>4, <1>5, <2>1
<1>7. ASSUME NEW m \in Msgs, NextMessage(m), new = <<m>>
      PROVE  g \in [Msgs -> Fates] /\ SentInOrder(g) /\ Queued(<<>>, <<>>, g)
  <2>1. fate[m] = "unsent" /\ \A k \in 1..(m - 1) : fate[k] # "unsent"
    BY <1>7 DEF NextMessage
  <2>2. d[m] = "unsent" /\ m \notin UserMsgs(slot.held)
    BY <1>3, <1>4, <2>1
  <2>3. g = [d EXCEPT ![m] = "rejected"]
    BY Zenon, <1>7, <2>2, OneMessage DEF DropsAll
  <2> HIDE DEF d
  <2>4. g \in [Msgs -> Fates] /\ \A k \in Msgs : g[k] = IF k = m THEN "rejected" ELSE d[k]
    BY <1>4, <2>3 DEF Fates
  <2>5. /\ \A k \in Msgs : g[k] = "unsent" <=> fate[k] = "unsent" /\ k # m
    BY Zenon, <1>4, <2>1, <2>4
  <2>6. SentInOrder(g)
    BY <1>1, <2>1, <2>4, <2>5, SentKeeps
  <2>7. Queued(<<>>, <<>>, g)
    BY <1>2, <2>2, <2>4 DEF Queued
  <2> QED
    BY <2>4, <2>6, <2>7
<1> QED
  BY <1>6, <1>7 DEF Incoming

LEMMA SpawnStep ==
    ASSUME IInv, slot.kind = "none" \/ Terminated, NEW new, Incoming(new),
           Spawn(slot.held, new), shard' = shard, left' = left,
           terminating' = terminating, excused' = excused
    PROVE  IInv'
<1>1. PICK box : /\ inc' = Append(inc, [phase |-> "starting", box |-> box])
                 /\ slot' \in {Active(Len(inc) + 1), Noted(Active(Len(inc) + 1))}
                 /\ \/ box = slot.held /\ fate' = fate
                    \/ \E m \in Msgs : /\ NextMessage(m)
                                       /\ box = Append(slot.held, m)
                                       /\ fate' = [fate EXCEPT ![m] = "accepted"]
                    \/ \E m \in Msgs : /\ NextMessage(m)
                                       /\ box = slot.held
                                       /\ fate' = [fate EXCEPT ![m] = "rejected"]
  <2> DEFINE b == IF Len(slot.held \o new) <= Capacity THEN slot.held \o new ELSE slot.held
  <2>1. /\ inc' = Append(inc, [phase |-> "starting", box |-> b])
        /\ slot' \in {Active(Len(inc) + 1), Noted(Active(Len(inc) + 1))}
        /\ fate' = [m \in Msgs |->
                      IF m \in UserMsgs(new)
                      THEN IF b = slot.held \o new THEN "accepted" ELSE "rejected"
                      ELSE fate[m]]
    BY Zenon DEF Spawn
  <2>2. fate \in [Msgs -> Fates] /\ slot.held \in Seq(Msgs)
    BY Before
  <2>3. CASE new = <<>>
    <3>1. slot.held \o new = slot.held
      BY Zenon, <2>2, <2>3, ConcatEmptySeq
    <3>2. b = slot.held
      BY <3>1
    <3>3. fate' = fate
      BY ZenonT(30), <2>1, <2>2, <2>3, EmptyQueue
    <3> QED
      BY Zenon, <2>1, <3>2, <3>3
  <2>4. ASSUME NEW m \in Msgs, NextMessage(m), new = <<m>>
        PROVE  \/ /\ b = Append(slot.held, m)
                  /\ fate' = [fate EXCEPT ![m] = "accepted"]
               \/ /\ b = slot.held
                  /\ fate' = [fate EXCEPT ![m] = "rejected"]
    <3>1. slot.held \o new = Append(slot.held, m) /\ UserMsgs(new) = {m}
      BY <2>2, <2>4, OneMessage
    <3>2. CASE b = slot.held \o new
      BY Zenon, <2>1, <2>2, <3>1, <3>2
    <3>3. CASE b # slot.held \o new
      BY Zenon, <2>1, <2>2, <3>1, <3>3
    <3> QED
      BY Zenon, <3>2, <3>3
  <2> HIDE DEF b
  <2> QED
    BY Zenon, <2>1, <2>3, <2>4 DEF Incoming
<1>2. /\ Queued(<<>>, slot.held, fate) /\ fate \in [Msgs -> Fates] /\ SentInOrder(fate)
      /\ slot.held \in Seq(Msgs)
  BY Zenon, Before
<1>3. Queued(slot.held, <<>>, fate)
  BY <1>2, HandOverKeeps
<1>4. slot.held \in Seq(Int)
  BY Zenon, <1>2, SeqMsgs
<1>5. /\ fate' \in [Msgs -> Fates] /\ SentInOrder(fate') /\ Queued(box, <<>>, fate')
      /\ (\A k \in Msgs : fate[k] # "dropped") => \A k \in Msgs : fate'[k] # "dropped"
      /\ box \in Seq(Msgs)
  <2>1. CASE box = slot.held /\ fate' = fate
    BY Zenon, <1>2, <1>3, <2>1
  <2>2. ASSUME NEW m \in Msgs, NextMessage(m), box = Append(slot.held, m),
               NEW g, g = [fate EXCEPT ![m] = "accepted"]
        PROVE  /\ g \in [Msgs -> Fates] /\ SentInOrder(g) /\ Queued(box, <<>>, g)
               /\ (\A k \in Msgs : fate[k] # "dropped") => \A k \in Msgs : g[k] # "dropped"
               /\ box \in Seq(Msgs)
    <3>1. /\ g \in [Msgs -> Fates] /\ SentInOrder(g) /\ fate[m] = "unsent"
          /\ (\A k \in Msgs : fate[k] # "dropped") => \A k \in Msgs : g[k] # "dropped"
      BY Zenon, <2>2, SendKeeps
    <3>2. Queued(box, <<>>, g)
      BY Zenon, <1>2, <1>3, <1>4, <2>2, <3>1, TellKeeps
    <3> QED
      BY <1>2, <2>2, <3>1, <3>2
  <2>3. ASSUME NEW m \in Msgs, NextMessage(m), box = slot.held,
               NEW g, g = [fate EXCEPT ![m] = "rejected"]
        PROVE  /\ g \in [Msgs -> Fates] /\ SentInOrder(g) /\ Queued(box, <<>>, g)
               /\ (\A k \in Msgs : fate[k] # "dropped") => \A k \in Msgs : g[k] # "dropped"
               /\ box \in Seq(Msgs)
    <3>1. /\ g \in [Msgs -> Fates] /\ SentInOrder(g) /\ fate[m] = "unsent"
          /\ (\A k \in Msgs : fate[k] # "dropped") => \A k \in Msgs : g[k] # "dropped"
      BY Zenon, <2>3, SendKeeps
    <3>2. Queued(box, <<>>, g)
      BY Zenon, <1>2, <1>3, <2>3, <3>1, RejectKeeps
    <3> QED
      BY <1>2, <2>3, <3>1, <3>2
  <2> QED
    BY Zenon, <1>1, <2>1, <2>2, <2>3
<1>6. /\ SlotInv(slot') /\ slot'.kind = "active" /\ slot'.uid = Len(inc) + 1
      /\ slot'.held = <<>> /\ slot'.reactivate = FALSE
  <2>1. Len(inc) + 1 \in Nat
    BY DEF IInv, RegistryInv
  <2> QED
    BY Zenon, <1>1, <2>1, NewActive
<1> DEFINE r == [phase |-> "starting", box |-> box]
<1>7. IncInv(r) /\ r.phase = "starting" /\ r.box = box
  BY Zenon, <1>5, SeqMsgs DEF IncInv, Incarnations, Phases
<1>8. Unharmed("active", "starting", box)
  BY Zenon, <1>5, HeldIsClean DEF Unharmed
<1>9. After("active", <<>>, FALSE, "starting", box)
  BY Zenon, <1>5, <1>8 DEF After, IInv, LossInv, AwayInv
<1>10. inc' = Append(inc, r)
  BY <1>1
<1> HIDE DEF r
<1> QED
  BY Zenon, <1>6, <1>7, <1>9, <1>10, FreshStep

LEMMA ActivateStep ==
    ASSUME IInv, slot.kind = "none" \/ Terminated, NEW new, Incoming(new),
           Activate(slot.held, new), shard' = shard, left' = left, terminating' = terminating
    PROVE  IInv'
<1>1. CASE Spawn(slot.held, new) /\ excused' = excused
  BY <1>1, SpawnStep
<1>2. CASE SpawnStopsAtOnce(slot.held, new) /\ excused' = TRUE
  <2> DEFINE r == [phase |-> "closed", box |-> <<>>]
  <2>1. /\ fate' = DropsAll(slot.held, new) /\ inc' = Append(inc, r)
        /\ slot' \in {Active(Len(inc) + 1), Noted(Active(Len(inc) + 1))}
    BY Zenon, <1>2 DEF SpawnStopsAtOnce, DropsAll
  <2>2. fate' \in [Msgs -> Fates] /\ SentInOrder(fate') /\ Queued(<<>>, <<>>, fate')
    BY Zenon, <2>1, DropsAllKeeps
  <2>3. IncInv(r) /\ r.phase = "closed" /\ r.box = <<>>
    BY DEF IncInv, Incarnations, Phases
  <2>4. Len(inc) + 1 \in Nat
    BY DEF IInv, RegistryInv
  <2>5. /\ SlotInv(slot') /\ slot'.kind = "active" /\ slot'.uid = Len(inc) + 1
        /\ slot'.held = <<>> /\ slot'.reactivate = FALSE
    BY Zenon, <2>1, <2>4, NewActive
  <2>6. After("active", <<>>, FALSE, "closed", <<>>)
    BY <1>2, <2>2 DEF After, IInv, AwayInv
  <2> HIDE DEF r
  <2> QED
    BY Zenon, <2>1, <2>3, <2>5, <2>6, FreshStep
<1>3. CASE SpawnFails(slot.held, new) /\ excused' = excused
  <2>1. fate' = DropsAll(slot.held, new) /\ inc' = inc /\ slot' = NoSlot /\ terminating
    BY Zenon, <1>3 DEF SpawnFails, DropsAll
  <2>2. fate' \in [Msgs -> Fates] /\ SentInOrder(fate') /\ Queued(<<>>, <<>>, fate')
    BY Zenon, <2>1, DropsAllKeeps
  <2>3. After("none", <<>>, FALSE, "none", <<>>)
    BY Zenon, <1>3, <2>1, <2>2 DEF After, IInv, LossInv, AwayInv
  <2> QED
    BY <2>1, <2>3, ClearStep
<1> QED
  BY Zenon, <1>1, <1>2, <1>3 DEF Activate

------------------------------------------------------------------------------
(* passivate_slot *)

Byes == {<<>>, <<StopMessage>>}

\* What a step of passivation does beside the slot and the incarnations.
Quiet ==
    /\ fate' = fate /\ terminating' = terminating /\ (excused => excused')
    /\ left' => shard' = "Transferring"

LEMMA QueueStop ==
    ASSUME NEW s \in Seq(Int), NEW byes \in Byes
    PROVE  /\ s \o byes \in Seq(Int)
           /\ s \o byes = s \/ s \o byes = Append(s, StopMessage)
           /\ s \o byes \o <<StopEnvelope>> = Append(s \o byes, StopEnvelope)
<1>1. StopMessage \in Int /\ StopEnvelope \in Int
  BY DEF StopMessage, StopEnvelope
<1>2. s \o byes \in Seq(Int) /\ (s \o byes = s \/ s \o byes = Append(s, StopMessage))
  <2>1. CASE byes = <<>>
    <3>1. s \o byes = s
      BY Zenon, <2>1, ConcatEmptySeq
    <3> QED
      BY <3>1
  <2>2. CASE byes = <<StopMessage>>
    BY <1>1, <2>2
  <2> QED
    BY Zenon, <2>1, <2>2 DEF Byes
<1> DEFINE t == s \o byes
<1>3. t \in Seq(Int)
  BY Zenon, <1>2
<1> HIDE DEF t
<1>4. t \o <<StopEnvelope>> = Append(t, StopEnvelope)
  BY <1>1, <1>3
<1> QED
  BY Zenon, <1>2, <1>4 DEF t

\* The mailbox with the stop message, and with the stop behind it.
LEMMA StopInBox ==
    ASSUME IInv, NEW byes \in Byes, NEW b, b = Box \o byes,
           NEW c, c = Box \o byes \o <<StopEnvelope>>
    PROVE  /\ b \in Seq(Int) /\ c \in Seq(Int)
           /\ Queued(b, slot.held, fate) /\ Queued(c, slot.held, fate)
           /\ Clean(Box) => Clean(b) /\ StopLast(c)
<1>1. Box \in Seq(Int) /\ Queued(Box, slot.held, fate)
  BY Before
<1>2. /\ StopMessage \in Int /\ StopEnvelope \in Int /\ StopMessage # StopEnvelope
      /\ StopMessage \notin Msgs /\ StopEnvelope \notin Msgs
  BY MsgsAreNumbers DEF StopMessage, StopEnvelope
<1>3. b \in Seq(Int) /\ (b = Box \/ b = Append(Box, StopMessage)) /\ c = Append(b, StopEnvelope)
  BY ZenonT(30), <1>1, QueueStop
<1>4. c \in Seq(Int)
  BY <1>2, <1>3
<1>5. Queued(b, slot.held, fate)
  BY Zenon, <1>1, <1>2, <1>3, PadKeeps
<1>6. Queued(c, slot.held, fate)
  BY Zenon, <1>2, <1>3, <1>5, PadKeeps
<1>7. Clean(Box) => Clean(b)
  BY Zenon, <1>1, <1>2, <1>3, AppendStops
<1>8. Clean(b) => StopLast(c)
  BY Zenon, <1>2, <1>3, AppendStops
<1> QED
  BY Zenon, <1>3, <1>4, <1>5, <1>6, <1>7, <1>8

LEMMA StopStep ==
    ASSUME IInv, NEW byes \in Byes, StopQueued(byes), Quiet
    PROVE  IInv'
<1>1. slot.kind = "active" /\ slot' = Stopping(slot.uid, <<>>)
  BY Zenon DEF StopQueued
<1>2. slot.held = <<>> /\ slot.uid \in Nat /\ <<>> \in Seq(Msgs)
  BY <1>1, Before
<1>3. /\ SlotInv(slot') /\ slot'.kind = "stopping" /\ slot'.uid = slot.uid
      /\ slot'.held = <<>> /\ slot'.reactivate = FALSE
  BY Zenon, <1>1, <1>2 DEF Stopping, NoSlot, SlotInv, Slots
<1>4. /\ fate' \in [Msgs -> Fates] /\ SentInOrder(fate') /\ (terminating' => excused')
      /\ left' => shard' = "Transferring"
      /\ ~excused' => /\ \A m \in Msgs : fate'[m] # "dropped"
                      /\ Phase \in {"starting", "running"} /\ Clean(Box)
  BY Zenon, <1>1, Before DEF Quiet, IInv, LossInv, Unharmed
<1>5. /\ Phase = inc[slot.uid].phase /\ Box = inc[slot.uid].box /\ Phase \in Phases
  BY <1>1, InSlot
<1>6. CASE /\ Phase \in {"starting", "running", "stopping"}
           /\ inc' = [inc EXCEPT ![slot.uid].box = @ \o byes \o <<StopEnvelope>>]
  <2> DEFINE c == Box \o byes \o <<StopEnvelope>>
             r == [phase |-> Phase, box |-> c]
  <2>1. inc' = [inc EXCEPT ![slot.uid].box = c]
    BY <1>5, <1>6
  <2>2. c \in Seq(Int) /\ Queued(c, <<>>, fate) /\ (Clean(Box) => StopLast(c))
    BY Zenon, <1>2, StopInBox
  <2> HIDE DEF c
  <2>3. inc' = [inc EXCEPT ![slot.uid] = r]
    BY Zenon, <1>1, <2>1, BoxChange
  <2>4. IncInv(r) /\ r.phase = Phase /\ r.box = c
    BY ZenonT(30), <1>5, <1>6, <2>2 DEF IncInv, Incarnations
  <2> HIDE DEF r
  <2>5. After("stopping", <<>>, FALSE, Phase, c)
    BY <1>4, <2>2 DEF After, Unharmed, Quiet
  <2> QED
    BY Zenon, <1>1, <1>3, <2>3, <2>4, <2>5, CurrentStep
<1>7. CASE Phase \in {"stopping", "closed", "dead"} /\ inc' = inc
  <2>1. After("stopping", <<>>, FALSE, Phase, Box)
    BY Zenon, <1>2, <1>4, <1>7, Before DEF After, Quiet
  <2> QED
    BY Zenon, <1>1, <1>3, <1>7, <2>1, SlotStep
<1> QED
  BY Zenon, <1>6, <1>7 DEF StopQueued

LEMMA AbandonedStep ==
    ASSUME IInv, NEW byes \in Byes, Abandoned(byes), Quiet
    PROVE  IInv'
<1>1. /\ slot.kind = "active" /\ slot' = slot /\ Phase \in {"starting", "running", "stopping"}
      /\ inc' = inc \/ inc' = [inc EXCEPT ![slot.uid].box = @ \o byes]
  BY DEF Abandoned
<1>2. slot.held = <<>> /\ slot.reactivate = FALSE /\ SlotInv(slot)
  BY Zenon, <1>1, Before DEF IInv, RegistryInv
<1>3. /\ fate' \in [Msgs -> Fates] /\ SentInOrder(fate') /\ (terminating' => excused')
      /\ left' => shard' = "Transferring"
      /\ ~excused' => /\ \A m \in Msgs : fate'[m] # "dropped"
                      /\ Phase \in {"starting", "running"} /\ Clean(Box)
  BY Zenon, <1>1, Before DEF Quiet, IInv, LossInv, Unharmed
<1>4. Phase = inc[slot.uid].phase /\ Box = inc[slot.uid].box /\ Phase \in Phases
  BY <1>1, InSlot
<1>5. CASE inc' = inc
  <2>1. After("active", <<>>, FALSE, Phase, Box)
    BY <1>2, <1>3, Before DEF After, Unharmed, Quiet
  <2> QED
    BY Zenon, <1>1, <1>2, <1>5, <2>1, SlotStep
<1>6. CASE inc' = [inc EXCEPT ![slot.uid].box = @ \o byes]
  <2> DEFINE b == Box \o byes
             r == [phase |-> Phase, box |-> b]
  <2>1. inc' = [inc EXCEPT ![slot.uid].box = b]
    BY <1>4, <1>6
  <2>2. b \in Seq(Int) /\ Queued(b, <<>>, fate) /\ (Clean(Box) => Clean(b))
    BY Zenon, <1>2, StopInBox
  <2> HIDE DEF b
  <2>3. inc' = [inc EXCEPT ![slot.uid] = r]
    BY Zenon, <1>1, <2>1, BoxChange
  <2>4. IncInv(r) /\ r.phase = Phase /\ r.box = b
    BY Zenon, <1>1, <1>4, <2>2 DEF IncInv, Incarnations
  <2> HIDE DEF r
  <2>5. After("active", <<>>, FALSE, Phase, b)
    BY Zenon, <1>3, <2>2 DEF After, Unharmed, Quiet
  <2> QED
    BY Zenon, <1>1, <1>2, <2>3, <2>4, <2>5, CurrentStep
<1> QED
  BY ZenonT(30), <1>1, <1>5, <1>6

\* The slot is emptied: nothing is held and the incarnation, if any, is dead.
LEMMA EmptyStep ==
    ASSUME IInv, slot.kind = "none" \/ Terminated, slot.held = <<>>, slot' = NoSlot, inc' = inc,
           Quiet
    PROVE  IInv'
<1>1. Queued(<<>>, <<>>, fate)
  BY Before
<1>2. After("none", <<>>, FALSE, "none", <<>>)
  BY Zenon, <1>1, Before DEF After, Quiet, IInv, LossInv, Unharmed
<1> QED
  BY Zenon, <1>2, ClearStep

LEMMA AbsentStep == ASSUME IInv, Absent, Quiet PROVE IInv'
BY Zenon, EmptyStep, Before DEF Absent

\* Only the deadline, or the wish to come back, changes.
LEMMA MarkStep ==
    ASSUME IInv, inc' = inc, SlotInv(slot'), slot'.kind = slot.kind, slot'.uid = slot.uid,
           slot'.held = slot.held, Quiet, left' => slot.held = <<>> /\ slot'.reactivate = FALSE
    PROVE  IInv'
<1>1. After(slot'.kind, slot'.held, slot'.reactivate, Phase, Box)
  BY Zenon, Before DEF After, Quiet, IInv, LossInv
<1> QED
  BY <1>1, SlotStep

------------------------------------------------------------------------------
(* Handoff, the actor, and the end of the system *)

\* A fate given to messages that were queued.
LEMMA RefateKeeps ==
    ASSUME IInv, NEW S, \A m \in S : fate[m] = "accepted",
           NEW to \in {"handled", "dropped"},
           NEW g, g = [m \in Msgs |-> IF m \in S THEN to ELSE fate[m]]
    PROVE  g \in [Msgs -> Fates] /\ SentInOrder(g)
<1>1. fate \in [Msgs -> Fates] /\ SentInOrder(fate)
  BY Before
<1>2. g \in [Msgs -> Fates] /\ \A m \in Msgs : g[m] = "unsent" <=> fate[m] = "unsent"
  BY Zenon, <1>1 DEF Fates
<1> QED
  BY Zenon, <1>1, <1>2, SentKeeps

LEMMA QueuedIsAccepted ==
    ASSUME IInv
    PROVE  \A m \in UserMsgs(Box) \cup UserMsgs(slot.held) : m \in Msgs /\ fate[m] = "accepted"
BY Zenon, Before DEF Queued, UserMsgs

LEMMA ForgetHeldStep ==
    ASSUME IInv, slot.kind = "stopping", inc' = inc,
           slot' = [slot EXCEPT !.held = <<>>, !.reactivate = FALSE],
           fate' = [m \in Msgs |-> IF m \in UserMsgs(slot.held) THEN "dropped" ELSE fate[m]],
           excused' = TRUE, left' => shard' = "Transferring"
    PROVE  IInv'
<1>1. fate' \in [Msgs -> Fates] /\ SentInOrder(fate')
  BY QueuedIsAccepted, RefateKeeps
<1>2. Queued(Box, <<>>, fate')
  BY Zenon, Before, DropKeeps
<1>3. /\ SlotInv(slot') /\ slot'.kind = "stopping" /\ slot'.uid = slot.uid
      /\ slot'.held = <<>> /\ slot'.reactivate = FALSE
  <2>1. slot \in Slots /\ <<>> \in Seq(Msgs)
    BY DEF IInv, RegistryInv, SlotInv
  <2>2. slot' \in Slots
    BY Zenon, <2>1 DEF Slots
  <2>3. /\ slot'.kind = "stopping" /\ slot'.uid = slot.uid
        /\ slot'.held = <<>> /\ slot'.reactivate = FALSE
    BY <2>1 DEF Slots
  <2> QED
    BY <2>2, <2>3 DEF SlotInv
<1>4. After("stopping", <<>>, FALSE, Phase, Box)
  BY Zenon, <1>1, <1>2 DEF After
<1> QED
  BY Zenon, <1>3, <1>4, SlotStep

\* Only the incarnation in the slot moves.
LEMMA Mover ==
    ASSUME IInv, NEW u \in Uids, inc[u].phase # "dead"
    PROVE  /\ slot.kind \in {"active", "stopping"} /\ slot.uid = u
           /\ inc[u].phase = Phase /\ inc[u].box = Box
<1>1. slot.kind # "none" /\ slot.uid = u
  BY DEF IInv, RegistryInv, NoOrphanIncarnation
<1> QED
  BY Zenon, <1>1, InSlot, Before

\* What an actor does beside its own record and the fates.
Acting == slot' = slot /\ left' = left /\ shard' = shard /\ terminating' = terminating

LEMMA ActorKeeps ==
    ASSUME IInv, NEW u \in Uids, inc[u].phase # "dead", NEW box \in Seq(Int), NEW phase \in Phases,
           phase \in {"closed", "dead"} => box = <<>>, Actor(u, box, phase), Acting,
           fate' \in [Msgs -> Fates], SentInOrder(fate'), Queued(box, slot.held, fate'),
           excused => excused',
           ~excused' => /\ \A m \in Msgs : fate'[m] # "dropped"
                        /\ Unharmed(slot.kind, phase, box)
    PROVE  IInv'
<1> DEFINE r == [phase |-> phase, box |-> box]
<1>1. slot.kind # "none" /\ slot.uid = u
  BY Zenon, Mover
<1>2. inc' = [inc EXCEPT ![slot.uid] = r]
  BY Zenon, <1>1 DEF Actor
<1>3. IncInv(r) /\ r.phase = phase /\ r.box = box
  BY Zenon DEF IncInv, Incarnations
<1> HIDE DEF r
<1>4. After(slot'.kind, slot'.held, slot'.reactivate, phase, box)
  BY Zenon DEF After, Acting, IInv, LossInv, AwayInv
<1>5. SlotInv(slot')
  BY DEF Acting, IInv, RegistryInv
<1> QED
  BY Zenon, <1>1, <1>2, <1>3, <1>4, <1>5, CurrentStep DEF Acting

LEMMA StartStep ==
    ASSUME IInv, NEW u \in Uids, StartActor(u)
    PROVE  IInv'
<1>1. /\ inc[u].phase = "starting" /\ Acting /\ fate' = fate
      /\ \/ Actor(u, inc[u].box, "running") /\ excused' = excused
         \/ Actor(u, inc[u].box, "stopping") /\ excused' = TRUE
  BY Zenon DEF StartActor, Acting, shardVars
<1>2. Phase = "starting" /\ inc[u].box = Box
  BY Zenon, <1>1, Mover
<1>3. ~excused => Unharmed(slot.kind, "running", Box)
  BY Zenon, <1>2 DEF IInv, LossInv, Unharmed
<1>4. /\ fate' \in [Msgs -> Fates] /\ SentInOrder(fate') /\ Queued(Box, slot.held, fate')
      /\ Box \in Seq(Int)
  BY <1>1, Before
<1>5. CASE Actor(u, Box, "running") /\ excused' = excused
  <2>1. ~excused' => /\ \A m \in Msgs : fate'[m] # "dropped"
                     /\ Unharmed(slot.kind, "running", Box)
    BY Zenon, <1>1, <1>3, <1>5 DEF IInv, LossInv
  <2>2. "running" \in Phases /\ "running" \notin {"closed", "dead"}
    BY DEF Phases
  <2> QED
    BY ZenonT(30), <1>1, <1>4, <1>5, <2>1, <2>2, ActorKeeps
<1>6. CASE Actor(u, Box, "stopping") /\ excused' = TRUE
  <2>1. "stopping" \in Phases /\ "stopping" \notin {"closed", "dead"}
    BY DEF Phases
  <2> QED
    BY ZenonT(30), <1>1, <1>4, <1>6, <2>1, ActorKeeps
<1> QED
  BY Zenon, <1>1, <1>2, <1>5, <1>6

LEMMA HandleStep ==
    ASSUME IInv, NEW u \in Uids, Handle(u)
    PROVE  IInv'
<1> DEFINE e == Head(Box)
           rest == Tail(Box)
<1>1. inc[u].phase = "running" /\ inc[u].box # <<>> /\ Acting
  BY DEF Handle, Acting, shardVars
<1>2. Phase = "running" /\ inc[u].box = Box /\ slot.kind \in {"active", "stopping"}
  BY Zenon, <1>1, Mover
<1>3. /\ fate' = IF e \in Msgs THEN [fate EXCEPT ![e] = "handled"] ELSE fate
      /\ \/ e # StopEnvelope /\ Actor(u, rest, "running") /\ excused' = excused
         \/ e = StopEnvelope /\ Actor(u, rest, "stopping") /\ excused' = excused
         \/ e # StopEnvelope /\ Actor(u, rest, "stopping") /\ excused' = TRUE
  BY Zenon, <1>2 DEF Handle
<1>4. /\ Box \in Seq(Int) /\ Box # <<>> /\ fate \in [Msgs -> Fates]
      /\ Queued(Box, slot.held, fate)
  BY Zenon, <1>1, <1>2, Before
<1>5. /\ Queued(rest, slot.held, fate') /\ (e \in Msgs => fate[e] = "accepted")
      /\ rest \in Seq(Int)
  <2>1. /\ Queued(rest, slot.held,
                  IF e \in Msgs THEN [fate EXCEPT ![e] = "handled"] ELSE fate)
        /\ e \in Msgs => fate[e] = "accepted"
    BY Zenon, <1>4, HandleKeeps
  <2>2. rest \in Seq(Int)
    BY <1>4
  <2> HIDE DEF e, rest
  <2>3. CASE e \in Msgs
    BY Zenon, <1>3, <2>1, <2>2, <2>3
  <2>4. CASE e \notin Msgs
    BY Zenon, <1>3, <2>1, <2>2, <2>4
  <2> QED
    BY <2>3, <2>4
<1>6. /\ Clean(Box) => Clean(rest) /\ e # StopEnvelope
      /\ StopLast(Box) => StopLast(rest) /\ (e = StopEnvelope => UserMsgs(rest) = {})
  BY <1>4, TailStops
<1> HIDE DEF e, rest
<1>7. fate' \in [Msgs -> Fates] /\ SentInOrder(fate')
  <2>1. fate' = [m \in Msgs |-> IF m \in {e} \cap Msgs THEN "handled" ELSE fate[m]]
    BY Zenon, <1>3, <1>4
  <2>2. \A m \in {e} \cap Msgs : fate[m] = "accepted"
    BY Zenon, <1>5
  <2> QED
    BY Zenon, <2>1, <2>2, RefateKeeps
<1>8. ~excused => \A m \in Msgs : fate'[m] # "dropped"
  BY Zenon, <1>3, <1>4 DEF IInv, LossInv
<1>9. ~excused => /\ Unharmed(slot.kind, "running", rest)
                  /\ e = StopEnvelope => Unharmed(slot.kind, "stopping", rest)
  BY <1>2, <1>6 DEF IInv, LossInv, Unharmed
<1>10. {"running", "stopping"} \subseteq Phases \ {"closed", "dead"}
  BY DEF Phases
<1>11. CASE Actor(u, rest, "running") /\ excused' = excused
  BY ZenonT(30), <1>1, <1>5, <1>7, <1>8, <1>9, <1>10, <1>11, ActorKeeps
<1>12. CASE e = StopEnvelope /\ Actor(u, rest, "stopping") /\ excused' = excused
  BY ZenonT(30), <1>1, <1>5, <1>7, <1>8, <1>9, <1>10, <1>12, ActorKeeps
<1>13. CASE Actor(u, rest, "stopping") /\ excused' = TRUE
  BY Zenon, <1>1, <1>5, <1>7, <1>10, <1>13, ActorKeeps
<1> QED
  BY Zenon, <1>3, <1>11, <1>12, <1>13

LEMMA CloseStep ==
    ASSUME IInv, NEW u \in Uids, CloseMailbox(u) \/ Terminate(u)
    PROVE  IInv'
<1>1. /\ inc[u].phase \in {"stopping", "closed"} /\ Acting /\ excused' = excused
      /\ Actor(u, <<>>, "closed") \/ Actor(u, <<>>, "dead")
  BY Zenon DEF CloseMailbox, Terminate, Acting, shardVars
<1>2. /\ slot.kind \in {"active", "stopping"} /\ Phase = inc[u].phase /\ inc[u].box = Box
      /\ Phase \in {"closed", "dead"} => Box = <<>>
  BY Zenon, <1>1, Mover, InSlot
<1>3. fate' = [m \in Msgs |-> IF m \in UserMsgs(Box) THEN "dropped" ELSE fate[m]]
  <2>1. CASE CloseMailbox(u)
    BY <1>2, <2>1 DEF CloseMailbox
  <2>2. CASE Terminate(u)
    <3>1. UserMsgs(Box) = {} /\ fate' = fate
      BY Zenon, <1>2, <2>2, EmptyQueue DEF Terminate
    <3> QED
      BY ZenonT(30), <3>1, Before
  <2> QED
    BY Zenon, <2>1, <2>2
<1>4. fate' \in [Msgs -> Fates] /\ SentInOrder(fate')
  BY <1>3, QueuedIsAccepted, RefateKeeps
<1>5. Queued(<<>>, slot.held, fate')
  BY Zenon, <1>3, Before, DropKeeps
<1>6. ~excused => slot.kind = "stopping" /\ UserMsgs(Box) = {}
  BY Zenon, <1>1, <1>2 DEF IInv, LossInv, Unharmed
<1>7. ~excused' => \A m \in Msgs : fate'[m] # "dropped"
  BY Zenon, <1>1, <1>3, <1>6 DEF IInv, LossInv
<1>8. ~excused' => /\ Unharmed(slot.kind, "closed", <<>>)
                   /\ Unharmed(slot.kind, "dead", <<>>)
  BY <1>1, <1>6, EmptyQueue DEF Unharmed, StopLast
<1>9. {"closed", "dead"} \subseteq Phases /\ <<>> \in Seq(Int)
  BY DEF Phases
<1> DEFINE none == <<>>
<1>10. none = <<>>
  OBVIOUS
<1> HIDE DEF none
<1>11. CASE Actor(u, none, "closed")
  BY Zenon, <1>1, <1>4, <1>5, <1>7, <1>8, <1>9, <1>10, <1>11, ActorKeeps
<1>12. CASE Actor(u, none, "dead")
  BY Zenon, <1>1, <1>4, <1>5, <1>7, <1>8, <1>9, <1>10, <1>12, ActorKeeps
<1> QED
  BY ZenonT(30), <1>1, <1>10, <1>11, <1>12

\* Replacing an incarnation's mailbox leaves its phase.
LEMMA BoxPut ==
    ASSUME NEW r \in Incarnations, NEW b \in Seq(Int)
    PROVE  LET t == [r EXCEPT !.box = b]
           IN  t \in Incarnations /\ t.phase = r.phase /\ t.box = b
BY Zenon DEF Incarnations

LEMMA SystemStep ==
    ASSUME IInv, SystemTerminates
    PROVE  IInv'
<1>1. /\ excused' = TRUE /\ slot' = slot /\ fate' = fate /\ left' = left /\ shard' = shard
      /\ inc' = [u \in 1..Len(inc) |->
                   IF inc[u].phase \in {"starting", "running"} /\ Len(inc[u].box) < Capacity
                   THEN [inc[u] EXCEPT !.box = Append(@, StopEnvelope)] ELSE inc[u]]
  BY Zenon DEF SystemTerminates, shardVars
<1>2. inc \in Seq(Incarnations) /\ Len(inc) \in Nat /\ \A u \in Uids : IncInv(inc[u])
  BY DEF IInv, RegistryInv
<1>3. StopEnvelope \in Int /\ StopEnvelope \notin Msgs
  BY MsgsAreNumbers DEF StopEnvelope
<1>4. \A u \in Uids : /\ IncInv(inc'[u]) /\ inc'[u].phase = inc[u].phase
                      /\ inc'[u].box \in {inc[u].box, Append(inc[u].box, StopEnvelope)}
  <2> SUFFICES ASSUME NEW u \in Uids
               PROVE  /\ IncInv(inc'[u]) /\ inc'[u].phase = inc[u].phase
                      /\ inc'[u].box \in {inc[u].box, Append(inc[u].box, StopEnvelope)}
    OBVIOUS
  <2> DEFINE r == inc[u]
             t == [r EXCEPT !.box = Append(@, StopEnvelope)]
  <2>1. /\ IncInv(r)
        /\ \/ inc'[u] = r
           \/ r.phase \in {"starting", "running"} /\ inc'[u] = t
    BY Zenon, <1>1, <1>2 DEF Uids
  <2> HIDE DEF r
  <2>2. /\ r.phase \in {"starting", "running"} => IncInv(t)
        /\ t.phase = r.phase /\ t.box = Append(r.box, StopEnvelope)
    <3> DEFINE b == Append(r.box, StopEnvelope)
    <3>1. r \in Incarnations /\ b \in Seq(Int)
      BY <1>3, <2>1 DEF IncInv, Incarnations
    <3>3. t.phase = r.phase /\ t.box = b /\ t \in Incarnations
      BY Zenon, <3>1, BoxPut
    <3> HIDE DEF t
    <3> QED
      BY <3>3 DEF IncInv, b
  <2> HIDE DEF t
  <2>3. IncInv(inc'[u]) /\ inc'[u].phase = r.phase /\ inc'[u].box \in {r.box, Append(r.box, StopEnvelope)}
    BY Zenon, <2>1, <2>2
  <2> QED
    BY Zenon, <2>3 DEF r
<1>5. inc' \in Seq(Incarnations) /\ Len(inc') = Len(inc)
  <2>1. \A u \in 1..Len(inc) : inc'[u] \in Incarnations
    BY <1>4 DEF IncInv, Uids
  <2>2. inc' = [u \in 1..Len(inc) |-> inc'[u]]
    BY <1>1
  <2>3. inc' \in [1..Len(inc) -> Incarnations]
    BY <2>1, <2>2
  <2> QED
    BY <1>2, <2>3
<1>6. Uids' = Uids
  BY <1>5 DEF Uids
<1>7. RegistryInv'
  BY Zenon, <1>1, <1>4, <1>5, <1>6 DEF IInv, RegistryInv, NoOrphanIncarnation
<1>8. Box' = Box \/ Box' = Append(Box, StopEnvelope)
  BY Zenon, <1>1, <1>4 DEF Box, IInv, RegistryInv
<1>9. Queued(Box', slot.held, fate)
  BY Zenon, <1>3, <1>8, Before, PadKeeps
<1> QED
  BY Zenon, <1>1, <1>7, <1>9, Before DEF IInv, MessagesInv, LossInv, AwayInv

------------------------------------------------------------------------------
(* Every step keeps the invariant. *)

LEMMA InitHolds == Init => IInv
<1> SUFFICES ASSUME Init PROVE IInv
  BY Zenon
<1>1. slot = NoSlot /\ inc = <<>> /\ slot.kind = "none" /\ slot.held = <<>> /\ slot.reactivate = FALSE
  BY DEF Init, NoSlot
<1>2. Box = <<>> /\ Phase = "none" /\ Uids = {} /\ inc \in Seq(Incarnations)
  BY <1>1 DEF Box, Phase, Uids
<1>3. SlotInv(slot)
  BY <1>1 DEF NoSlot, SlotInv, Slots
<1>4. RegistryInv
  BY Zenon, <1>1, <1>2, <1>3 DEF RegistryInv, NoOrphanIncarnation
<1>5. fate \in [Msgs -> Fates] /\ \A m \in Msgs : fate[m] = "unsent"
  BY Zenon DEF Init, Fates
<1>6. MessagesInv
  BY Zenon, <1>1, <1>2, <1>5, EmptyQueue DEF MessagesInv, SentInOrder, Queued
<1> QED
  BY Zenon, <1>1, <1>2, <1>4, <1>5, <1>6 DEF Init, IInv, LossInv, AwayInv, Unharmed

LEMMA DeliverStep ==
    ASSUME IInv, NEW m \in Msgs, Deliver(m)
    PROVE  IInv'
<1>1. CASE DeliverRefused(m) \/ TellFull(m) \/ HoldFull(m)
  BY Zenon, <1>1, RejectStep DEF DeliverRefused, TellFull, HoldFull
<1>2. CASE Tell(m)
  BY Zenon, <1>2, TellStep
<1>3. CASE HoldBehindSelfStop(m) \/ Hold(m)
  BY Zenon, <1>3, HoldStep
<1>4. CASE DeliverToNext(m)
  <2>1. /\ slot.kind = "none" \/ Terminated
        /\ Activate(slot.held, <<m>>) /\ shard' = shard /\ left' = left
        /\ terminating' = terminating
    BY <1>4 DEF DeliverToNext, shardVars
  <2>2. Incoming(<<m>>)
    BY <1>4 DEF DeliverToNext, Incoming
  <2> QED
    BY Zenon, <2>1, <2>2, ActivateStep
<1> QED
  BY Zenon, <1>1, <1>2, <1>3, <1>4 DEF Deliver

LEMMA CallStep ==
    ASSUME IInv, ActivateEntity
    PROVE  IInv'
<1>1. shard' = shard /\ left' = left /\ terminating' = terminating
  BY Zenon DEF ActivateEntity, shardVars
<1>2. SlotInv(slot)
  BY DEF IInv, RegistryInv
<1>3. CASE UNCHANGED <<slot, inc, timers, fate, excused>>
  BY Zenon, <1>1, <1>2, <1>3, MarkStep DEF Quiet, IInv, AwayInv
<1>4. CASE /\ Accepts /\ slot.kind = "stopping"
           /\ slot' = [slot EXCEPT !.reactivate = TRUE]
           /\ UNCHANGED <<inc, timers, fate, excused>>
  <2>1. ~left
    BY <1>4 DEF Accepts, IInv, AwayInv
  <2>2. /\ SlotInv(slot') /\ slot'.kind = slot.kind /\ slot'.uid = slot.uid
        /\ slot'.held = slot.held
    BY Zenon, <1>2, <1>4 DEF SlotInv, Slots
  <2> QED
    BY Zenon, <1>1, <1>4, <2>1, <2>2, MarkStep DEF Quiet
<1>5. CASE (slot.kind = "none" \/ Terminated) /\ Activate(slot.held, <<>>)
  <2>1. Incoming(<<>>)
    BY DEF Incoming
  <2> QED
    BY Zenon, <1>1, <1>5, <2>1, ActivateStep
<1> QED
  BY Zenon, <1>3, <1>4, <1>5 DEF ActivateEntity

LEMMA PassivateStep ==
    ASSUME IInv, NEW byes \in Byes, PassivateEntity(byes)
    PROVE  IInv'
<1>1. Quiet /\ left' = left
  BY DEF PassivateEntity, Quiet, shardVars, IInv, AwayInv
<1>2. CASE AlreadyStopping
  BY Zenon, <1>1, <1>2, MarkStep DEF AlreadyStopping, IInv, RegistryInv, AwayInv
<1> QED
  BY ZenonT(30), <1>1, <1>2, AbsentStep, StopStep, AbandonedStep DEF PassivateEntity

LEMMA WatcherStep ==
    ASSUME IInv, NEW u \in Uids, WatcherRuns(u)
    PROVE  IInv'
<1>1. inc[u].phase = "dead" /\ shard' = shard /\ left' = left /\ terminating' = terminating
  BY Zenon DEF WatcherRuns, shardVars
<1>2. slot.kind = "stopping" /\ slot.uid = u => Terminated
  BY Zenon, <1>1, InSlot DEF Terminated
<1>3. SlotInv(slot)
  BY DEF IInv, RegistryInv
<1>4. CASE UNCHANGED <<slot, inc, timers, fate, excused>>
  BY Zenon, <1>1, <1>3, <1>4, MarkStep DEF Quiet, IInv, AwayInv
<1>5. CASE /\ slot.kind = "stopping" /\ slot.uid = u /\ slot.held = <<>> /\ slot' = NoSlot
           /\ UNCHANGED <<inc, timers, fate, excused>>
  BY Zenon, <1>1, <1>2, <1>5, EmptyStep DEF Quiet, IInv, AwayInv
<1>6. CASE slot.kind = "stopping" /\ slot.uid = u /\ Activate(slot.held, <<>>)
  <2>1. Incoming(<<>>)
    BY DEF Incoming
  <2> QED
    BY Zenon, <1>1, <1>2, <1>6, <2>1, ActivateStep
<1> QED
  BY ZenonT(30), <1>4, <1>5, <1>6 DEF WatcherRuns

LEMMA TimerStep ==
    ASSUME IInv, NEW u \in Uids, TimerFires(u)
    PROVE  IInv'
<1>1. Quiet /\ left' = left
  BY DEF TimerFires, Quiet, shardVars, IInv, AwayInv
<1>2. SlotInv(slot)
  BY DEF IInv, RegistryInv
<1>3. CASE slot' = slot /\ inc' = inc
  BY Zenon, <1>1, <1>2, <1>3, MarkStep DEF IInv, AwayInv
<1>4. CASE Absent \/ StopQueued(<<>>)
  BY Zenon, <1>1, <1>4, AbsentStep, StopStep DEF Byes
<1>5. CASE slot' = [slot EXCEPT !.due = "future"] /\ inc' = inc
  <2>1. /\ SlotInv(slot') /\ slot'.kind = slot.kind /\ slot'.uid = slot.uid
        /\ slot'.held = slot.held /\ slot'.reactivate = slot.reactivate
    BY Zenon, <1>2, <1>5 DEF SlotInv, Slots
  <2> QED
    BY Zenon, <1>1, <1>5, <2>1, MarkStep DEF IInv, AwayInv
<1> QED
  BY Zenon, <1>3, <1>4, <1>5 DEF TimerFires

LEMMA OwedStopStep ==
    ASSUME IInv, NEW u \in Uids, OwedStop(u)
    PROVE  IInv'
<1>1. Quiet /\ left' = left
  BY Zenon DEF OwedStop, Quiet, shardVars, IInv, AwayInv
<1>2. SlotInv(slot)
  BY DEF IInv, RegistryInv
<1>3. CASE slot' = slot /\ inc' = inc
  BY Zenon, <1>1, <1>2, <1>3, MarkStep DEF IInv, AwayInv
<1>4. CASE Absent \/ StopQueued(<<>>) \/ Abandoned(<<>>)
  BY Zenon, <1>1, <1>4, AbsentStep, StopStep, AbandonedStep DEF Byes
<1> QED
  BY Zenon, <1>3, <1>4 DEF OwedStop

LEMMA HandoffStep ==
    ASSUME IInv, PassivateShard
    PROVE  IInv'
<1>1. /\ excused' = TRUE /\ terminating' = terminating
      /\ left' => shard' = "Transferring"
  BY Zenon DEF PassivateShard
<1>2. CASE slot.kind = "stopping"
  BY Zenon, <1>1, <1>2, ForgetHeldStep DEF PassivateShard, Absent, StopQueued, Abandoned
<1>3. CASE fate' = fate /\ (Absent \/ StopQueued(<<>>) \/ Abandoned(<<>>))
  <2>1. Quiet
    BY <1>1, <1>3 DEF Quiet
  <2> QED
    BY Zenon, <1>3, <2>1, AbsentStep, StopStep, AbandonedStep DEF Byes
<1> QED
  BY <1>2, <1>3 DEF PassivateShard

\* Steps that touch neither queue nor incarnation.
LEMMA OtherStep ==
    ASSUME IInv, \/ Reap \/ DeadlinePasses \/ UNCHANGED vars
                 \/ \E to \in {"Draining", "Transferring", "Acquired", "Owning"} : MarkShard(to)
    PROVE  IInv'
<1>1. Quiet /\ inc' = inc /\ (left' => left)
  BY DEF Reap, DeadlinePasses, MarkShard, Quiet, shardVars, vars, IInv, AwayInv
<1>2. SlotInv(slot)
  BY Zenon DEF IInv, RegistryInv
<1>3. CASE Reap
  BY Zenon, <1>1, <1>3, EmptyStep, Before DEF Reap
<1>4. CASE slot' = slot
  BY Zenon, <1>1, <1>2, <1>4, MarkStep DEF IInv, AwayInv
<1>5. CASE slot' = [slot EXCEPT !.due = "past"]
  <2>1. /\ SlotInv(slot') /\ slot'.kind = slot.kind /\ slot'.uid = slot.uid
        /\ slot'.held = slot.held /\ slot'.reactivate = slot.reactivate
    BY Zenon, <1>2, <1>5 DEF SlotInv, Slots
  <2> QED
    BY Zenon, <1>1, <2>1, MarkStep DEF IInv, AwayInv
<1> QED
  BY Zenon, <1>3, <1>4, <1>5 DEF DeadlinePasses, MarkShard, vars

LEMMA NextKeeps == IInv /\ [Next]_vars => IInv'
<1> SUFFICES ASSUME IInv, [Next]_vars PROVE IInv'
  OBVIOUS
<1>1. CASE \E m \in Msgs : Deliver(m)
  BY <1>1, DeliverStep
<1>2. CASE ActivateEntity
  BY <1>2, CallStep
<1>3. CASE \E byes \in {<<>>, <<StopMessage>>} : PassivateEntity(byes)
  BY ZenonT(30), <1>3, PassivateStep DEF Byes
<1>4. CASE PassivateShard
  BY <1>4, HandoffStep
<1>5. CASE SystemTerminates
  BY <1>5, SystemStep
<1>6. CASE \E u \in Uids : Background(u)
  BY ZenonT(30), <1>6, StartStep, HandleStep, CloseStep, WatcherStep, TimerStep, OwedStopStep
  DEF Background, ActorStep
<1> QED
  BY Zenon, <1>1, <1>2, <1>3, <1>4, <1>5, <1>6, OtherStep DEF Next

\* The invariant holds for every capacity and every number of messages and calls.
THEOREM Inductive == Spec => []IInv
BY InitHolds, NextKeeps, PTL DEF Spec

\* A step makes a message handled only by handling it, behind all handled before it.
LEMMA HandledNext ==
    ASSUME IInv, [Next]_vars, NEW m \in Msgs, fate[m] # "handled", fate'[m] = "handled"
    PROVE  \A k \in Msgs : fate[k] = "handled" => k < m
<1> USE Before
<1>1. CASE \E u \in Uids : Handle(u)
  <2>1. PICK u \in Uids : Handle(u)
    BY ZenonT(30), <1>1
  <2>2. inc[u].phase = "running" /\ inc[u].box # <<>>
    BY ZenonT(30), <2>1 DEF Handle
  <2>3. slot.kind # "none" /\ slot.uid = u
    BY ZenonT(30), <2>2 DEF IInv, RegistryInv, NoOrphanIncarnation
  <2>4. Box = inc[u].box /\ Box \in Seq(Int)
    BY ZenonT(30), <2>3, InSlot
  <2>5. fate' = IF Head(Box) \in Msgs THEN [fate EXCEPT ![Head(Box)] = "handled"] ELSE fate
    BY ZenonT(30), <2>1, <2>4 DEF Handle
  <2>6. m = Head(Box)
    BY <2>5
  <2> QED
    BY Zenon, <2>2, <2>4, <2>6, HandleKeeps
<1>2. CASE fate' = fate
  BY ZenonT(30), <1>2
<1>3. CASE \E u \in Uids : CloseMailbox(u)
  BY Zenon, <1>3 DEF CloseMailbox
<1>4. CASE \E held, new : Activate(held, new)
  BY Zenon, <1>4 DEF Activate, Spawn, SpawnStopsAtOnce, SpawnFails
<1>5. CASE \E k \in Msgs : Deliver(k)
  <2>1. PICK k \in Msgs : Deliver(k)
    BY Zenon, <1>5
  <2>2. CASE DeliverToNext(k)
    BY Zenon, <1>4, <2>2 DEF DeliverToNext
  <2>3. CASE ~DeliverToNext(k)
    <3>1. fate' = [fate EXCEPT ![k] = "rejected"] \/ fate' = [fate EXCEPT ![k] = "accepted"]
      BY Zenon, <2>1, <2>3 DEF Deliver, DeliverRefused, Tell, TellFull, HoldBehindSelfStop, Hold, HoldFull,
         Reject
    <3> QED
      BY ZenonT(30), <3>1
  <2> QED
    BY ZenonT(30), <2>2, <2>3
<1>6. CASE PassivateShard
  BY ZenonT(30), <1>6 DEF PassivateShard
<1>7. CASE \/ ActivateEntity
           \/ \E byes \in {<<>>, <<StopMessage>>} : PassivateEntity(byes)
           \/ Reap \/ DeadlinePasses \/ SystemTerminates \/ UNCHANGED vars
           \/ \E to \in {"Draining", "Transferring", "Acquired", "Owning"} : MarkShard(to)
  BY ZenonT(30), <1>2, <1>4, <1>7 DEF ActivateEntity, PassivateEntity, Reap, DeadlinePasses,
     SystemTerminates, MarkShard, vars
<1>8. CASE \E u \in Uids : StartActor(u) \/ Terminate(u) \/ WatcherRuns(u) \/ TimerFires(u)
                           \/ OwedStop(u)
  BY Zenon, <1>2, <1>4, <1>8 DEF StartActor, Terminate, WatcherRuns, TimerFires, OwedStop
<1> QED
  BY ZenonT(30), <1>1, <1>3, <1>5, <1>6, <1>7, <1>8 DEF Next, Background, ActorStep

\* Changing one incarnation adds none.
LEMMA LenKeeps ==
    ASSUME NEW s \in Seq(Incarnations), NEW u, NEW r
    PROVE  Len([s EXCEPT ![u] = r]) = Len(s)
BY DEF Incarnations

\* A step adds an incarnation only by activating the entity.
LEMMA OnlyActivateSpawns ==
    ASSUME IInv, [Next]_vars, Len(inc') # Len(inc)
    PROVE  ~left \/ left' # left
<1>1. inc \in Seq(Incarnations) /\ inc' # inc
  BY DEF IInv, RegistryInv
<1>2. \A u, r : inc' # [inc EXCEPT ![u] = r]
  BY <1>1, LenKeeps
<1>3. \A u, b : inc' # [inc EXCEPT ![u].box = b]
  BY ZenonT(30), <1>2
<1>4. ~Absent /\ ~AlreadyStopping /\ \A byes : ~StopQueued(byes) /\ ~Abandoned(byes)
  BY ZenonT(30), <1>1, <1>3 DEF Absent, AlreadyStopping, StopQueued, Abandoned
<1>5. CASE \E m \in Msgs : Deliver(m)
  <2>1. PICK m \in Msgs : Deliver(m)
    BY Zenon, <1>5
  <2>2. DeliverToNext(m)
    BY Zenon, <1>1, <1>3, <2>1 DEF Deliver, DeliverRefused, Tell, TellFull, HoldBehindSelfStop, Hold,
       HoldFull, Reject
  <2> QED
    BY Zenon, <2>2 DEF DeliverToNext, Accepts, IInv, AwayInv
<1>6. CASE ActivateEntity
  BY Zenon, <1>1, <1>6 DEF ActivateEntity, Accepts, IInv, AwayInv
<1>7. ~\E byes \in {<<>>, <<StopMessage>>} : PassivateEntity(byes)
  BY <1>4 DEF PassivateEntity
<1>8. ~PassivateShard
  BY <1>1, <1>4 DEF PassivateShard
<1>9. ~SystemTerminates
  BY <1>1 DEF SystemTerminates
<1>10. ~Reap /\ ~DeadlinePasses /\ ~UNCHANGED vars /\ \A to : ~MarkShard(to)
  BY ZenonT(30), <1>1 DEF Reap, DeadlinePasses, vars, MarkShard
<1>11. \A u : ~ActorStep(u)
  BY <1>2 DEF ActorStep, StartActor, Handle, CloseMailbox, Terminate, Actor
<1>12. \A u : ~TimerFires(u) /\ ~OwedStop(u)
  BY ZenonT(30), <1>1, <1>4 DEF TimerFires, OwedStop
<1>13. CASE \E u \in Uids : WatcherRuns(u)
  BY Zenon, <1>1, <1>13 DEF WatcherRuns, IInv, AwayInv
<1> QED
  BY ZenonT(30), <1>5, <1>6, <1>7, <1>8, <1>9, <1>10, <1>11, <1>12, <1>13 DEF Next, Background

------------------------------------------------------------------------------
(* The theorems *)

\* Whatever the route and its tasks do to the slot, an incarnation that is alive is the
\* one in the slot (register_slot, on_incarnation_stopped, passivate_slot).
THEOREM NeverOrphaned == Spec => []NoOrphanIncarnation
<1>1. IInv => NoOrphanIncarnation
  BY DEF IInv, RegistryInv
<1> QED
  BY <1>1, Inductive, PTL

\* Messages are handled in delivery order through every passivation, held queue and
\* successor incarnation (tell_or_hold, activate_slot).
THEOREM InOrder == Spec => HandledInOrder
<1>1. IInv /\ [Next]_vars =>
        [\A m \in Msgs : fate[m] # "handled" /\ fate'[m] = "handled"
            => \A k \in Msgs : fate[k] = "handled" => k < m]_fate
  BY HandledNext
<1> QED
  BY <1>1, Inductive, PTL DEF Spec, HandledInOrder

\* The accepted messages are exactly those queued: deliver's Ok never covers a message
\* that is in neither queue, and nothing handled or dropped is queued again.
AcceptedIsQueued ==
    \A m \in Msgs : fate[m] = "accepted" <=> m \in UserMsgs(Box) \cup UserMsgs(slot.held)

\* No call, watcher or timer takes an accepted message out of the mailbox and the held
\* queue without handling it or reporting it dropped.
THEOREM NeverMislaid == Spec => []AcceptedIsQueued
<1>1. IInv => AcceptedIsQueued
  BY Zenon DEF IInv, MessagesInv, Queued, AcceptedIsQueued
<1> QED
  BY <1>1, Inductive, PTL

\* While no actor stops itself, no shard leaves and the system runs, passivation drops
\* no message: the stop is the last envelope of its mailbox (passivate_slot).
THEOREM PassivationIsLossless == Spec => []PassivationLosesNothing
<1>1. IInv => PassivationLosesNothing
  BY DEF IInv, LossInv, PassivationLosesNothing
<1> QED
  BY <1>1, Inductive, PTL

\* Between passivate_shard and the next mark no call, watcher or timer spawns the entity.
THEOREM LeftStaysEmpty == Spec => NoSpawnAfterTransfer
<1>1. IInv /\ [Next]_vars => [left /\ left' => Len(inc') = Len(inc)]_vars
  <2> SUFFICES ASSUME IInv, [Next]_vars, left, left', Len(inc') # Len(inc) PROVE FALSE
    OBVIOUS
  <2>1. left' # left
    BY OnlyActivateSpawns
  <2> QED
    BY <2>1
<1> QED
  BY <1>1, Inductive, PTL DEF Spec, NoSpawnAfterTransfer
==============================================================================
