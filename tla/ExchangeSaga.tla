----------------------------- MODULE ExchangeSaga -----------------------------
(***************************************************************************)
(* What the choreography of rakka-agent promises about its exchanges,      *)
(* whatever is lost, repeated or restarted: an exchange is decided by its  *)
(* receiver only after its initiator owes it, and the initiator settles it *)
(* only with a result the receiver has durably decided.  Owing an exchange *)
(* may be part of any step, and nothing is forgotten.                      *)
(***************************************************************************)
CONSTANTS
    Ops,      \* operation ids
    Results   \* logical results that settle an exchange

VARIABLES
    owed,     \* exchanges some entity owes or owed
    decided,  \* per exchange: results its receiver durably recorded
    outcome   \* per exchange: results its initiator settled it with

vars == <<owed, decided, outcome>>

Init ==
    /\ owed = {}
    /\ decided = [o \in Ops |-> {}]
    /\ outcome = [o \in Ops |-> {}]

Owe(S) == owed' = owed \cup S

Initiate ==
    /\ \E S \in SUBSET Ops : Owe(S)
    /\ UNCHANGED <<decided, outcome>>

Decide(o, r) ==
    /\ o \in owed
    /\ decided' = [decided EXCEPT ![o] = @ \cup {r}]
    /\ \E S \in SUBSET Ops : Owe(S)
    /\ UNCHANGED outcome

Settle(o, r) ==
    /\ r \in decided[o]
    /\ outcome' = [outcome EXCEPT ![o] = @ \cup {r}]
    /\ \E S \in SUBSET Ops : Owe(S)
    /\ UNCHANGED decided

Next == Initiate \/ \E o \in Ops, r \in Results : Decide(o, r) \/ Settle(o, r)

Spec == Init /\ [][Next]_vars
==============================================================================
