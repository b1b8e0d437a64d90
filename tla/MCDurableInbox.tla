---------------------------- MODULE MCDurableInbox ----------------------------
(* Two commands with one deduplication key, and effects without. *)
EXTENDS DurableInbox

Keys == [x \in Commands \cup Effects |-> IF x \in Commands THEN "key" ELSE NoKey]

\* An instance and its successor over one record, with a store that fails.
Overtaken ==
    [workers |-> {"a", "b"}, commands |-> {11}, effects |-> {1},
     faults |-> {"lost", "refused"}, crashes |-> 1, revisions |-> 5]

\* The same with two commands that share a key, and nothing to dispatch.
Keyed == [Overtaken EXCEPT !.commands = {11, 12}, !.effects = {}]

\* One dispatcher with two effects, restarted after crashes; the revision is not bounded
\* in effect (a run of it needs fewer).
Alone ==
    [workers |-> {"a"}, commands |-> {}, effects |-> {1, 2},
     faults |-> {}, crashes |-> 2, revisions |-> 40]

Deployments == {Overtaken, Keyed, Alone}
==============================================================================
