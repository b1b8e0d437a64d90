--------------------------- MODULE MCEntityRoute ---------------------------
(* One entity whose mailbox and held queue overflow within a few messages. *)
EXTENDS EntityRoute

\* A route whose shard stays, in a system that may terminate.
Resident ==
    [capacity |-> 2, idleTimeout |-> TRUE, msgs |-> 3, calls |-> 1,
     handoffs |-> FALSE, shutdown |-> TRUE]

\* Routes whose shard is handed off and may come back.
Moving ==
    [capacity : {1}, idleTimeout : BOOLEAN, msgs : {2}, calls : {1},
     handoffs : {TRUE}, shutdown : {FALSE}]

Routes == {Resident} \cup Moving
==============================================================================
