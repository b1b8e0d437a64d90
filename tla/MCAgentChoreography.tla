------------------------ MODULE MCAgentChoreography ------------------------
(* Three exchanges between two entities.  A registers with B, and asks B by   *)
(* a command or once it is registered; applying ask makes B owe tell, whose   *)
(* acceptance ends A and then, once settled, B.                               *)
EXTENDS AgentChoreography

HostsOf == [h \in Hosts |-> IF h = "a1" THEN "A" ELSE "B"]

Initiators == [register |-> "A", ask |-> "A", tell |-> "B"]

Targets == [register |-> "B", ask |-> "B", tell |-> "A"]

AppliedOwes == [register |-> {}, ask |-> {"tell"}, tell |-> {}]

SettledOwes == [register |-> {"ask"}, ask |-> {}, tell |-> {}]

Answers ==
    [register |-> {"accepted"}, ask |-> {"accepted", "rejected"}, tell |-> {"accepted"}]
=============================================================================
