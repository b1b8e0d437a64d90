----------------------------- MODULE MCAgentWork -----------------------------
(* A task of three attempts whose runs ask for one attempt at a time.      *)
EXTENDS AgentWork
=============================================================================
