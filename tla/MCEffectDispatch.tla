-------------------------- MODULE MCEffectDispatch --------------------------
(* The dispatch pipeline for TLC: two workers share the fleet index. *)
EXTENDS EffectDispatch
=============================================================================
