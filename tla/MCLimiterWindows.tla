-------------------------- MODULE MCLimiterWindows --------------------------
(* An instance of LimiterWindows for TLC: one stage, as for an endpoint     *)
(* without limits of its own.                                               *)
EXTENDS LimiterWindows, TLC

MCStages == <<[burst |-> 2, window |-> 2, seconds |-> 1]>>
=============================================================================
