----------------------------- MODULE MCSampling -----------------------------
(* Instances of Sampling for TLC: the code's 15, 30, 60 seconds in units of 7.5. *)
EXTENDS Sampling

MCBackoffSteps == <<2, 8, 40>>
=============================================================================
