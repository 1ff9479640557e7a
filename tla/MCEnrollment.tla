---------------------------- MODULE MCEnrollment ----------------------------
(* An instance of Enrollment for TLC. *)
EXTENDS Enrollment, TLC

CONSTANTS d1, d2, b1, b2, r1, r2

MCDevice    == {d1, d2}
MCHeartbeat == {b1, b2}
MCRequest   == {r1, r2}
Symmetry == Permutations(MCDevice) \cup Permutations(MCHeartbeat) \cup Permutations(MCRequest)
=============================================================================
