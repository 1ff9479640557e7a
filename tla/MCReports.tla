----------------------------- MODULE MCReports -----------------------------
(* Instances of Reports for TLC: two devices, three heartbeats. *)
EXTENDS Reports, TLC

CONSTANTS h1, h2, h3, pc1, pc2, excel, chrome, office, web

MCHeartbeat == {h1, h2, h3}
MCDevice    == {pc1, pc2}
MCApp       == {excel, chrome}
MCCategory  == {office, web}
MCPattern   == {{excel}}
MCAppCategory == (excel :> office) @@ (chrome :> web)

Symmetry == Permutations(MCHeartbeat) \cup Permutations(MCDevice)
=============================================================================
