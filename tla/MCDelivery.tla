----------------------------- MODULE MCDelivery -----------------------------
(* Instances of Delivery for TLC. *)
EXTENDS Delivery

AllFaults         == FaultKinds
\* Calls fail, and the buffer stays usable.
RecoverableFaults == {"write", "sync", "tmp"}
TornWrites        == {"torn"}
RenameFaults      == {"rename"}
=============================================================================
