---------------------------- MODULE MCPipeServer ----------------------------
(* Instances of PipeServer for TLC: two accounts, alice with two watchers. *)
EXTENDS PipeServer

CONSTANTS alice, bob, a1, a2, b1

MCUser    == {alice, bob}
MCWatcher == {a1, a2, b1}
MCOwner   == [w \in MCWatcher |-> IF w = b1 THEN bob ELSE alice]
TwoWatchers == {a1, b1}
TwoOwner    == [w \in TwoWatchers |-> IF w = b1 THEN bob ELSE alice]
=============================================================================
