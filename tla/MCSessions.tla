----------------------------- MODULE MCSessions -----------------------------
(* Instances of Sessions for TLC: two accounts, one with two watcher slots. *)
EXTENDS Sessions

CONSTANTS alice, bob, a1, a2, b1

MCUser    == {alice, bob}
MCWatcher == {a1, a2, b1}
MCOwner   == [w \in MCWatcher |-> IF w \in {a1, a2} THEN alice ELSE bob]
=============================================================================
