------------------------------- MODULE Outbox -------------------------------
(***************************************************************************)
(* What the delivery pipeline promises, without its mechanism: a queue of   *)
(* numbered heartbeats that may lose its old end to make room and delivers  *)
(* the rest in order, each at least once and counted once.                  *)
(***************************************************************************)
EXTENDS Integers

CONSTANT Heartbeat   \* numbers, in the order of emission

VARIABLES promised,   \* heartbeats the outbox accepted
          stored,     \* heartbeats the server has
          pruned      \* heartbeats given up to make room

outboxVars == <<promised, stored, pruned>>

OutboxInit == promised = {} /\ stored = {} /\ pruned = {}

\* Nothing accepted before a member of S is left out of S.
ClosedBelow(S) ==
    \A k \in S : \A h \in promised : h < k => h \in stored \cup pruned' \cup S

\* Accept at most one heartbeat, newer than all before it; make room first.
Put ==
    /\ \E h \in Heartbeat :
          /\ \A k \in promised : k < h
          /\ \A k \in stored : k < h
          /\ promised' \in {promised, promised \cup {h}}
    /\ pruned \subseteq pruned' /\ pruned' \subseteq Heartbeat
    /\ ClosedBelow(pruned' \ pruned)
    /\ UNCHANGED stored

\* Store some heartbeats, no promised one skipped.
Deliver ==
    /\ stored \subseteq stored' /\ stored' \subseteq Heartbeat
    /\ UNCHANGED <<promised, pruned>>
    /\ ClosedBelow(stored' \ stored)

OutboxNext == Put \/ Deliver

OutboxSpec == OutboxInit /\ [][OutboxNext]_outboxVars
=============================================================================
