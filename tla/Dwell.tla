------------------------------- MODULE Dwell -------------------------------
(***************************************************************************)
(* Time out of heartbeats, twice: the server's window query (query.go) and  *)
(* the dashboard's hourly timeline, which computes it again from the raw    *)
(* events (bucketByHour in app.js).                                         *)
(*                                                                         *)
(* A query is over the rows of one device, or of all, in [from, to).  SQL   *)
(* and the events' ORDER BY leave rows of equal ts in any order, so what is *)
(* said of a query is said for each of Orders.                              *)
(***************************************************************************)
EXTENDS Integers, Sequences, FiniteSets, FiniteSetsExt, SequencesExt

CONSTANTS MaxHeartbeatGap,   \* protocol.MaxHeartbeatGap, and MAX_GAP in the page
          Hour,              \* 3600
          Limit              \* the most events the page asks for

ASSUME DwellAssumption ==
    /\ MaxHeartbeatGap \in Nat
    /\ Hour \in Nat \ {0}
    /\ Limit \in Nat \ {0}

\* The smaller of two numbers (SQL's MIN, Math.min).
Least(m, n) == IF m <= n THEN m ELSE n

\* The sequences ORDER BY ts may return for S.
Orders(S) == {s \in SetToSeqs(S) : \A i \in 1..(Len(s) - 1) : s[i].ts <= s[i + 1].ts}

\* The rows of a window.
Rng(rows, from, to) == {h \in rows : from <= h.ts /\ h.ts < to}

PartitionOf(S, d) == {h \in S : h.device = d}

-----------------------------------------------------------------------------
(* The server.                                                             *)

\* LEAD(ts), and the end of the window where there is none.
NextTs(s, i, to) == IF i < Len(s) THEN s[i + 1].ts ELSE to

\* Mutated form: a gap counts in full.
SecsUncapped(s, i, to) == Least(NextTs(s, i, to), to) - s[i].ts

\* Mutated form: the last heartbeat runs past the window's end.
SecsPastTo(s, i, to) ==
    IF i < Len(s) THEN Least(s[i + 1].ts - s[i].ts, MaxHeartbeatGap) ELSE MaxHeartbeatGap

Secs(s, i, to) == Least(Least(NextTs(s, i, to), to) - s[i].ts, MaxHeartbeatGap)

\* SUM(secs) over the rows of one partition that are in T.
SumSecs(s, to, T) ==
    MapThenSumSet(LAMBDA i : Secs(s, i, to), {i \in DOMAIN s : s[i] \in T})

\* SUM(secs) over the rows T of S, each device's partition of S in its order.
DwellSeconds(S, order, to, T) ==
    MapThenSumSet(LAMBDA d : SumSecs(order[d], to, T), {h.device : h \in S})

\* The ways the server may order the partitions of S.
Partitions(S) ==
    LET D == {h.device : h \in S}
    IN {o \in [D -> UNION {Orders(PartitionOf(S, d)) : d \in D}] :
          \A d \in D : o[d] \in Orders(PartitionOf(S, d))}

\* Seconds by value of a column.
DwellUsage(S, order, to, key) ==
    [k \in {h[key] : h \in S} |-> DwellSeconds(S, order, to, {h \in S : h[key] = k})]

ActiveRatio(S, order, to) ==
    LET active == DwellSeconds(S, order, to, {h \in S : h.active})
        idle == DwellSeconds(S, order, to, {h \in S : ~h.active})
    IN [active |-> active, idle |-> idle, total |-> active + idle]

\* ListEvents: the first Limit rows of all devices together.
ListEvents(S) == {SubSeq(s, 1, Least(Len(s), Limit)) : s \in Orders(S)}

-----------------------------------------------------------------------------
(* The page.                                                               *)

\* Mutated form: no cap, as if every heartbeat were followed in time.
GapUncapped(events, i, to) == NextTs(events, i, to) - events[i].ts

Gap(events, i, to) ==
    LET gap == Least(NextTs(events, i, to) - events[i].ts, MaxHeartbeatGap)
    IN IF gap < 0 THEN 0 ELSE gap

HourKey(ts) == (ts \div Hour) * Hour

\* One hour's active or idle seconds; an hour without events has no bucket.
Bucket(events, to, hour, active) ==
    MapThenSumSet(LAMBDA i : Gap(events, i, to),
                  {i \in DOMAIN events : HourKey(events[i].ts) = hour
                                         /\ events[i].active = active})

BucketByHour(events, to) ==
    [hour \in {HourKey(events[i].ts) : i \in DOMAIN events} |->
        [active |-> Bucket(events, to, hour, TRUE), idle |-> Bucket(events, to, hour, FALSE)]]

\* What the timeline's two curves add up to.
TimelineTotal(events, to) ==
    LET b == BucketByHour(events, to)
    IN [active |-> MapThenSumSet(LAMBDA hour : b[hour].active, DOMAIN b),
        idle   |-> MapThenSumSet(LAMBDA hour : b[hour].idle, DOMAIN b)]
=============================================================================
