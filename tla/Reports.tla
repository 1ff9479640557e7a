------------------------------ MODULE Reports ------------------------------
(***************************************************************************)
(* The heartbeats table under the reports: rows arrive in any order (a      *)
(* device offline sends its backlog later), an admin re-maps an             *)
(* application's history to another category, and a device is deleted with  *)
(* its rows, while windows of any device and any length are asked for.      *)
(***************************************************************************)
EXTENDS Dwell

CONSTANTS Heartbeat, Device, App, Category,
          Pattern,       \* the patterns in use, each the set of what it matches
          AppCategory,   \* the category the agent gives an application
          Horizon        \* bound: timestamps are below it, windows within it

ASSUME ReportsAssumption ==
    /\ AppCategory \in [App -> Category] /\ Pattern \subseteq SUBSET App
    /\ IsFiniteSet(Device) /\ Horizon \in Nat

VARIABLE rows
vars == <<rows>>

Row == [id : Heartbeat, device : Device, ts : 0..(Horizon - 1), app : App,
        category : Category, active : BOOLEAN]

Init == rows = {}

\* Mutated form: a known ID replaces its row.
StoreReplacing(h) == rows' = {g \in rows : g.id # h.id} \cup {h}

\* A known ID is ignored.
Store(h) == (\A g \in rows : g.id # h.id) /\ rows' = rows \cup {h}

\* A batch of one, at any time after its ts.
InsertHeartbeats ==
    \E id \in Heartbeat, d \in Device, t \in 0..(Horizon - 1), a \in App, on \in BOOLEAN :
        Store([id |-> id, device |-> d, ts |-> t, app |-> a,
               category |-> AppCategory[a], active |-> on])

\* Mutated form: the columns are swapped.
RemapApp(h, c) == [h EXCEPT !.category = h.app]

Remap(h, c) == [h EXCEPT !.category = c]

\* UPDATE ... WHERE lower(app) GLOB lower(pattern).
Recategorize ==
    \E P \in Pattern, c \in Category :
        rows' = {IF h.app \in P THEN Remap(h, c) ELSE h : h \in rows}

DeleteDevice ==
    \E d \in Device : rows' = {h \in rows : h.device # d}

Next == InsertHeartbeats \/ Recategorize \/ DeleteDevice

Spec == Init /\ [][Next]_vars

-----------------------------------------------------------------------------
TypeOK == rows \subseteq Row

Windows == {w \in (0..Horizon) \X (0..Horizon) : w[1] < w[2]}

\* What is selected: one device, or all of them.
Selections == {{d} : d \in Device} \cup {Device}

Selected(D, from, to) == {h \in Rng(rows, from, to) : h.device \in D}

Total(D, from, to) ==
    LET S == Selected(D, from, to)
    IN DwellSeconds(S, [d \in {h.device : h \in S} |->
                           CHOOSE s \in Orders(PartitionOf(S, d)) : TRUE], to, S)

\* The seconds of the window within the cap of a heartbeat of the device in it.
Covered(d, from, to) ==
    {t \in from..(to - 1) :
        \E h \in Selected({d}, from, to) : h.ts <= t /\ t < h.ts + MaxHeartbeatGap}

\* The device's latest heartbeats at second t.
LatestAt(d, from, to, t) ==
    LET past == {h \in Selected({d}, from, to) : h.ts <= t}
    IN {h \in past : \A g \in past : g.ts <= h.ts}

\* A device is credited with each second exactly once: the second belongs to the
\* latest heartbeat before it, unless that is longer ago than the cap.  Of
\* heartbeats with one ts any may be taken, but only one
\* (query.go:44-60; docs/superpowers/specs/2026-09-24-screwlogger-design.md:125).
DwellIsCoverage ==
    \A w \in Windows, D \in Selections :
        LET S == Selected(D, w[1], w[2]) IN
        \A o \in Partitions(S) :
            /\ DwellSeconds(S, o, w[2], S)
                 = Cardinality({p \in D \X (w[1]..w[2]) : p[2] \in Covered(p[1], w[1], w[2])})
            /\ \A key \in {"app", "category"} : \A a \in {h[key] : h \in S} :
                 LET secs == DwellUsage(S, o, w[2], key)[a]
                     Seconds(Quant(_, _)) ==
                       Cardinality({p \in D \X (w[1]..w[2]) :
                         /\ p[2] \in Covered(p[1], w[1], w[2])
                         /\ Quant(LatestAt(p[1], w[1], w[2], p[2]), a)})
                 IN /\ Seconds(LAMBDA L, x : \A h \in L : h[key] = x) <= secs
                    /\ secs <= Seconds(LAMBDA L, x : \E h \in L : h[key] = x)

\* The timeline never shows more than the ratio's total, however the devices'
\* events interleave and wherever the limit cuts them; for one device whose
\* events all fit it shows exactly the active and the idle seconds of the
\* server (app.js:563-590).
TimelineAgrees ==
    \A w \in Windows, D \in Selections :
        LET S == Selected(D, w[1], w[2]) IN
        \A e \in ListEvents(S) :
            LET shown == TimelineTotal(e, w[2])
                total == Total(D, w[1], w[2])
            IN /\ shown.active + shown.idle <= total
               /\ Cardinality(D) = 1 /\ Len(e) = Cardinality(S) =>
                    /\ shown.active + shown.idle = total
                    /\ \A d \in D : S # {} =>
                         LET ratio == ActiveRatio(S, [x \in {d} |-> e], w[2])
                         IN ratio.active = shown.active /\ ratio.idle = shown.idle

\* Cutting a window in two counts no second twice, and loses at most the gap that
\* straddles the cut, once for each device.
CutsLoseOneGap ==
    \A w \in Windows, D \in Selections : \A m \in (w[1] + 1)..(w[2] - 1) :
        LET lost == Total(D, w[1], w[2]) - Total(D, w[1], m) - Total(D, m, w[2])
        IN 0 <= lost /\ lost <= MaxHeartbeatGap * Cardinality(D)

\* A late heartbeat never takes time away from a report, and re-mapping history
\* never moves it: only deleting a device does.
OnlyDeletionTakesTime ==
    [][\/ \E d \in Device : rows' = {h \in rows : h.device # d}
       \/ \A w \in Windows, d \in Device :
             Total({d}, w[1], w[2]) <= Total({d}, w[1], w[2])']_vars
=============================================================================
