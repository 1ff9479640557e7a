---------------------------- MODULE MCAdminPage ----------------------------
(* Instances of AdminPage for TLC. *)
EXTENDS AdminPage, TLC

CONSTANTS d1, d2, n1, n2, p1, p2, c1, c2, a1, k1, x1, t1, t2, o1, today, week

MCDevice   == {d1, d2}
MCName     == {n1, n2}
MCPattern  == {p1, p2}
MCCategory == {c1, c2}
MCApp      == {a1}
MCMatches  == [p \in MCPattern |-> MCApp]
MCKey      == {k1}
MCPrefix   == {x1}
MCPrefixOf == [k \in MCKey |-> x1]
MCToken    == {t1, t2, o1}
MCRange    == {today, week}

\* A store with one thing in it at most, no key revoked, heartbeats of one
\* category, another admin, a browser with a live session or none, and the range
\* that index.html selects.  Both patterns match the application.
MCInit ==
    /\ Init
    /\ Cardinality({d \in Device : Enrolled(d)})
         + Cardinality({p \in Pattern : rules[p] # None})
         + Cardinality({k \in Key : keys[k] # "none"}) <= 1
    /\ \A k \in Key : keys[k] # "revoked"
    /\ \E c \in Category : \A a \in App : history[a] = {c}
    /\ sessions = minted /\ range = week

MCSpec == MCInit /\ [][Next]_vars

Symmetry == Permutations(MCDevice) \cup Permutations(MCName) \cup Permutations(MCPattern)
            \cup Permutations(MCCategory) \cup Permutations({t1, t2})
=============================================================================
