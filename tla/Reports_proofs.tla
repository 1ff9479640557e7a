--------------------------- MODULE Reports_proofs ---------------------------
(***************************************************************************)
(* Proofs about Reports: what the window query and the timeline add up, for *)
(* every table, window, cap, limit and order of rows of one ts.             *)
(*                                                                         *)
(* A sum of SQL or of the page is a count.  Secs of a heartbeat is the size *)
(* of an interval of seconds, Credit; the intervals of one order are apart, *)
(* so their sum is the size of their union (SumOfSizes); and a second is in *)
(* the union exactly if it lies within the cap of a row (CoverOf).  That    *)
(* does not depend on the order, grows with the rows, and can be cut at any *)
(* second, from which the properties follow by counting sets.               *)
(***************************************************************************)
EXTENDS Reports, FiniteSetTheorems, SequenceTheorems, TLAPS

\* The table holds rows (server/store.go), whatever arrives, is re-mapped or deleted.
THEOREM TypeCorrect == Spec => []TypeOK
  <1>1. Init => TypeOK
    BY DEF Init, TypeOK
  <1>2. TypeOK /\ [Next]_vars => TypeOK'
    <2> SUFFICES ASSUME TypeOK, [Next]_vars PROVE TypeOK'
      OBVIOUS
    <2>1. CASE InsertHeartbeats
      BY <2>1, ReportsAssumption DEF InsertHeartbeats, Store, TypeOK, Row
    <2>2. CASE Recategorize
      <3>1. \A h \in Row, c \in Category : Remap(h, c) \in Row
        BY DEF Remap, Row
      <3> QED
        BY <2>2, <3>1 DEF Recategorize, TypeOK
    <2>3. CASE DeleteDevice
      BY <2>3 DEF DeleteDevice, TypeOK
    <2>4. CASE UNCHANGED vars
      BY <2>4 DEF vars, TypeOK
    <2> QED
      BY <2>1, <2>2, <2>3, <2>4 DEF Next
  <1> QED
    BY <1>1, <1>2, PTL DEF Spec

-----------------------------------------------------------------------------
(* Sums.  MapThenSumSet adds up in the order CHOOSE gives.  The library's   *)
(* induction takes an operator as a parameter, so each induction here is a  *)
(* smallest counterexample, by the well-foundedness of the strict subsets   *)
(* of a finite set.                                                        *)

\* The sum of f's values over S.
SumOver(f, S) == MapThenSumSet(LAMBDA x : f[x], S)

\* The member a sum over S takes first.
OneOf(S) == CHOOSE x \in S : TRUE

\* g adds f up over each subset of S.
IsSum(f, S, g) ==
    g = [T \in SUBSET S |-> IF T = {} THEN 0 ELSE f[OneOf(T)] + g[T \ {OneOf(T)}]]

\* MapThenSumSet is a CHOSEN function that satisfies the recursion.
LEMMA SumChosen == ASSUME NEW f, NEW S PROVE SumOver(f, S) = (CHOOSE g : IsSum(f, S, g))[S]
  BY ZenonT(30) DEF SumOver, MapThenSumSet, MapThenFoldSet, IsSum, OneOf

\* A set of subsets of a finite set has a least member.
LEMMA SmallestSet ==
  ASSUME NEW S, IsFiniteSet(S), NEW Z, Z \subseteq SUBSET S, Z # {}
  PROVE  \E T \in Z : \A U \in Z : U \subseteq T => U = T
  <1>1. IsWellFoundedOn(StrictSubsetOrdering(S), SUBSET S)
    BY FS_StrictSubsetOrderingWellFounded, FS_FiniteSubsetsOfFinite
  <1>2. PICK T \in Z : \A U \in Z : ~(<<U, T>> \in StrictSubsetOrdering(S))
    BY <1>1, WFMin
  <1> QED
    BY <1>2 DEF StrictSubsetOrdering

\* Taking the chosen member away leaves less.
LEMMA SmallerSet ==
  ASSUME NEW S, S # {}
  PROVE  /\ OneOf(S) \in S /\ S \ {OneOf(S)} \subseteq S
         /\ S \ {OneOf(S)} # S
  <1>1. OneOf(S) \in S
    BY DEF OneOf
  <1> QED
    BY <1>1

\* Two functions that satisfy the recursion, on R and on a set around it, agree on
\* the subsets of R: a smallest set they differ on has none to differ in.
LEMMA SumsAgree ==
  ASSUME NEW f, NEW R, NEW S, NEW g, NEW h, IsFiniteSet(R), R \subseteq S,
         IsSum(f, R, g), IsSum(f, S, h), NEW T \in SUBSET R
  PROVE  g[T] = h[T]
  <1> DEFINE Z == {U \in SUBSET R : g[U] # h[U]}
  <1> SUFFICES ASSUME Z # {} PROVE FALSE
    OBVIOUS
  <1>1. PICK U \in Z : \A V \in Z : V \subseteq U => V = U
    <2>1. Z \subseteq SUBSET R
      OBVIOUS
    <2> HIDE DEF Z
    <2> QED
      BY <2>1, SmallestSet
  <1>2. /\ g[U] = IF U = {} THEN 0 ELSE f[OneOf(U)] + g[U \ {OneOf(U)}]
        /\ h[U] = IF U = {} THEN 0 ELSE f[OneOf(U)] + h[U \ {OneOf(U)}]
    BY DEF IsSum
  <1>3. U # {}
    BY <1>2
  <1>4. U \ {OneOf(U)} \notin Z
    BY <1>1, <1>3, SmallerSet
  <1>5. g[U \ {OneOf(U)}] = h[U \ {OneOf(U)}]
    BY <1>4
  <1> QED
    BY <1>2, <1>5

\* There is such a function, by a smallest set that has none: the sums of its proper
\* subsets make one for it.
LEMMA SumExists ==
  ASSUME NEW f, NEW S, IsFiniteSet(S)
  PROVE  \E g : IsSum(f, S, g)
  <1> DEFINE Z == {T \in SUBSET S : ~ \E g : IsSum(f, T, g)}
  <1> SUFFICES ASSUME Z # {} PROVE FALSE
    OBVIOUS
  <1>1. PICK R \in Z : \A T \in Z : T \subseteq R => T = R
    <2>1. Z \subseteq SUBSET S
      OBVIOUS
    <2> HIDE DEF Z
    <2> QED
      BY <2>1, SmallestSet
  <1>2. ASSUME NEW T \in SUBSET R, T # R PROVE \E g : IsSum(f, T, g)
    BY <1>1, <1>2
  <1> DEFINE v == [T \in SUBSET R |->
                     IF T = {} THEN 0 ELSE f[OneOf(T)] + SumOver(f, T \ {OneOf(T)})]
  <1>3. ASSUME NEW T \in SUBSET R, T # R PROVE v[T] = SumOver(f, T)
    <2>1. PICK g : IsSum(f, T, g) /\ SumOver(f, T) = g[T]
      BY <1>2, <1>3, SumChosen
    <2>2. g[T] = IF T = {} THEN 0 ELSE f[OneOf(T)] + g[T \ {OneOf(T)}]
      BY <2>1 DEF IsSum
    <2>3. CASE T = {}
      BY <2>1, <2>2, <2>3
    <2>4. CASE T # {}
      <3> DEFINE U == T \ {OneOf(T)}
      <3>1. U \in SUBSET T /\ U \in SUBSET R /\ U # R
        BY <2>4, SmallerSet
      <3>2. PICK k : IsSum(f, U, k) /\ SumOver(f, U) = k[U]
        BY <1>2, <3>1, SumChosen
      <3>3. IsFiniteSet(U)
        BY <3>1, FS_Subset
      <3>4. k[U] = g[U]
        BY <2>1, <3>1, <3>2, <3>3, SumsAgree
      <3> QED
        BY <2>1, <2>2, <2>4, <3>2, <3>4
    <2> QED
      BY <2>3, <2>4
  <1>4. ASSUME NEW T \in SUBSET R, T # {} PROVE v[T \ {OneOf(T)}] = SumOver(f, T \ {OneOf(T)})
    BY <1>3, <1>4, SmallerSet
  <1>5. IsSum(f, R, v)
    BY <1>4 DEF IsSum
  <1> QED
    BY <1>5

\* Nothing adds up to 0.
LEMMA SumEmpty == ASSUME NEW f PROVE SumOver(f, {}) = 0
  <1>1. PICK g : IsSum(f, {}, g) /\ SumOver(f, {}) = g[{}]
    BY SumExists, SumChosen, FS_EmptySet
  <1> QED
    BY <1>1 DEF IsSum

\* A sum is one member's value and the sum of the others, what the recursive
\* definition of MapThenSumSet promises and CHOOSE hides.
LEMMA SumStep ==
  ASSUME NEW f, NEW S, IsFiniteSet(S), S # {}
  PROVE  SumOver(f, S) = f[OneOf(S)] + SumOver(f, S \ {OneOf(S)})
  <1> DEFINE R == S \ {OneOf(S)}
  <1>1. R \in SUBSET S /\ IsFiniteSet(R)
    BY FS_Subset
  <1>2. PICK g : IsSum(f, S, g) /\ SumOver(f, S) = g[S]
    BY SumExists, SumChosen
  <1>3. PICK k : IsSum(f, R, k) /\ SumOver(f, R) = k[R]
    BY <1>1, SumExists, SumChosen
  <1>4. k[R] = g[R]
    BY <1>1, <1>2, <1>3, SumsAgree
  <1>5. g[S] = f[OneOf(S)] + g[R]
    BY <1>2 DEF IsSum
  <1> QED
    BY <1>2, <1>3, <1>4, <1>5

\* The members of any of the sets C[i].
UnionOf(C, I) == UNION {C[i] : i \in I}

\* A sum of sizes is the size of the union, when nothing is in two of the sets.
LEMMA SumOfSizes ==
  ASSUME NEW I, IsFiniteSet(I), NEW f, NEW C,
         \A i \in I : IsFiniteSet(C[i]) /\ f[i] = Cardinality(C[i]),
         \A i, j \in I : i # j => C[i] \cap C[j] = {}
  PROVE  IsFiniteSet(UnionOf(C, I)) /\ SumOver(f, I) = Cardinality(UnionOf(C, I))
  <1> USE DEF UnionOf
  <1> DEFINE All(J) == UNION {C[i] : i \in J}
             Z == {J \in SUBSET I : ~ (/\ IsFiniteSet(All(J))
                                  /\ SumOver(f, J) = Cardinality(All(J)))}
  <1> SUFFICES ASSUME Z # {} PROVE FALSE
    OBVIOUS
  <1>1. PICK J \in Z : \A K \in Z : K \subseteq J => K = J
    <2>1. Z \subseteq SUBSET I
      OBVIOUS
    <2> HIDE DEF Z
    <2> QED
      BY <2>1, SmallestSet
  <1>2. J # {}
    <2>1. All({}) = {}
      OBVIOUS
    <2> QED
      BY <2>1, FS_EmptySet, SumEmpty
  <1> DEFINE x == OneOf(J)
             K == J \ {x}
  <1>3. x \in I /\ K \in SUBSET I /\ K \subseteq J /\ K # J /\ J = K \cup {x} /\ x \notin K
    BY <1>2, SmallerSet
  <1> HIDE DEF x, K
  <1>4. IsFiniteSet(All(K)) /\ SumOver(f, K) = Cardinality(All(K))
    BY <1>1, <1>3
  <1>5. All(J) = All(K) \cup C[x] /\ All(K) \cap C[x] = {}
    BY <1>3
  <1>6. /\ IsFiniteSet(All(J))
        /\ Cardinality(All(J)) = Cardinality(All(K)) + Cardinality(C[x]) - Cardinality({})
    <2> DEFINE A == All(J)
               B == All(K)
               c == C[x]
    <2>1. IsFiniteSet(c)
      BY <1>3
    <2> HIDE DEF All, A, B, c
    <2>2. A = B \cup c /\ B \cap c = {} /\ IsFiniteSet(B)
      BY <1>4, <1>5 DEF A, B, c
    <2>3. /\ IsFiniteSet(B \cup c)
          /\ Cardinality(B \cup c) = Cardinality(B) + Cardinality(c) - Cardinality(B \cap c)
      BY <2>1, <2>2, FS_Union
    <2> QED
      BY <2>2, <2>3 DEF A, B, c
  <1>7. IsFiniteSet(J)
    BY FS_Subset
  <1>8. SumOver(f, J) = f[x] + SumOver(f, K)
    BY <1>2, <1>7, SumStep DEF x, K
  <1>9. f[x] = Cardinality(C[x]) /\ Cardinality(C[x]) \in Nat /\ Cardinality(All(K)) \in Nat
    BY <1>3, <1>4, FS_CardinalityType
  <1>10. SumOver(f, J) = Cardinality(All(J))
    BY <1>4, <1>6, <1>8, <1>9, FS_EmptySet
  <1> QED
    BY <1>6, <1>10

-----------------------------------------------------------------------------
(* Orders.                                                                 *)

\* A function on 1..n is a sequence of length n.
LEMMA FunLen ==
  ASSUME NEW S, NEW n \in Nat, NEW s \in [1..n -> S]
  PROVE  s \in Seq(S) /\ Len(s) = n /\ DOMAIN s = 1..n
  <1>1. s \in Seq(S)
    BY SeqDef
  <1> QED
    BY <1>1, LenProperties

\* A finite set has a member that is the highest by a measure.
LEMMA Highest ==
  ASSUME NEW S, IsFiniteSet(S), S # {}, NEW m, \A x \in S : m[x] \in Int
  PROVE  \E x \in S : \A y \in S : m[y] <= m[x]
  <1> DEFINE Z == {T \in SUBSET S : T # {} /\ ~ \E x \in T : \A y \in T : m[y] <= m[x]}
  <1> SUFFICES ASSUME Z # {} PROVE FALSE
    OBVIOUS
  <1>1. PICK T \in Z : \A U \in Z : U \subseteq T => U = T
    <2>1. Z \subseteq SUBSET S
      OBVIOUS
    <2> HIDE DEF Z
    <2> QED
      BY <2>1, SmallestSet
  <1>2. PICK x \in T : TRUE
    OBVIOUS
  <1>3. T \ {x} # {}
    BY <1>2
  <1>4. T \ {x} \notin Z
    BY <1>1, <1>2
  <1>5. PICK y \in T \ {x} : \A z \in T \ {x} : m[z] <= m[y]
    BY <1>3, <1>4
  <1>6. \A z \in T : m[z] \in Int
    OBVIOUS
  <1>7. CASE m[x] <= m[y]
    BY <1>5, <1>6, <1>7
  <1>8. CASE ~(m[x] <= m[y])
    BY <1>2, <1>5, <1>6, <1>8
  <1> QED
    BY <1>7, <1>8

\* A set of naturals has a least member.
LEMMA SmallestNat ==
  ASSUME NEW Z, Z \subseteq Nat, Z # {}
  PROVE  \E n \in Z : \A m \in Z : n <= m
  <1>1. PICK n \in Z : \A m \in Z : ~(<<m, n>> \in OpToRel(<, Nat))
    BY NatLessThanWellFounded, WFMin
  <1>2. \A m \in Z : ~(m < n)
    BY <1>1 DEF OpToRel
  <1> QED
    BY <1>2

\* What SetToSeqs and the order by ts make of a finite set of rows.
LEMMA OrderOf ==
  ASSUME NEW S, IsFiniteSet(S), NEW s \in Orders(S)
  PROVE  /\ s \in Seq(S) /\ Len(s) \in Nat /\ Len(s) = Cardinality(S)
         /\ DOMAIN s = 1..Len(s)
         /\ \A i \in 1..Len(s) : s[i] \in S
         /\ \A i, j \in 1..Len(s) : i # j => s[i] # s[j]
         /\ \A h \in S : \E i \in 1..Len(s) : s[i] = h
         /\ \A i \in 1..(Len(s) - 1) : s[i].ts <= s[i + 1].ts
  <1> DEFINE n == Cardinality(S)
  <1>1. n \in Nat
    BY FS_CardinalityType
  <1>2. /\ s \in [1..n -> S]
        /\ \A i, j \in 1..n : i # j => s[i] # s[j]
        /\ \A i \in 1..(Len(s) - 1) : s[i].ts <= s[i + 1].ts
    BY DEF Orders, SetToSeqs
  <1>3. s \in Seq(S) /\ Len(s) = n /\ DOMAIN s = 1..n
    BY <1>1, <1>2, FunLen
  <1>4. s \in Surjection(1..n, S)
    <2>1. IsFiniteSet(1..n) /\ Cardinality(1..n) = n
      BY <1>1, FS_Interval
    <2>2. s \in Injection(1..n, S)
      BY <1>2 DEF Injection, IsInjective
    <2> QED
      BY <2>1, <2>2, FS_Injection
  <1> QED
    BY <1>1, <1>2, <1>3, <1>4 DEF Surjection

\* A finite set of rows has an order: a latest row, after an order of the others.
LEMMA OrderExists ==
  ASSUME NEW S, IsFiniteSet(S), \A h \in S : h.ts \in Int
  PROVE  Orders(S) # {}
  <1> DEFINE Z == {T \in SUBSET S : Orders(T) = {}}
  <1> SUFFICES ASSUME Z # {} PROVE FALSE
    OBVIOUS
  <1>1. PICK T \in Z : \A U \in Z : U \subseteq T => U = T
    <2>1. Z \subseteq SUBSET S
      OBVIOUS
    <2> HIDE DEF Z
    <2> QED
      BY <2>1, SmallestSet
  <1>2. IsFiniteSet(T)
    BY FS_Subset
  <1>3. T # {}
    <2>1. ASSUME T = {} PROVE FALSE
      <3> DEFINE e == [i \in 1..0 |-> 0]
      <3>1. Cardinality(T) = 0
        BY <2>1, FS_EmptySet
      <3>2. e \in [1..0 -> T]
        OBVIOUS
      <3>3. Len(e) = 0
        BY <3>2, FunLen
      <3> HIDE DEF e
      <3>4. e \in Orders(T)
        BY <3>1, <3>2, <3>3 DEF Orders, SetToSeqs
      <3> QED
        BY <3>4
    <2> QED
      BY <2>1
  <1>4. PICK h \in T : \A g \in T : g.ts <= h.ts
    <2> DEFINE m == [g \in T |-> g.ts]
    <2>1. \A g \in T : m[g] \in Int
      OBVIOUS
    <2>2. PICK h \in T : \A g \in T : m[g] <= m[h]
      <3> HIDE DEF m
      <3> QED
        BY <1>2, <1>3, <2>1, Highest
    <2> QED
      BY <2>2
  <1> DEFINE U == T \ {h}
             n == Cardinality(U)
  <1>5. U \in SUBSET T /\ U # T /\ IsFiniteSet(U) /\ n \in Nat /\ Cardinality(T) = n + 1
    <2>1. U \in SUBSET T /\ U # T
      OBVIOUS
    <2>2. IsFiniteSet(U) /\ n = Cardinality(T) - 1
      BY <1>2, FS_RemoveElement
    <2>3. n \in Nat /\ Cardinality(T) \in Nat
      BY <1>2, <2>2, FS_CardinalityType
    <2> HIDE DEF U, n
    <2> QED
      BY <2>1, <2>2, <2>3
  <1>6. PICK q : q \in Orders(U)
    BY <1>1, <1>5
  <1>7. /\ Len(q) = n /\ \A i \in 1..n : q[i] \in U
        /\ \A i, j \in 1..n : i # j => q[i] # q[j]
        /\ \A i \in 1..(n - 1) : q[i].ts <= q[i + 1].ts
    <2> HIDE DEF U
    <2>1. /\ Len(q) = Cardinality(U) /\ \A i \in 1..Len(q) : q[i] \in U
          /\ \A i, j \in 1..Len(q) : i # j => q[i] # q[j]
          /\ \A i \in 1..(Len(q) - 1) : q[i].ts <= q[i + 1].ts
      BY <1>5, <1>6, OrderOf
    <2> QED
      BY <2>1
  <1> DEFINE s == [i \in 1..(n + 1) |-> IF i <= n THEN q[i] ELSE h]
  <1> HIDE DEF n, U
  <1>8. s \in [1..(n + 1) -> T] /\ Len(s) = n + 1
    <2>1. s \in [1..(n + 1) -> T]
      BY <1>5, <1>7
    <2>2. n + 1 \in Nat
      BY <1>5
    <2> HIDE DEF s
    <2> QED
      BY <2>1, <2>2, FunLen
  <1>9. \A i, j \in 1..(n + 1) : i # j => s[i] # s[j]
    BY <1>5, <1>7 DEF U
  <1>10. \A i \in 1..n : s[i].ts <= s[i + 1].ts
    <2> SUFFICES ASSUME NEW i \in 1..n PROVE s[i].ts <= s[i + 1].ts
      OBVIOUS
    <2>1. CASE i < n
      <3>1. s[i] = q[i] /\ s[i + 1] = q[i + 1] /\ i \in 1..(n - 1)
        BY <1>5, <2>1
      <3> QED
        BY <1>7, <3>1
    <2>2. CASE ~(i < n)
      <3>1. s[i] = q[i] /\ s[i + 1] = h /\ q[i] \in T
        BY <1>5, <1>7, <2>2
      <3> QED
        BY <1>4, <3>1
    <2> QED
      BY <2>1, <2>2
  <1>11. s \in Orders(T)
    <2> HIDE DEF s
    <2> QED
      BY <1>5, <1>8, <1>9, <1>10 DEF Orders, SetToSeqs
  <1> QED
    BY <1>11

\* An order by ts is one of all rows, not of neighbours only.
LEMMA OrderAscends ==
  ASSUME NEW s, Len(s) \in Nat, \A i \in 1..Len(s) : s[i].ts \in Int,
         \A i \in 1..(Len(s) - 1) : s[i].ts <= s[i + 1].ts
  PROVE  \A i, j \in 1..Len(s) : i <= j => s[i].ts <= s[j].ts
  <1> TAKE i \in 1..Len(s)
  <1> DEFINE Z == {j \in Nat : j \in i..Len(s) /\ ~(s[i].ts <= s[j].ts)}
  <1> SUFFICES ASSUME Z # {} PROVE FALSE
    OBVIOUS
  <1>1. PICK j \in Z : \A k \in Z : j <= k
    <2>1. Z \subseteq Nat
      OBVIOUS
    <2> HIDE DEF Z
    <2> QED
      BY <2>1, SmallestNat
  <1>2. i < j /\ j - 1 \in i..Len(s) /\ j - 1 \in Nat
    OBVIOUS
  <1>3. s[i].ts <= s[j - 1].ts
    BY <1>1, <1>2
  <1>4. s[j - 1].ts <= s[j].ts
    <2>1. j - 1 \in 1..(Len(s) - 1) /\ (j - 1) + 1 = j
      BY <1>2
    <2> QED
      BY <2>1
  <1>5. j - 1 \in 1..Len(s) /\ j \in 1..Len(s)
    BY <1>2
  <1> QED
    BY <1>3, <1>4, <1>5

-----------------------------------------------------------------------------
(* Credit.                                                                 *)

\* The rows of a query over [from, to), in the order ORDER BY gives.
Ordered(s, from, to) ==
    /\ from \in Int /\ to \in Int
    /\ Len(s) \in Nat
    /\ \A i \in 1..Len(s) : s[i].ts \in Int /\ from <= s[i].ts /\ s[i].ts < to
    /\ \A i, j \in 1..Len(s) : i <= j => s[i].ts <= s[j].ts

\* The end of a row's gap is no earlier than the row and no later than the window's end.
LEMMA NextTsType ==
  ASSUME NEW s, NEW from, NEW to, Ordered(s, from, to), NEW i \in 1..Len(s)
  PROVE  /\ Len(s) \in Nat /\ s[i].ts \in Int
         /\ NextTs(s, i, to) \in Int
         /\ s[i].ts <= NextTs(s, i, to) /\ NextTs(s, i, to) <= to
  <1>1. Len(s) \in Nat /\ \A j \in 1..Len(s) : s[j].ts \in Int
    BY DEF Ordered
  <1>2. CASE i < Len(s)
    <2>1. i + 1 \in 1..Len(s) /\ i <= i + 1
      BY <1>1, <1>2
    <2> QED
      BY <1>1, <1>2, <2>1 DEF Ordered, NextTs
  <1>3. CASE ~(i < Len(s))
    BY <1>1, <1>3 DEF Ordered, NextTs
  <1> QED
    BY <1>2, <1>3

\* A heartbeat is credited with no negative time, at most the cap, and nothing past
\* the next heartbeat or the end of the window (query.go:44-60).
THEOREM CreditIsBounded ==
  ASSUME NEW s, NEW from, NEW to, Ordered(s, from, to), NEW i \in 1..Len(s)
  PROVE  /\ Secs(s, i, to) \in 0..MaxHeartbeatGap
         /\ s[i].ts + Secs(s, i, to) <= NextTs(s, i, to)
         /\ s[i].ts + Secs(s, i, to) <= to
  <1>1. /\ s[i].ts \in Int /\ NextTs(s, i, to) \in Int /\ to \in Int
        /\ s[i].ts <= NextTs(s, i, to) /\ NextTs(s, i, to) <= to
    BY NextTsType DEF Ordered
  <1>2. Least(NextTs(s, i, to), to) = NextTs(s, i, to)
    BY <1>1 DEF Least
  <1> QED
    BY <1>1, <1>2, DwellAssumption DEF Secs, Least

\* No second is credited to two heartbeats of a device (query.go:44-60).
THEOREM CreditsAreDisjoint ==
  ASSUME NEW s, NEW from, NEW to, Ordered(s, from, to),
         NEW i \in 1..Len(s), NEW j \in 1..Len(s), i < j
  PROVE  s[i].ts + Secs(s, i, to) <= s[j].ts
  <1>1. NextTs(s, i, to) <= s[j].ts
    <2>1. Len(s) \in Nat /\ i + 1 \in 1..Len(s) /\ i + 1 <= j
      BY DEF Ordered
    <2> QED
      BY <2>1 DEF Ordered, NextTs
  <1>2. Secs(s, i, to) \in Int /\ s[i].ts \in Int /\ s[j].ts \in Int
        /\ NextTs(s, i, to) \in Int
    BY NextTsType, CreditIsBounded
  <1>3. s[i].ts + Secs(s, i, to) <= NextTs(s, i, to)
    BY CreditIsBounded
  <1> QED
    BY <1>1, <1>2, <1>3

\* Every second up to the next heartbeat or the end is credited while the cap
\* lasts (query.go:44-60).
THEOREM CreditIsWhole ==
  ASSUME NEW s, NEW from, NEW to, Ordered(s, from, to), NEW i \in 1..Len(s),
         NEW t \in Int, s[i].ts <= t, t < NextTs(s, i, to), t < s[i].ts + MaxHeartbeatGap
  PROVE  t < s[i].ts + Secs(s, i, to)
  BY NextTsType, DwellAssumption DEF Secs, Least

\* The timeline of the page counts every heartbeat as the server does, when they
\* are one device's (app.js:563-590, query.go:44-60).
THEOREM TimelineCountsAlike ==
  ASSUME NEW s, NEW from, NEW to, Ordered(s, from, to), NEW i \in 1..Len(s)
  PROVE  Gap(s, i, to) = Secs(s, i, to)
  BY NextTsType, DwellAssumption DEF Gap, Secs, Least

-----------------------------------------------------------------------------
(* Coverage.                                                               *)

\* The seconds heartbeat i is credited with.
Credit(s, i, to) == s[i].ts..(s[i].ts + Secs(s, i, to) - 1)

\* The seconds within the cap of one of the rows.
Within(S, from, to) ==
    {t \in from..(to - 1) : \E h \in S : h.ts <= t /\ t < h.ts + MaxHeartbeatGap}

\* The rows of a query over [from, to), all of them, in an order ORDER BY may give.
Answer(S, s, from, to) ==
    /\ IsFiniteSet(S) /\ s \in Orders(S)
    /\ from \in Int /\ to \in Int
    /\ \A h \in S : h.ts \in Int /\ from <= h.ts /\ h.ts < to

\* An order of all the rows of a window is Ordered and holds each of them.
LEMMA AnswerIsOrdered ==
  ASSUME NEW S, NEW s, NEW from, NEW to, Answer(S, s, from, to)
  PROVE  /\ Ordered(s, from, to)
         /\ DOMAIN s = 1..Len(s) /\ Len(s) \in Nat
         /\ \A i \in 1..Len(s) : s[i] \in S
         /\ \A h \in S : \E i \in 1..Len(s) : s[i] = h
  <1>1. /\ Len(s) \in Nat /\ DOMAIN s = 1..Len(s)
        /\ \A i \in 1..Len(s) : s[i] \in S
        /\ \A h \in S : \E i \in 1..Len(s) : s[i] = h
        /\ \A i \in 1..(Len(s) - 1) : s[i].ts <= s[i + 1].ts
    BY OrderOf DEF Answer
  <1>2. \A i \in 1..Len(s) : s[i].ts \in Int /\ from <= s[i].ts /\ s[i].ts < to
    BY <1>1 DEF Answer
  <1>3. \A i, j \in 1..Len(s) : i <= j => s[i].ts <= s[j].ts
    BY <1>1, <1>2, OrderAscends
  <1> QED
    BY <1>1, <1>2, <1>3 DEF Ordered, Answer

\* A credit starts at an integer and is a natural.
LEMMA CreditType ==
  ASSUME NEW s, NEW from, NEW to, Ordered(s, from, to), NEW i \in 1..Len(s)
  PROVE  s[i].ts \in Int /\ Secs(s, i, to) \in Nat
  <1>1. Secs(s, i, to) \in 0..MaxHeartbeatGap
    BY CreditIsBounded
  <1>2. s[i].ts \in Int
    BY DEF Ordered
  <1> QED
    BY <1>1, <1>2, DwellAssumption

\* As many seconds are credited as Secs says.
LEMMA CreditSize ==
  ASSUME NEW s, NEW from, NEW to, Ordered(s, from, to), NEW i \in 1..Len(s)
  PROVE  IsFiniteSet(Credit(s, i, to)) /\ Cardinality(Credit(s, i, to)) = Secs(s, i, to)
  <1>1. s[i].ts \in Int /\ Secs(s, i, to) \in Nat
    BY CreditType
  <1> DEFINE a == s[i].ts
             b == s[i].ts + Secs(s, i, to) - 1
  <1>2. a \in Int /\ b \in Int
    BY <1>1
  <1>3. /\ IsFiniteSet(a..b)
        /\ Cardinality(a..b) = IF a > b THEN 0 ELSE b - a + 1
    <2> HIDE DEF a, b
    <2> QED
      BY <1>2, FS_Interval
  <1> QED
    BY <1>1, <1>3 DEF Credit

\* No second is credited to two rows of one order.
LEMMA CreditsApart ==
  ASSUME NEW s, NEW from, NEW to, Ordered(s, from, to), NEW i \in 1..Len(s), NEW j \in 1..Len(s),
         i # j
  PROVE  Credit(s, i, to) \cap Credit(s, j, to) = {}
  <1> SUFFICES ASSUME NEW t \in Credit(s, i, to), t \in Credit(s, j, to) PROVE FALSE
    OBVIOUS
  <1>1. /\ s[i].ts \in Int /\ Secs(s, i, to) \in Nat
        /\ s[j].ts \in Int /\ Secs(s, j, to) \in Nat
        /\ i \in Int /\ j \in Int
    BY CreditType
  <1>2. CASE i < j
    <2>1. s[i].ts + Secs(s, i, to) <= s[j].ts
      BY <1>2, CreditsAreDisjoint
    <2> QED
      BY <1>1, <2>1 DEF Credit
  <1>3. CASE j < i
    <2>1. s[j].ts + Secs(s, j, to) <= s[i].ts
      BY <1>3, CreditsAreDisjoint
    <2> QED
      BY <1>1, <2>1 DEF Credit
  <1> QED
    BY <1>1, <1>2, <1>3

\* A second within the cap of a row is credited to the last row before it.
LEMMA SecondIsCredited ==
  ASSUME NEW s, NEW from, NEW to, Ordered(s, from, to), NEW t \in Int, t < to,
         NEW k \in 1..Len(s), s[k].ts <= t, t < s[k].ts + MaxHeartbeatGap
  PROVE  \E i \in 1..Len(s) : t \in Credit(s, i, to)
  <1> DEFINE Before == {i \in 1..Len(s) : s[i].ts <= t}
  <1>1. Len(s) \in Nat /\ to \in Int /\ \A i \in 1..Len(s) : s[i].ts \in Int
    BY DEF Ordered
  <1>2. PICK i \in Before : \A j \in Before : j <= i
    <2> DEFINE m == [j \in Before |-> j]
    <2>1. IsFiniteSet(Before)
      <3>1. IsFiniteSet(1..Len(s)) /\ Before \in SUBSET (1..Len(s))
        BY <1>1, FS_Interval
      <3> HIDE DEF Before
      <3> QED
        BY <3>1, FS_Subset
    <2>2. Before # {} /\ \A j \in Before : m[j] \in Int
      OBVIOUS
    <2>3. PICK i \in Before : \A j \in Before : m[j] <= m[i]
      <3> HIDE DEF m, Before
      <3> QED
        BY <2>1, <2>2, Highest
    <2> QED
      BY <2>3
  <1>3. t < NextTs(s, i, to)
    <2>1. CASE i < Len(s)
      <3>1. i + 1 \in 1..Len(s) /\ ~(i + 1 <= i)
        BY <1>1, <2>1
      <3>2. ~(s[i + 1].ts <= t)
        BY <1>2, <3>1
      <3> QED
        BY <1>1, <2>1, <3>1, <3>2 DEF NextTs
    <2>2. CASE ~(i < Len(s))
      BY <2>2 DEF NextTs
    <2> QED
      BY <2>1, <2>2
  <1>4. k <= i
    BY <1>2
  <1>5. s[k].ts <= s[i].ts
    BY <1>2, <1>4 DEF Ordered
  <1>6. t < s[i].ts + MaxHeartbeatGap
    BY <1>1, <1>2, <1>5, DwellAssumption
  <1>7. t < s[i].ts + Secs(s, i, to)
    BY <1>2, <1>3, <1>6, CreditIsWhole
  <1>8. Secs(s, i, to) \in Int
    BY <1>2, CreditIsBounded
  <1> QED
    BY <1>1, <1>2, <1>7, <1>8 DEF Credit

\* A credited second is in the window and within the cap of its row, the latest
\* before it.
LEMMA CreditedSecond ==
  ASSUME NEW s, NEW from, NEW to, Ordered(s, from, to), NEW i \in 1..Len(s),
         NEW t \in Credit(s, i, to)
  PROVE  /\ t \in from..(to - 1) /\ s[i].ts <= t /\ t < s[i].ts + MaxHeartbeatGap
         /\ \A j \in 1..Len(s) : s[j].ts <= t => s[j].ts <= s[i].ts
  <1>1. /\ s[i].ts \in Int /\ from \in Int /\ to \in Int /\ from <= s[i].ts
        /\ \A j \in 1..Len(s) : s[j].ts \in Int
    BY DEF Ordered
  <1>2. Secs(s, i, to) \in 0..MaxHeartbeatGap /\ s[i].ts + Secs(s, i, to) <= to
    BY CreditIsBounded
  <1>3. t \in Int /\ s[i].ts <= t /\ t < s[i].ts + Secs(s, i, to)
    BY <1>1, <1>2, DwellAssumption DEF Credit
  <1>4. ASSUME NEW j \in 1..Len(s), s[j].ts <= t PROVE s[j].ts <= s[i].ts
    <2>1. CASE i < j
      <3>1. s[i].ts + Secs(s, i, to) <= s[j].ts
        BY <2>1, CreditsAreDisjoint
      <3> QED
        BY <1>1, <1>2, <1>3, <1>4, <3>1, DwellAssumption
    <2>2. CASE j <= i
      BY <2>2 DEF Ordered
    <2> QED
      BY <2>1, <2>2 DEF Ordered
  <1> QED
    BY <1>1, <1>2, <1>3, <1>4, DwellAssumption

\* The seconds credited to any of the rows at the positions I.
Credits(s, I, to) == UNION {Credit(s, i, to) : i \in I}

\* SUM(secs) of one partition, as a SumOver.
LEMMA SumSecsIsSum ==
  ASSUME NEW s, NEW to, NEW T
  PROVE  SumSecs(s, to, T)
           = SumOver([i \in DOMAIN s |-> Secs(s, i, to)], {i \in DOMAIN s : s[i] \in T})
  BY ZenonT(30) DEF SumSecs, SumOver, MapThenSumSet, MapThenFoldSet

\* What the server adds up is the number of seconds it credits.
LEMMA SumIsCredits ==
  ASSUME NEW s, NEW from, NEW to, Ordered(s, from, to), DOMAIN s = 1..Len(s), NEW T
  PROVE  LET I == {i \in DOMAIN s : s[i] \in T}
         IN  /\ IsFiniteSet(Credits(s, I, to))
             /\ SumSecs(s, to, T) = Cardinality(Credits(s, I, to))
  <1> DEFINE I == {i \in DOMAIN s : s[i] \in T}
             f == [i \in DOMAIN s |-> Secs(s, i, to)]
             C == [i \in DOMAIN s |-> Credit(s, i, to)]
  <1>1. IsFiniteSet(I) /\ I \subseteq 1..Len(s)
    <2>1. IsFiniteSet(1..Len(s)) /\ I \in SUBSET (1..Len(s))
      BY FS_Interval DEF Ordered
    <2> HIDE DEF I
    <2> QED
      BY <2>1, FS_Subset
  <1>2. SumSecs(s, to, T) = SumOver(f, I)
    BY SumSecsIsSum
  <1>3. \A i \in I : IsFiniteSet(C[i]) /\ f[i] = Cardinality(C[i])
    BY CreditSize
  <1>4. \A i, j \in I : i # j => C[i] \cap C[j] = {}
    BY <1>1, CreditsApart
  <1>5. Credits(s, I, to) = UnionOf(C, I)
    BY DEF Credits, UnionOf
  <1> HIDE DEF I, f, C
  <1>6. IsFiniteSet(UnionOf(C, I)) /\ SumOver(f, I) = Cardinality(UnionOf(C, I))
    BY <1>1, <1>3, <1>4, SumOfSizes
  <1>7. IsFiniteSet(Credits(s, I, to)) /\ SumSecs(s, to, T) = Cardinality(Credits(s, I, to))
    BY <1>2, <1>5, <1>6
  <1> QED
    BY <1>7 DEF I

-----------------------------------------------------------------------------
(* The seconds of several devices.                                         *)

\* A finite set of rows of [from, to).
Window(S, from, to) ==
    /\ IsFiniteSet(S) /\ from \in Int /\ to \in Int
    /\ \A h \in S : h.ts \in Int /\ from <= h.ts /\ h.ts < to

\* The devices of the rows S.
Devices(S) == {h.device : h \in S}

\* The seconds credited to the rows T, each with its device.
SecondsOf(S, o, to, T) ==
    UnionOf([d \in Devices(S) |-> {d} \X Credits(o[d], {i \in DOMAIN o[d] : o[d][i] \in T}, to)],
            Devices(S))

\* Finitely many rows are of finitely many devices.
LEMMA DevicesFinite == ASSUME NEW S, IsFiniteSet(S) PROVE IsFiniteSet(Devices(S))
  <1> DEFINE f == [h \in S |-> h.device]
  <1>1. f \in Surjection(S, Devices(S))
    BY DEF Surjection, Devices
  <1> QED
    BY <1>1, FS_Surjection

\* Each device's partition is in an order of all its rows.
LEMMA PartitionAnswer ==
  ASSUME NEW S, NEW o, NEW from, NEW to, Window(S, from, to), o \in Partitions(S),
         NEW d \in Devices(S)
  PROVE  Answer(PartitionOf(S, d), o[d], from, to)
  <1>1. o[d] \in Orders(PartitionOf(S, d))
    BY DEF Partitions, Devices
  <1>2. PartitionOf(S, d) \in SUBSET S
    BY DEF PartitionOf
  <1>3. IsFiniteSet(PartitionOf(S, d))
    BY <1>2, FS_Subset DEF Window
  <1> QED
    BY <1>1, <1>2, <1>3 DEF Answer, Window

\* SUM(secs) of the whole query, as a SumOver.
LEMMA DwellIsSum ==
  ASSUME NEW S, NEW o, NEW to, NEW T
  PROVE  DwellSeconds(S, o, to, T)
           = SumOver([d \in Devices(S) |-> SumSecs(o[d], to, T)], Devices(S))
  BY ZenonT(30) DEF DwellSeconds, Devices, SumOver, MapThenSumSet, MapThenFoldSet

\* What a query adds up over the rows T is the number of seconds credited to them:
\* the seconds of one device are apart, and of two devices differ in the device.
LEMMA DwellCountsSeconds ==
  ASSUME NEW S, NEW o, NEW from, NEW to, NEW T, Window(S, from, to), o \in Partitions(S)
  PROVE  /\ IsFiniteSet(SecondsOf(S, o, to, T))
         /\ DwellSeconds(S, o, to, T) = Cardinality(SecondsOf(S, o, to, T))
  <1> DEFINE Mine(d) == Credits(o[d], {i \in DOMAIN o[d] : o[d][i] \in T}, to)
             f == [d \in Devices(S) |-> SumSecs(o[d], to, T)]
             C == [d \in Devices(S) |-> {d} \X Mine(d)]
  <1>1. \A d \in Devices(S) : IsFiniteSet(C[d]) /\ f[d] = Cardinality(C[d])
    <2> TAKE d \in Devices(S)
    <2>1. Answer(PartitionOf(S, d), o[d], from, to)
      BY PartitionAnswer
    <2>2. Ordered(o[d], from, to) /\ DOMAIN o[d] = 1..Len(o[d])
      BY <2>1, AnswerIsOrdered
    <2>3. IsFiniteSet(Mine(d)) /\ SumSecs(o[d], to, T) = Cardinality(Mine(d))
      BY <2>2, SumIsCredits
    <2> HIDE DEF Mine
    <2>4. IsFiniteSet({d}) /\ Cardinality({d}) = 1
      BY FS_Singleton
    <2>5. /\ IsFiniteSet({d} \X Mine(d))
          /\ Cardinality({d} \X Mine(d)) = Cardinality({d}) * Cardinality(Mine(d))
      BY <2>3, <2>4, FS_Product
    <2>6. Cardinality(Mine(d)) \in Nat
      BY <2>3, FS_CardinalityType
    <2>7. Cardinality({d} \X Mine(d)) = Cardinality(Mine(d))
      BY <2>4, <2>5, <2>6
    <2> QED
      BY <2>3, <2>5, <2>7
  <1>2. \A d, e \in Devices(S) : d # e => C[d] \cap C[e] = {}
    <2> HIDE DEF Mine
    <2> QED
      OBVIOUS
  <1>3. IsFiniteSet(Devices(S))
    BY DevicesFinite DEF Window
  <1>4. DwellSeconds(S, o, to, T) = SumOver(f, Devices(S))
    BY DwellIsSum
  <1>5. SecondsOf(S, o, to, T) = UnionOf(C, Devices(S))
    BY DEF SecondsOf
  <1> HIDE DEF f, C
  <1>6. /\ IsFiniteSet(UnionOf(C, Devices(S)))
        /\ SumOver(f, Devices(S)) = Cardinality(UnionOf(C, Devices(S)))
    BY <1>1, <1>2, <1>3, SumOfSizes
  <1> QED
    BY <1>4, <1>5, <1>6

\* A second of SecondsOf is one of a row of its device.
LEMMA WhoseSecond ==
  ASSUME NEW S, NEW o, NEW to, NEW T, NEW p
  PROVE  p \in SecondsOf(S, o, to, T) <=>
           \E d \in Devices(S) : \E i \in DOMAIN o[d] : \E t \in Credit(o[d], i, to) :
              o[d][i] \in T /\ p = <<d, t>>
  BY DEF SecondsOf, UnionOf, Credits

\* The seconds credited are those within the cap of a row of the device.
LEMMA CreditedIsCovered ==
  ASSUME NEW S, NEW o, NEW from, NEW to, Window(S, from, to), o \in Partitions(S),
         NEW d, NEW t
  PROVE  <<d, t>> \in SecondsOf(S, o, to, S) <=> t \in Within(PartitionOf(S, d), from, to)
  <1>1. ASSUME d \in Devices(S)
        PROVE  /\ Ordered(o[d], from, to) /\ DOMAIN o[d] = 1..Len(o[d])
               /\ \A i \in 1..Len(o[d]) : o[d][i] \in PartitionOf(S, d)
               /\ \A h \in PartitionOf(S, d) : \E i \in 1..Len(o[d]) : o[d][i] = h
    <2>1. Answer(PartitionOf(S, d), o[d], from, to)
      BY <1>1, PartitionAnswer
    <2> QED
      BY <2>1, AnswerIsOrdered
  <1>2. ASSUME <<d, t>> \in SecondsOf(S, o, to, S) PROVE t \in Within(PartitionOf(S, d), from, to)
    <2>1. PICK i \in DOMAIN o[d] : d \in Devices(S) /\ t \in Credit(o[d], i, to)
      BY <1>2, WhoseSecond
    <2>2. /\ t \in from..(to - 1)
          /\ o[d][i].ts <= t /\ t < o[d][i].ts + MaxHeartbeatGap
      BY <1>1, <2>1, CreditedSecond
    <2>3. o[d][i] \in PartitionOf(S, d)
      BY <1>1, <2>1
    <2> QED
      BY <2>2, <2>3 DEF Within
  <1>3. ASSUME t \in Within(PartitionOf(S, d), from, to) PROVE <<d, t>> \in SecondsOf(S, o, to, S)
    <2>1. PICK h \in PartitionOf(S, d) : h.ts <= t /\ t < h.ts + MaxHeartbeatGap
      BY <1>3 DEF Within
    <2>2. t \in Int /\ t < to
      BY <1>3 DEF Within, Window
    <2>3. h \in S /\ h.device = d /\ d \in Devices(S)
      BY <2>1 DEF PartitionOf, Devices
    <2>4. PICK k \in 1..Len(o[d]) : o[d][k] = h
      BY <1>1, <2>3
    <2>5. PICK i \in 1..Len(o[d]) : t \in Credit(o[d], i, to)
      BY <1>1, <2>1, <2>2, <2>3, <2>4, SecondIsCredited
    <2>6. i \in DOMAIN o[d] /\ o[d][i] \in S
      BY <1>1, <2>3 DEF PartitionOf
    <2> QED
      BY <2>3, <2>5, <2>6, WhoseSecond
  <1> QED
    BY <1>2, <1>3

\* A second credited to a row of T is one whose latest rows include one of T.
LEMMA CreditedToLatest ==
  ASSUME NEW S, NEW o, NEW from, NEW to, NEW T, Window(S, from, to), o \in Partitions(S),
         NEW d, NEW t, <<d, t>> \in SecondsOf(S, o, to, T)
  PROVE  \E h \in T : /\ h \in PartitionOf(S, d) /\ h.ts <= t
                      /\ \A g \in PartitionOf(S, d) : g.ts <= t => g.ts <= h.ts
  <1>1. PICK i \in DOMAIN o[d] : d \in Devices(S) /\ t \in Credit(o[d], i, to) /\ o[d][i] \in T
    BY WhoseSecond
  <1>2. Answer(PartitionOf(S, d), o[d], from, to)
    BY <1>1, PartitionAnswer
  <1>3. /\ Ordered(o[d], from, to) /\ DOMAIN o[d] = 1..Len(o[d])
        /\ \A k \in 1..Len(o[d]) : o[d][k] \in PartitionOf(S, d)
        /\ \A h \in PartitionOf(S, d) : \E k \in 1..Len(o[d]) : o[d][k] = h
    BY <1>2, AnswerIsOrdered
  <1>4. /\ o[d][i].ts <= t
        /\ \A j \in 1..Len(o[d]) : o[d][j].ts <= t => o[d][j].ts <= o[d][i].ts
    BY <1>1, <1>3, CreditedSecond
  <1> QED
    BY <1>1, <1>3, <1>4

\* Every credited second is credited to one of T, when all the latest rows are of T.
LEMMA LatestIsCredited ==
  ASSUME NEW S, NEW o, NEW from, NEW to, NEW T, Window(S, from, to), o \in Partitions(S),
         NEW d, NEW t, <<d, t>> \in SecondsOf(S, o, to, S),
         \A h \in PartitionOf(S, d) :
            h.ts <= t /\ (\A g \in PartitionOf(S, d) : g.ts <= t => g.ts <= h.ts) => h \in T
  PROVE  <<d, t>> \in SecondsOf(S, o, to, T)
  <1>1. PICK i \in DOMAIN o[d] : d \in Devices(S) /\ t \in Credit(o[d], i, to) /\ o[d][i] \in S
    BY WhoseSecond
  <1>2. Answer(PartitionOf(S, d), o[d], from, to)
    BY <1>1, PartitionAnswer
  <1>3. /\ Ordered(o[d], from, to) /\ DOMAIN o[d] = 1..Len(o[d])
        /\ \A k \in 1..Len(o[d]) : o[d][k] \in PartitionOf(S, d)
        /\ \A h \in PartitionOf(S, d) : \E k \in 1..Len(o[d]) : o[d][k] = h
    BY <1>2, AnswerIsOrdered
  <1>4. /\ o[d][i].ts <= t
        /\ \A j \in 1..Len(o[d]) : o[d][j].ts <= t => o[d][j].ts <= o[d][i].ts
    BY <1>1, <1>3, CreditedSecond
  <1>5. o[d][i] \in T
    BY <1>1, <1>3, <1>4
  <1> QED
    BY <1>1, <1>5, WhoseSecond

-----------------------------------------------------------------------------
(* The windows of Reports.                                                  *)

\* The inductive invariant: sums and sizes mean something of finite tables only.
RowsOK == TypeOK /\ IsFiniteSet(rows)

\* What a query selects is a finite set of rows of its window.
LEMMA SelectedWindow ==
  ASSUME RowsOK, NEW D, NEW from \in Int, NEW to \in Int
  PROVE  Window(Selected(D, from, to), from, to)
  <1>1. \A h \in rows : h.ts \in Int
    BY ReportsAssumption DEF RowsOK, TypeOK, Row
  <1>2. Selected(D, from, to) \in SUBSET rows
    BY DEF Selected, Rng
  <1>3. IsFiniteSet(Selected(D, from, to))
    BY <1>2, FS_Subset DEF RowsOK
  <1> QED
    BY <1>1, <1>3 DEF Window, Selected, Rng

\* A device's partition of a selection is the selection of the device.
LEMMA PartOfSelected ==
  ASSUME NEW D, NEW d \in D, NEW from, NEW to
  PROVE  PartitionOf(Selected(D, from, to), d) = Selected({d}, from, to)
  BY DEF PartitionOf, Selected

\* Covered, said of the rows.
LEMMA CoveredIsWithin ==
  ASSUME NEW d, NEW from, NEW to
  PROVE  Covered(d, from, to) = Within(Selected({d}, from, to), from, to)
  BY DEF Covered, Within

\* The seconds of devices D that are covered.
CoveredOf(D, from, to) == {p \in D \X (from..to) : p[2] \in Covered(p[1], from, to)}

\* The seconds credited are the covered ones, in whatever order the rows come.
LEMMA SecondsAreCovered ==
  ASSUME RowsOK, NEW D, NEW from \in Int, NEW to \in Int,
         NEW o \in Partitions(Selected(D, from, to))
  PROVE  SecondsOf(Selected(D, from, to), o, to, Selected(D, from, to)) = CoveredOf(D, from, to)
  <1> DEFINE S == Selected(D, from, to)
  <1>1. Window(S, from, to)
    BY SelectedWindow
  <1>2. \A h \in S : h.device \in D
    BY DEF Selected
  <1>3. ASSUME NEW d \in D, NEW t
        PROVE  <<d, t>> \in SecondsOf(S, o, to, S) <=> t \in Covered(d, from, to)
    <2>1. PartitionOf(S, d) = Selected({d}, from, to)
      BY PartOfSelected
    <2>2. Covered(d, from, to) = Within(PartitionOf(S, d), from, to)
      BY <2>1, CoveredIsWithin
    <2> HIDE DEF S
    <2>3. <<d, t>> \in SecondsOf(S, o, to, S) <=> t \in Within(PartitionOf(S, d), from, to)
      BY <1>1, CreditedIsCovered DEF S
    <2> QED
      BY <2>2, <2>3
  <1>4. ASSUME NEW p \in SecondsOf(S, o, to, S) PROVE p \in CoveredOf(D, from, to)
    <2>1. PICK d, t : d \in Devices(S) /\ p = <<d, t>>
      BY WhoseSecond
    <2>2. d \in D
      BY <1>2, <2>1 DEF Devices
    <2>3. t \in Covered(d, from, to)
      BY <1>3, <1>4, <2>1, <2>2
    <2>4. t \in from..to
      BY <2>3 DEF Covered
    <2> QED
      BY <2>1, <2>2, <2>3, <2>4 DEF CoveredOf
  <1>5. ASSUME NEW p \in CoveredOf(D, from, to) PROVE p \in SecondsOf(S, o, to, S)
    <2>1. p = <<p[1], p[2]>> /\ p[1] \in D /\ p[2] \in Covered(p[1], from, to)
      BY <1>5 DEF CoveredOf
    <2> QED
      BY <1>3, <2>1
  <1> QED
    BY <1>4, <1>5

\* The time a window query gives a selection is the number of its covered seconds.
LEMMA TimeIsCoverage ==
  ASSUME RowsOK, NEW D, NEW from \in Int, NEW to \in Int,
         NEW o \in Partitions(Selected(D, from, to))
  PROVE  /\ IsFiniteSet(CoveredOf(D, from, to))
         /\ DwellSeconds(Selected(D, from, to), o, to, Selected(D, from, to))
              = Cardinality(CoveredOf(D, from, to))
  <1>1. Window(Selected(D, from, to), from, to)
    BY SelectedWindow
  <1> QED
    BY <1>1, DwellCountsSeconds, SecondsAreCovered

\* The covered seconds whose latest rows all have value a, and those where one has.
AllLatest(D, from, to, key, a) ==
    {p \in CoveredOf(D, from, to) : \A h \in LatestAt(p[1], from, to, p[2]) : h[key] = a}
SomeLatest(D, from, to, key, a) ==
    {p \in CoveredOf(D, from, to) : \E h \in LatestAt(p[1], from, to, p[2]) : h[key] = a}

\* Of one value of a column, it is between the seconds whose latest rows all have
\* the value and those that have one with it.
LEMMA UsageIsBetween ==
  ASSUME RowsOK, NEW D, NEW from \in Int, NEW to \in Int,
         NEW o \in Partitions(Selected(D, from, to)), NEW key, NEW a
  PROVE  LET S == Selected(D, from, to)
             secs == DwellSeconds(S, o, to, {h \in S : h[key] = a})
         IN /\ Cardinality(AllLatest(D, from, to, key, a)) <= secs
            /\ secs <= Cardinality(SomeLatest(D, from, to, key, a))
  <1> DEFINE S == Selected(D, from, to)
             T == {h \in S : h[key] = a}
             Mid == SecondsOf(S, o, to, T)
             Lo == AllLatest(D, from, to, key, a)
             Hi == SomeLatest(D, from, to, key, a)
  <1>1. Window(S, from, to)
    BY SelectedWindow
  <1>2. IsFiniteSet(CoveredOf(D, from, to)) /\ SecondsOf(S, o, to, S) = CoveredOf(D, from, to)
    BY TimeIsCoverage, SecondsAreCovered
  <1>3. \A d \in D : PartitionOf(S, d) = Selected({d}, from, to)
    BY PartOfSelected
  <1>4. IsFiniteSet(Mid) /\ DwellSeconds(S, o, to, T) = Cardinality(Mid)
    <2> HIDE DEF T
    <2> QED
      BY <1>1, DwellCountsSeconds
  <1>5. Lo \subseteq Mid
    <2> SUFFICES ASSUME NEW p \in Lo PROVE p \in Mid
      OBVIOUS
    <2>1. p = <<p[1], p[2]>> /\ p[1] \in D
      BY DEF AllLatest, CoveredOf
    <2>2. <<p[1], p[2]>> \in SecondsOf(S, o, to, S)
      BY <1>2, <2>1 DEF AllLatest
    <2>3. \A h \in PartitionOf(S, p[1]) :
            h.ts <= p[2] /\ (\A g \in PartitionOf(S, p[1]) : g.ts <= p[2] => g.ts <= h.ts)
              => h \in T
      <3> TAKE h \in PartitionOf(S, p[1])
      <3> HAVE h.ts <= p[2] /\ (\A g \in PartitionOf(S, p[1]) : g.ts <= p[2] => g.ts <= h.ts)
      <3>1. h \in LatestAt(p[1], from, to, p[2])
        BY <1>3, <2>1 DEF LatestAt
      <3>2. h \in S
        BY DEF PartitionOf
      <3> QED
        BY <3>1, <3>2 DEF AllLatest
    <2> HIDE DEF S, T
    <2> QED
      BY <1>1, <2>1, <2>2, <2>3, LatestIsCredited DEF S
  <1>6. Mid \subseteq Hi
    <2> SUFFICES ASSUME NEW p \in Mid PROVE p \in Hi
      OBVIOUS
    <2>1. PICK d, t :
            /\ d \in Devices(S) /\ p = <<d, t>>
            /\ \E i \in DOMAIN o[d] : t \in Credit(o[d], i, to) /\ o[d][i] \in S
      BY WhoseSecond
    <2>2. p \in CoveredOf(D, from, to) /\ d \in D
      <3>1. <<d, t>> \in SecondsOf(S, o, to, S)
        <4> HIDE DEF S
        <4> QED
          BY <2>1, WhoseSecond
      <3> QED
        BY <1>2, <2>1, <3>1 DEF CoveredOf
    <2>3. PICK h \in T : /\ h \in PartitionOf(S, d) /\ h.ts <= t
                         /\ \A g \in PartitionOf(S, d) : g.ts <= t => g.ts <= h.ts
      <3> HIDE DEF S, T
      <3> QED
        BY <1>1, <2>1, CreditedToLatest DEF S
    <2>4. h \in LatestAt(d, from, to, t)
      BY <1>3, <2>2, <2>3 DEF LatestAt
    <2> QED
      BY <2>1, <2>2, <2>3, <2>4 DEF SomeLatest
  <1>7. IsFiniteSet(Hi)
    <2>1. Hi \in SUBSET CoveredOf(D, from, to)
      BY DEF SomeLatest
    <2> HIDE DEF Hi
    <2> QED
      BY <1>2, <2>1, FS_Subset
  <1> HIDE DEF Lo, Mid, Hi, T, S
  <1>8. Cardinality(Lo) <= Cardinality(Mid) /\ Cardinality(Mid) <= Cardinality(Hi)
    BY <1>4, <1>5, <1>6, <1>7, FS_Subset
  <1> QED
    BY <1>4, <1>8 DEF Lo, Hi, T, S

\* The invariant DwellIsCoverage holds of any finite table of rows.
LEMMA DwellCovers == RowsOK => DwellIsCoverage
  <1> SUFFICES ASSUME RowsOK, NEW w \in Windows, NEW D \in Selections,
                      NEW o \in Partitions(Selected(D, w[1], w[2]))
               PROVE  LET S == Selected(D, w[1], w[2]) IN
            /\ DwellSeconds(S, o, w[2], S)
                 = Cardinality({p \in D \X (w[1]..w[2]) : p[2] \in Covered(p[1], w[1], w[2])})
            /\ \A key \in {"app", "category"} : \A a \in {h[key] : h \in S} :
                 LET secs == DwellUsage(S, o, w[2], key)[a]
                     Seconds(Quant(_, _)) ==
                       Cardinality({p \in D \X (w[1]..w[2]) :
                         /\ p[2] \in Covered(p[1], w[1], w[2])
                         /\ Quant(LatestAt(p[1], w[1], w[2], p[2]), a)})
                 IN /\ Seconds(LAMBDA L, x : \A h \in L : h[key] = x) <= secs
                    /\ secs <= Seconds(LAMBDA L, x : \E h \in L : h[key] = x)
    BY DEF DwellIsCoverage
  <1> DEFINE S == Selected(D, w[1], w[2])
  <1>1. w[1] \in Int /\ w[2] \in Int
    BY ReportsAssumption DEF Windows
  <1>2. DwellSeconds(S, o, w[2], S) = Cardinality(CoveredOf(D, w[1], w[2]))
    BY <1>1, TimeIsCoverage
  <1>3. ASSUME NEW key \in {"app", "category"}, NEW a \in {h[key] : h \in S}
        PROVE  /\ Cardinality({p \in D \X (w[1]..w[2]) :
                         /\ p[2] \in Covered(p[1], w[1], w[2])
                         /\ \A h \in LatestAt(p[1], w[1], w[2], p[2]) : h[key] = a})
                   <= DwellUsage(S, o, w[2], key)[a]
               /\ DwellUsage(S, o, w[2], key)[a]
                   <= Cardinality({p \in D \X (w[1]..w[2]) :
                         /\ p[2] \in Covered(p[1], w[1], w[2])
                         /\ \E h \in LatestAt(p[1], w[1], w[2], p[2]) : h[key] = a})
    <2>1. DwellUsage(S, o, w[2], key)[a] = DwellSeconds(S, o, w[2], {h \in S : h[key] = a})
      BY DEF DwellUsage
    <2>2. AllLatest(D, w[1], w[2], key, a)
          = {p \in D \X (w[1]..w[2]) : /\ p[2] \in Covered(p[1], w[1], w[2])
                         /\ \A h \in LatestAt(p[1], w[1], w[2], p[2]) : h[key] = a}
      BY DEF AllLatest, CoveredOf
    <2>3. SomeLatest(D, w[1], w[2], key, a)
          = {p \in D \X (w[1]..w[2]) : /\ p[2] \in Covered(p[1], w[1], w[2])
                         /\ \E h \in LatestAt(p[1], w[1], w[2], p[2]) : h[key] = a}
      BY DEF SomeLatest, CoveredOf
    <2>4. /\ Cardinality(AllLatest(D, w[1], w[2], key, a)) <= DwellUsage(S, o, w[2], key)[a]
          /\ DwellUsage(S, o, w[2], key)[a] <= Cardinality(SomeLatest(D, w[1], w[2], key, a))
      BY <1>1, <2>1, UsageIsBetween
    <2> QED
      BY <2>2, <2>3, <2>4
  <1> QED
    BY <1>2, <1>3 DEF CoveredOf

-----------------------------------------------------------------------------
(* What Total is, whatever order is chosen.                                 *)

\* The seconds of a window that are within the cap of a row, each with the row's
\* device.
CoverOf(S, from, to) ==
    {p \in Devices(S) \X (from..(to - 1)) :
        \E h \in S : h.device = p[1] /\ h.ts <= p[2] /\ p[2] < h.ts + MaxHeartbeatGap}

\* The orders that Total chooses.
SomePartition(S) ==
    [d \in {h.device : h \in S} |-> CHOOSE s \in Orders(PartitionOf(S, d)) : TRUE]

\* Total's chosen order is one the server may take.
LEMMA SomePartitionIs ==
  ASSUME NEW S, NEW from, NEW to, Window(S, from, to)
  PROVE  SomePartition(S) \in Partitions(S)
  <1>1. \A d \in {h.device : h \in S} : SomePartition(S)[d] \in Orders(PartitionOf(S, d))
    <2> TAKE d \in {h.device : h \in S}
    <2>1. PartitionOf(S, d) \in SUBSET S
      BY DEF PartitionOf
    <2>2. IsFiniteSet(PartitionOf(S, d)) /\ \A h \in PartitionOf(S, d) : h.ts \in Int
      BY <2>1, FS_Subset DEF Window
    <2>3. Orders(PartitionOf(S, d)) # {}
      BY <2>2, OrderExists
    <2> QED
      BY <2>3 DEF SomePartition
  <1>2. SomePartition(S) = [d \in {h.device : h \in S} |-> SomePartition(S)[d]]
    BY DEF SomePartition
  <1> QED
    BY <1>1, <1>2 DEF Partitions

\* The seconds credited are those of CoverOf, in whatever order.
LEMMA SecondsAreCover ==
  ASSUME NEW S, NEW o, NEW from, NEW to, Window(S, from, to), o \in Partitions(S)
  PROVE  SecondsOf(S, o, to, S) = CoverOf(S, from, to)
  <1>1. ASSUME NEW d, NEW t
        PROVE  <<d, t>> \in SecondsOf(S, o, to, S) <=> <<d, t>> \in CoverOf(S, from, to)
    <2>1. <<d, t>> \in SecondsOf(S, o, to, S) <=> t \in Within(PartitionOf(S, d), from, to)
      BY CreditedIsCovered
    <2>2. t \in Within(PartitionOf(S, d), from, to) <=> <<d, t>> \in CoverOf(S, from, to)
      BY DEF Within, PartitionOf, CoverOf, Devices
    <2> QED
      BY <2>1, <2>2
  <1>2. \A p \in SecondsOf(S, o, to, S) : \E d, t : p = <<d, t>>
    BY WhoseSecond
  <1>3. \A p \in CoverOf(S, from, to) : \E d, t : p = <<d, t>>
    BY DEF CoverOf
  <1> QED
    BY <1>1, <1>2, <1>3

\* A query's time is the size of its cover, in whatever order.
LEMMA DwellIsCover ==
  ASSUME NEW S, NEW o, NEW from, NEW to, Window(S, from, to), o \in Partitions(S)
  PROVE  /\ IsFiniteSet(CoverOf(S, from, to))
         /\ DwellSeconds(S, o, to, S) = Cardinality(CoverOf(S, from, to))
  BY DwellCountsSeconds, SecondsAreCover

\* So it is in the order that Total takes.
LEMMA TimeIsCover ==
  ASSUME NEW S, NEW from, NEW to, Window(S, from, to)
  PROVE  /\ IsFiniteSet(CoverOf(S, from, to)) /\ Cardinality(CoverOf(S, from, to)) \in Nat
         /\ DwellSeconds(S, SomePartition(S), to, S) = Cardinality(CoverOf(S, from, to))
  <1>1. /\ IsFiniteSet(CoverOf(S, from, to))
        /\ DwellSeconds(S, SomePartition(S), to, S) = Cardinality(CoverOf(S, from, to))
    BY SomePartitionIs, DwellIsCover
  <1> QED
    BY <1>1, FS_CardinalityType

\* Total is the query's time in that order.
LEMMA TotalIsTime ==
  ASSUME NEW D, NEW from, NEW to
  PROVE  Total(D, from, to)
           = DwellSeconds(Selected(D, from, to), SomePartition(Selected(D, from, to)), to,
                          Selected(D, from, to))
  BY DEF Total, SomePartition

\* More rows cover more.
LEMMA CoverGrows ==
  ASSUME NEW S, NEW R, NEW from, NEW to, IsFiniteSet(CoverOf(R, from, to)),
         \A h \in S : \E g \in R : g.device = h.device /\ g.ts = h.ts
  PROVE  Cardinality(CoverOf(S, from, to)) <= Cardinality(CoverOf(R, from, to))
  <1>1. CoverOf(S, from, to) \subseteq CoverOf(R, from, to)
    BY DEF CoverOf, Devices
  <1> QED
    BY <1>1, FS_Subset

\* A heartbeat that arrives leaves the table finite and every row in it.
LEMMA StoreRowsOK ==
  ASSUME RowsOK, InsertHeartbeats
  PROVE  IsFiniteSet(rows') /\ \A h \in rows : h \in rows'
  <1>1. PICK h : rows' = rows \cup {h}
    BY DEF InsertHeartbeats, Store
  <1>2. IsFiniteSet(rows \cup {h})
    BY FS_AddElement DEF RowsOK
  <1> QED
    BY <1>1, <1>2

\* Re-mapping leaves the table finite, and every row's device and time in it.
LEMMA RecategorizeRowsOK ==
  ASSUME RowsOK, Recategorize
  PROVE  IsFiniteSet(rows') /\ \A h \in rows : \E g \in rows' : g.device = h.device /\ g.ts = h.ts
  <1>1. PICK P \in Pattern, c \in Category :
          rows' = {IF h.app \in P THEN Remap(h, c) ELSE h : h \in rows}
    BY DEF Recategorize
  <1> DEFINE m == [h \in rows |-> IF h.app \in P THEN Remap(h, c) ELSE h]
  <1>2. m \in Surjection(rows, rows')
    BY <1>1 DEF Surjection
  <1>3. IsFiniteSet(rows')
    BY <1>2, FS_Surjection DEF RowsOK
  <1>4. \A h \in Row : Remap(h, c).device = h.device /\ Remap(h, c).ts = h.ts
    BY DEF Remap, Row
  <1>5. \A h \in rows : m[h] \in rows' /\ m[h].device = h.device /\ m[h].ts = h.ts
    BY <1>1, <1>4 DEF RowsOK, TypeOK
  <1> QED
    BY <1>3, <1>5

\* Deleting a device leaves the table finite.
LEMMA DeleteRowsOK == ASSUME RowsOK, DeleteDevice PROVE IsFiniteSet(rows')
  <1>1. rows' \in SUBSET rows
    BY DEF DeleteDevice
  <1> QED
    BY <1>1, FS_Subset DEF RowsOK

\* A step that keeps every row's device and time takes no time from a report.
LEMMA NothingTaken ==
  ASSUME RowsOK, RowsOK',
         \A h \in rows : \E g \in rows' : g.device = h.device /\ g.ts = h.ts,
         NEW D, NEW from \in Int, NEW to \in Int
  PROVE  Total(D, from, to) <= Total(D, from, to)'
  <1> DEFINE S == Selected(D, from, to)
             R == Selected(D, from, to)'
  <1>1. Window(S, from, to)
    BY SelectedWindow
  <1>2. Window(R, from, to)
    <2>1. \A h \in rows' : h.ts \in Int
      BY ReportsAssumption DEF RowsOK, TypeOK, Row
    <2>2. R \in SUBSET rows'
      BY DEF Selected, Rng
    <2>3. IsFiniteSet(R)
      BY <2>2, FS_Subset DEF RowsOK
    <2> QED
      BY <2>1, <2>3 DEF Window, Selected, Rng
  <1>3. \A h \in S : \E g \in R : g.device = h.device /\ g.ts = h.ts
    BY DEF Selected, Rng
  <1>4. Total(D, from, to) = DwellSeconds(S, SomePartition(S), to, S)
    BY TotalIsTime
  <1>5. Total(D, from, to)' = DwellSeconds(R, SomePartition(R), to, R)
    BY DEF Total, SomePartition
  <1> HIDE DEF S, R
  <1>6. /\ IsFiniteSet(CoverOf(R, from, to))
        /\ DwellSeconds(S, SomePartition(S), to, S) = Cardinality(CoverOf(S, from, to))
        /\ DwellSeconds(R, SomePartition(R), to, R) = Cardinality(CoverOf(R, from, to))
    BY <1>1, <1>2, TimeIsCover
  <1>7. Cardinality(CoverOf(S, from, to)) <= Cardinality(CoverOf(R, from, to))
    BY <1>3, <1>6, CoverGrows
  <1> QED
    BY <1>4, <1>5, <1>6, <1>7

\* No step makes the table infinite.
LEMMA RowsFiniteNext == RowsOK /\ [Next]_vars => IsFiniteSet(rows')
  <1> SUFFICES ASSUME RowsOK, [Next]_vars PROVE IsFiniteSet(rows')
    OBVIOUS
  <1>1. CASE UNCHANGED vars
    BY <1>1 DEF vars, RowsOK
  <1> QED
    BY <1>1, StoreRowsOK, RecategorizeRowsOK, DeleteRowsOK DEF Next

\* The table is finite.
LEMMA RowsAlwaysOK == Spec => []RowsOK
  <1> DEFINE Finite == IsFiniteSet(rows)
  <1>1. Init => Finite
    BY FS_EmptySet DEF Init
  <1>2. TypeOK /\ Finite /\ [Next]_vars => Finite'
    BY RowsFiniteNext DEF RowsOK
  <1>3. RowsOK <=> TypeOK /\ Finite
    BY DEF RowsOK
  <1> HIDE DEF Finite
  <1> QED
    BY <1>1, <1>2, <1>3, TypeCorrect, PTL DEF Spec

\* A device is credited with each second once, with the latest heartbeat before it
\* and for no longer than the cap, by whatever order SQL gives rows of one ts, in
\* total and by application or category (query.go:44-60).
THEOREM DwellIsCoverageAlways == Spec => []DwellIsCoverage
  BY RowsAlwaysOK, DwellCovers, PTL

\* A late heartbeat never takes time from a report and re-mapping history never
\* moves it: only deleting a device does (store.go:84-116, store.go:182-210,
\* rules.go:46-52).
THEOREM DeletionOnly == Spec => OnlyDeletionTakesTime
  <1> DEFINE Step == \/ \E d \in Device : rows' = {h \in rows : h.device # d}
                     \/ \A w \in Windows, d \in Device :
                           Total({d}, w[1], w[2]) <= Total({d}, w[1], w[2])'
  <1>1. RowsOK /\ RowsOK' /\ [Next]_vars => Step
    <2> SUFFICES ASSUME RowsOK, RowsOK', [Next]_vars,
                        ~ \E d \in Device : rows' = {h \in rows : h.device # d},
                        NEW w \in Windows, NEW d \in Device
                 PROVE  Total({d}, w[1], w[2]) <= Total({d}, w[1], w[2])'
      OBVIOUS
    <2>1. w[1] \in Int /\ w[2] \in Int
      BY ReportsAssumption DEF Windows
    <2>2. ~ DeleteDevice
      BY DEF DeleteDevice
    <2>3. \A h \in rows : \E g \in rows' : g.device = h.device /\ g.ts = h.ts
      <3>1. CASE UNCHANGED vars
        BY <3>1 DEF vars
      <3>2. CASE InsertHeartbeats
        BY <3>2, StoreRowsOK
      <3>3. CASE Recategorize
        BY <3>3, RecategorizeRowsOK
      <3> QED
        BY <2>2, <3>1, <3>2, <3>3 DEF Next
    <2> DEFINE from == w[1]
               to == w[2]
    <2>4. from \in Int /\ to \in Int
      BY <2>1
    <2> HIDE DEF from, to
    <2>5. Total({d}, from, to) <= Total({d}, from, to)'
      BY <2>3, <2>4, NothingTaken
    <2> QED
      BY <2>5 DEF from, to
  <1>2. RowsOK /\ RowsOK' /\ [Next]_vars => [Step]_vars
    BY <1>1
  <1> QED
    BY <1>2, RowsAlwaysOK, PTL DEF Spec, OnlyDeletionTakesTime

-----------------------------------------------------------------------------
(* Cutting a window.                                                        *)

\* The covers of the two halves are apart and within the cover of the window; what
\* they miss lies within the cap of the cut.
LEMMA CutBounds ==
  ASSUME NEW D, IsFiniteSet(D), NEW S, NEW A, NEW B,
         NEW from \in Int, NEW m \in Int, NEW to \in Int, from <= m, m <= to,
         \A h \in S : h.ts \in Int /\ h.device \in D,
         A = {h \in S : h.ts < m}, B = {h \in S : m <= h.ts},
         IsFiniteSet(CoverOf(S, from, to))
  PROVE  /\ CoverOf(A, from, m) \cup CoverOf(B, m, to) \subseteq CoverOf(S, from, to)
         /\ CoverOf(A, from, m) \cap CoverOf(B, m, to) = {}
         /\ CoverOf(S, from, to) \ (CoverOf(A, from, m) \cup CoverOf(B, m, to))
              \subseteq D \X (m..(m + MaxHeartbeatGap - 1))
  <1>1. A \subseteq S /\ B \subseteq S /\ S = A \cup B
    OBVIOUS
  <1>2. CoverOf(A, from, m) \subseteq CoverOf(S, from, to)
    BY <1>1 DEF CoverOf, Devices
  <1>3. CoverOf(B, m, to) \subseteq CoverOf(S, from, to)
    BY <1>1 DEF CoverOf, Devices
  <1>4. CoverOf(A, from, m) \cap CoverOf(B, m, to) = {}
    BY DEF CoverOf
  <1>5. ASSUME NEW p \in CoverOf(S, from, to), p \notin CoverOf(A, from, m),
               p \notin CoverOf(B, m, to)
        PROVE  p \in D \X (m..(m + MaxHeartbeatGap - 1))
    <2>1. PICK d \in Devices(S), t \in from..(to - 1) : p = <<d, t>>
      BY DEF CoverOf
    <2>2. PICK h \in S : h.device = d /\ h.ts <= t /\ t < h.ts + MaxHeartbeatGap
      BY <2>1 DEF CoverOf
    <2>3. t \in Int /\ h.ts \in Int /\ d \in D /\ MaxHeartbeatGap \in Nat
      BY <2>1, <2>2, DwellAssumption
    <2>4. h.ts < m
      <3>1. ASSUME m <= h.ts PROVE FALSE
        <4>1. h \in B /\ d \in Devices(B) /\ t \in m..(to - 1)
          BY <2>1, <2>2, <2>3, <3>1 DEF Devices
        <4>2. <<d, t>> \in CoverOf(B, m, to)
          BY <2>2, <4>1 DEF CoverOf
        <4> QED
          BY <1>5, <2>1, <4>2
      <3> QED
        BY <2>3, <3>1
    <2>5. m <= t
      <3>1. ASSUME t < m PROVE FALSE
        <4>1. h \in A /\ d \in Devices(A) /\ t \in from..(m - 1)
          BY <2>1, <2>2, <2>3, <2>4, <3>1 DEF Devices
        <4>2. <<d, t>> \in CoverOf(A, from, m)
          BY <2>2, <4>1 DEF CoverOf
        <4> QED
          BY <1>5, <2>1, <4>2
      <3> QED
        BY <2>3, <3>1
    <2>6. t \in m..(m + MaxHeartbeatGap - 1)
      BY <2>2, <2>3, <2>4, <2>5
    <2> QED
      BY <2>1, <2>3, <2>6
  <1> QED
    BY <1>2, <1>3, <1>4, <1>5

\* The same in numbers, of any sets.
LEMMA CutCounts ==
  ASSUME NEW C, NEW A, NEW B, NEW L, IsFiniteSet(C), IsFiniteSet(L),
         A \cup B \subseteq C, A \cap B = {}, C \ (A \cup B) \subseteq L
  PROVE  /\ 0 <= Cardinality(C) - Cardinality(A) - Cardinality(B)
         /\ Cardinality(C) - Cardinality(A) - Cardinality(B) <= Cardinality(L)
  <1> DEFINE U == A \cup B
             R == C \ U
  <1>1. IsFiniteSet(A) /\ IsFiniteSet(B)
    <2>1. A \in SUBSET C /\ B \in SUBSET C
      OBVIOUS
    <2> QED
      BY <2>1, FS_Subset
  <1>2. IsFiniteSet(U) /\ Cardinality(U) = Cardinality(A) + Cardinality(B)
    <2>1. /\ IsFiniteSet(U)
          /\ Cardinality(U) = Cardinality(A) + Cardinality(B) - Cardinality(A \cap B)
      BY <1>1, FS_Union
    <2>2. Cardinality(A \cap B) = 0 /\ Cardinality(A) \in Nat /\ Cardinality(B) \in Nat
      BY <1>1, FS_EmptySet, FS_CardinalityType
    <2> QED
      BY <2>1, <2>2
  <1>3. IsFiniteSet(R) /\ Cardinality(R) = Cardinality(C) - Cardinality(U)
    <2>1. C \cap U = U
      OBVIOUS
    <2> QED
      BY <2>1, FS_Difference
  <1>4. Cardinality(R) <= Cardinality(L)
    <2>1. R \in SUBSET L
      OBVIOUS
    <2> HIDE DEF R
    <2> QED
      BY <2>1, FS_Subset
  <1>5. /\ Cardinality(A) \in Nat /\ Cardinality(B) \in Nat
        /\ Cardinality(C) \in Nat /\ Cardinality(R) \in Nat
    BY <1>1, <1>3, FS_CardinalityType
  <1> HIDE DEF R, U
  <1> QED
    BY <1>2, <1>3, <1>4, <1>5

\* A cut at any second of any window loses between nothing and one cap a device.
LEMMA CutOne ==
  ASSUME RowsOK, NEW D, IsFiniteSet(D), NEW from \in Int, NEW m \in Int, NEW to \in Int,
         from <= m, m <= to
  PROVE  LET lost == Total(D, from, to) - Total(D, from, m) - Total(D, m, to)
         IN 0 <= lost /\ lost <= MaxHeartbeatGap * Cardinality(D)
  <1> DEFINE S == Selected(D, from, to)
             A == Selected(D, from, m)
             B == Selected(D, m, to)
             L == D \X (m..(m + MaxHeartbeatGap - 1))
  <1>1. Window(S, from, to) /\ Window(A, from, m) /\ Window(B, m, to)
    BY SelectedWindow
  <1>2. \A h \in S : h.ts \in Int /\ h.device \in D
    BY <1>1 DEF Window, Selected
  <1>3. A = {h \in S : h.ts < m} /\ B = {h \in S : m <= h.ts}
    <2>1. \A h \in rows : h.ts \in Int
      BY ReportsAssumption DEF RowsOK, TypeOK, Row
    <2> QED
      BY <2>1 DEF Selected, Rng
  <1>4. /\ Total(D, from, to) = DwellSeconds(S, SomePartition(S), to, S)
        /\ Total(D, from, m) = DwellSeconds(A, SomePartition(A), m, A)
        /\ Total(D, m, to) = DwellSeconds(B, SomePartition(B), to, B)
    BY TotalIsTime
  <1>5. IsFiniteSet(L) /\ Cardinality(L) = MaxHeartbeatGap * Cardinality(D)
    <2> DEFINE b == m + MaxHeartbeatGap - 1
    <2>1. b \in Int /\ MaxHeartbeatGap \in Nat
      BY DwellAssumption
    <2>2. IsFiniteSet(m..b) /\ Cardinality(m..b) = IF m > b THEN 0 ELSE b - m + 1
      <3> HIDE DEF b
      <3> QED
        BY <2>1, FS_Interval
    <2>3. Cardinality(m..b) = MaxHeartbeatGap
      BY <2>1, <2>2
    <2>4. /\ IsFiniteSet(D \X (m..b))
          /\ Cardinality(D \X (m..b)) = Cardinality(D) * Cardinality(m..b)
      BY <2>2, FS_Product
    <2>5. Cardinality(D) \in Nat
      BY FS_CardinalityType
    <2>6. Cardinality(D) * MaxHeartbeatGap = MaxHeartbeatGap * Cardinality(D)
      BY <2>1, <2>5
    <2> QED
      BY <2>3, <2>4, <2>6
  <1> HIDE DEF S, A, B, L
  <1>6. /\ IsFiniteSet(CoverOf(S, from, to))
        /\ Total(D, from, to) = Cardinality(CoverOf(S, from, to))
        /\ Total(D, from, m) = Cardinality(CoverOf(A, from, m))
        /\ Total(D, m, to) = Cardinality(CoverOf(B, m, to))
    BY <1>1, <1>4, TimeIsCover
  <1>7. /\ CoverOf(A, from, m) \cup CoverOf(B, m, to) \subseteq CoverOf(S, from, to)
        /\ CoverOf(A, from, m) \cap CoverOf(B, m, to) = {}
        /\ CoverOf(S, from, to) \ (CoverOf(A, from, m) \cup CoverOf(B, m, to)) \subseteq L
    BY <1>2, <1>3, <1>6, CutBounds DEF L
  <1>8. LET lost == Cardinality(CoverOf(S, from, to)) - Cardinality(CoverOf(A, from, m))
                      - Cardinality(CoverOf(B, m, to))
        IN 0 <= lost /\ lost <= Cardinality(L)
    BY <1>5, <1>6, <1>7, CutCounts
  <1> QED
    BY <1>5, <1>6, <1>8

\* A selection is one device or all of them, finitely many.
LEMMA SelectionsFinite == ASSUME NEW D \in Selections PROVE IsFiniteSet(D)
  BY FS_Singleton, ReportsAssumption DEF Selections

\* The invariant CutsLoseOneGap holds of any finite table of rows.
LEMMA CutsLose == RowsOK => CutsLoseOneGap
  <1> SUFFICES ASSUME RowsOK, NEW w \in Windows, NEW D \in Selections,
                      NEW m \in (w[1] + 1)..(w[2] - 1)
               PROVE  LET lost == Total(D, w[1], w[2]) - Total(D, w[1], m) - Total(D, m, w[2])
                      IN 0 <= lost /\ lost <= MaxHeartbeatGap * Cardinality(D)
    BY DEF CutsLoseOneGap
  <1> DEFINE from == w[1]
             to == w[2]
  <1>1. from \in Int /\ to \in Int /\ m \in Int /\ from <= m /\ m <= to
    BY ReportsAssumption DEF Windows
  <1> HIDE DEF from, to
  <1>2. LET lost == Total(D, from, to) - Total(D, from, m) - Total(D, m, to)
        IN 0 <= lost /\ lost <= MaxHeartbeatGap * Cardinality(D)
    BY <1>1, SelectionsFinite, CutOne
  <1> QED
    BY <1>2 DEF from, to

-----------------------------------------------------------------------------
(* The timeline.                                                            *)

\* The rows of hour's bucket, active or idle.
InBucket(e, hour, on) == {i \in DOMAIN e : HourKey(e[i].ts) = hour /\ e[i].active = on}

\* The hours that have a bucket.
HoursOf(e) == {HourKey(e[i].ts) : i \in DOMAIN e}

\* The sum of a bucket, as a SumOver.
LEMMA GapSum ==
  ASSUME NEW e, NEW to, NEW I
  PROVE  MapThenSumSet(LAMBDA i : Gap(e, i, to), I) = SumOver([i \in I |-> Gap(e, i, to)], I)
  BY ZenonT(30) DEF SumOver, MapThenSumSet, MapThenFoldSet

\* The sum of the active curve, as a SumOver.
LEMMA ActiveSum ==
  ASSUME NEW b, NEW H
  PROVE  MapThenSumSet(LAMBDA hour : b[hour].active, H)
           = SumOver([hour \in H |-> b[hour].active], H)
  BY ZenonT(30) DEF SumOver, MapThenSumSet, MapThenFoldSet

\* The sum of the idle curve, as a SumOver.
LEMMA IdleSum ==
  ASSUME NEW b, NEW H
  PROVE  MapThenSumSet(LAMBDA hour : b[hour].idle, H)
           = SumOver([hour \in H |-> b[hour].idle], H)
  BY ZenonT(30) DEF SumOver, MapThenSumSet, MapThenFoldSet

\* One hour's bucket adds up the gaps of its rows.
LEMMA BucketIsSum ==
  ASSUME NEW e, NEW to, NEW hour, NEW on
  PROVE  Bucket(e, to, hour, on)
           = SumOver([i \in InBucket(e, hour, on) |-> Gap(e, i, to)], InBucket(e, hour, on))
  <1>1. Bucket(e, to, hour, on) = MapThenSumSet(LAMBDA i : Gap(e, i, to), InBucket(e, hour, on))
    BY DEF Bucket, InBucket
  <1> QED
    BY <1>1, GapSum

\* Each curve adds up the buckets of the hours that have one.
LEMMA TimelineIsSum ==
  ASSUME NEW e, NEW to
  PROVE  /\ TimelineTotal(e, to).active
              = SumOver([hour \in HoursOf(e) |-> Bucket(e, to, hour, TRUE)], HoursOf(e))
         /\ TimelineTotal(e, to).idle
              = SumOver([hour \in HoursOf(e) |-> Bucket(e, to, hour, FALSE)], HoursOf(e))
  <1> DEFINE b == BucketByHour(e, to)
  <1>1. /\ DOMAIN b = HoursOf(e)
        /\ \A hour \in HoursOf(e) : /\ b[hour].active = Bucket(e, to, hour, TRUE)
                                    /\ b[hour].idle = Bucket(e, to, hour, FALSE)
    BY DEF BucketByHour, HoursOf
  <1>2. /\ TimelineTotal(e, to).active = MapThenSumSet(LAMBDA hour : b[hour].active, DOMAIN b)
        /\ TimelineTotal(e, to).idle = MapThenSumSet(LAMBDA hour : b[hour].idle, DOMAIN b)
    BY DEF TimelineTotal
  <1> HIDE DEF b
  <1>3. /\ MapThenSumSet(LAMBDA hour : b[hour].active, DOMAIN b)
             = SumOver([hour \in DOMAIN b |-> b[hour].active], DOMAIN b)
        /\ MapThenSumSet(LAMBDA hour : b[hour].idle, DOMAIN b)
             = SumOver([hour \in DOMAIN b |-> b[hour].idle], DOMAIN b)
    BY ActiveSum, IdleSum
  <1>4. /\ [hour \in DOMAIN b |-> b[hour].active]
             = [hour \in HoursOf(e) |-> Bucket(e, to, hour, TRUE)]
        /\ [hour \in DOMAIN b |-> b[hour].idle]
             = [hour \in HoursOf(e) |-> Bucket(e, to, hour, FALSE)]
    BY <1>1
  <1> QED
    BY <1>1, <1>2, <1>3, <1>4

\* The positions of a list are finitely many.
LEMMA PositionsFinite ==
  ASSUME NEW e, NEW from, NEW to, Ordered(e, from, to), DOMAIN e = 1..Len(e),
         NEW I \in SUBSET DOMAIN e
  PROVE  IsFiniteSet(I)
  <1>1. IsFiniteSet(1..Len(e))
    BY FS_Interval DEF Ordered
  <1> QED
    BY <1>1, FS_Subset

\* The gaps of some rows of the list add up to the seconds credited to them.
LEMMA GapsAreCredits ==
  ASSUME NEW e, NEW from, NEW to, Ordered(e, from, to), DOMAIN e = 1..Len(e),
         NEW I \in SUBSET DOMAIN e
  PROVE  /\ IsFiniteSet(Credits(e, I, to))
         /\ SumOver([i \in I |-> Gap(e, i, to)], I) = Cardinality(Credits(e, I, to))
  <1> DEFINE f == [i \in I |-> Gap(e, i, to)]
             C == [i \in I |-> Credit(e, i, to)]
  <1>1. IsFiniteSet(I)
    BY PositionsFinite
  <1>2. \A i \in I : IsFiniteSet(C[i]) /\ f[i] = Cardinality(C[i])
    BY CreditSize, TimelineCountsAlike
  <1>3. \A i, j \in I : i # j => C[i] \cap C[j] = {}
    BY CreditsApart
  <1>4. Credits(e, I, to) = UnionOf(C, I)
    BY DEF Credits, UnionOf
  <1> HIDE DEF f, C
  <1>5. IsFiniteSet(UnionOf(C, I)) /\ SumOver(f, I) = Cardinality(UnionOf(C, I))
    BY <1>1, <1>2, <1>3, SumOfSizes
  <1>6. IsFiniteSet(Credits(e, I, to)) /\ SumOver(f, I) = Cardinality(Credits(e, I, to))
    BY <1>4, <1>5
  <1> QED
    BY <1>6 DEF f

\* Rows at different positions are credited with different seconds.
LEMMA CreditsDisjoint ==
  ASSUME NEW e, NEW from, NEW to, Ordered(e, from, to), DOMAIN e = 1..Len(e),
         NEW I \in SUBSET DOMAIN e, NEW J \in SUBSET DOMAIN e, I \cap J = {}
  PROVE  Credits(e, I, to) \cap Credits(e, J, to) = {}
  <1> SUFFICES ASSUME NEW i \in I, NEW j \in J, NEW t \in Credit(e, i, to), t \in Credit(e, j, to)
               PROVE  FALSE
    BY DEF Credits
  <1> QED
    BY CreditsApart

\* The positions of the active rows, and of the idle ones.
Where(e, on) == {i \in DOMAIN e : e[i].active = on}

\* The hours' buckets together are the seconds credited to the active rows, or to
\* the idle ones.
LEMMA BucketsAreCredits ==
  ASSUME NEW e, NEW from, NEW to, Ordered(e, from, to), DOMAIN e = 1..Len(e), NEW on
  PROVE  /\ IsFiniteSet(Credits(e, Where(e, on), to))
         /\ SumOver([hour \in HoursOf(e) |-> Bucket(e, to, hour, on)], HoursOf(e))
              = Cardinality(Credits(e, Where(e, on), to))
  <1> DEFINE f == [hour \in HoursOf(e) |-> Bucket(e, to, hour, on)]
             C == [hour \in HoursOf(e) |-> Credits(e, InBucket(e, hour, on), to)]
  <1>1. IsFiniteSet(HoursOf(e))
    <2> DEFINE g == [i \in DOMAIN e |-> HourKey(e[i].ts)]
    <2>1. g \in Surjection(DOMAIN e, HoursOf(e))
      BY DEF Surjection, HoursOf
    <2>2. IsFiniteSet(DOMAIN e)
      BY PositionsFinite
    <2> QED
      BY <2>1, <2>2, FS_Surjection
  <1>2. \A hour : InBucket(e, hour, on) \in SUBSET DOMAIN e
    BY DEF InBucket
  <1>3. \A hour \in HoursOf(e) : IsFiniteSet(C[hour]) /\ f[hour] = Cardinality(C[hour])
    <2> TAKE hour \in HoursOf(e)
    <2> DEFINE I == InBucket(e, hour, on)
    <2>1. f[hour] = SumOver([i \in I |-> Gap(e, i, to)], I) /\ C[hour] = Credits(e, I, to)
      BY BucketIsSum
    <2>2. I \in SUBSET DOMAIN e
      BY <1>2
    <2> HIDE DEF f, C, I
    <2> QED
      BY <2>1, <2>2, GapsAreCredits
  <1>4. \A k, l \in HoursOf(e) : k # l => C[k] \cap C[l] = {}
    <2> SUFFICES ASSUME NEW k \in HoursOf(e), NEW l \in HoursOf(e), k # l
                 PROVE  Credits(e, InBucket(e, k, on), to)
                          \cap Credits(e, InBucket(e, l, on), to) = {}
      OBVIOUS
    <2>1. InBucket(e, k, on) \cap InBucket(e, l, on) = {}
      BY DEF InBucket
    <2> QED
      BY <1>2, <2>1, CreditsDisjoint
  <1>5. Credits(e, Where(e, on), to) = UnionOf(C, HoursOf(e))
    <2>1. \A i : i \in Where(e, on) <=> \E hour \in HoursOf(e) : i \in InBucket(e, hour, on)
      BY DEF Where, InBucket, HoursOf
    <2>2. \A t : t \in Credits(e, Where(e, on), to) <=>
                   \E hour \in HoursOf(e) : t \in Credits(e, InBucket(e, hour, on), to)
      BY <2>1 DEF Credits
    <2>3. \A t : t \in UnionOf(C, HoursOf(e)) <=> \E hour \in HoursOf(e) : t \in C[hour]
      <3> HIDE DEF C
      <3> QED
        BY DEF UnionOf
    <2> QED
      BY <2>2, <2>3
  <1> HIDE DEF f, C
  <1>6. /\ IsFiniteSet(UnionOf(C, HoursOf(e)))
        /\ SumOver(f, HoursOf(e)) = Cardinality(UnionOf(C, HoursOf(e)))
    BY <1>1, <1>3, <1>4, SumOfSizes
  <1>7. /\ IsFiniteSet(Credits(e, Where(e, on), to))
        /\ SumOver(f, HoursOf(e)) = Cardinality(Credits(e, Where(e, on), to))
    BY <1>5, <1>6
  <1> QED
    BY <1>7 DEF f

\* Both curves together are the seconds credited to any row.
LEMMA TimelineIsCredits ==
  ASSUME NEW e, NEW from, NEW to, Ordered(e, from, to), DOMAIN e = 1..Len(e),
         \A i \in DOMAIN e : e[i].active \in BOOLEAN
  PROVE  /\ TimelineTotal(e, to).active = Cardinality(Credits(e, Where(e, TRUE), to))
         /\ TimelineTotal(e, to).idle = Cardinality(Credits(e, Where(e, FALSE), to))
         /\ IsFiniteSet(Credits(e, DOMAIN e, to))
         /\ TimelineTotal(e, to).active + TimelineTotal(e, to).idle
              = Cardinality(Credits(e, DOMAIN e, to))
  <1> DEFINE A == Credits(e, Where(e, TRUE), to)
             B == Credits(e, Where(e, FALSE), to)
  <1>1. IsFiniteSet(A) /\ TimelineTotal(e, to).active = Cardinality(A)
    <2>1. /\ IsFiniteSet(A)
          /\ SumOver([hour \in HoursOf(e) |-> Bucket(e, to, hour, TRUE)], HoursOf(e))
               = Cardinality(A)
      BY BucketsAreCredits
    <2> QED
      BY <2>1, TimelineIsSum
  <1>2. IsFiniteSet(B) /\ TimelineTotal(e, to).idle = Cardinality(B)
    <2>1. /\ IsFiniteSet(B)
          /\ SumOver([hour \in HoursOf(e) |-> Bucket(e, to, hour, FALSE)], HoursOf(e))
               = Cardinality(B)
      BY BucketsAreCredits
    <2> QED
      BY <2>1, TimelineIsSum
  <1>3. /\ Where(e, TRUE) \in SUBSET DOMAIN e /\ Where(e, FALSE) \in SUBSET DOMAIN e
        /\ Where(e, TRUE) \cap Where(e, FALSE) = {}
        /\ DOMAIN e = Where(e, TRUE) \cup Where(e, FALSE)
    BY DEF Where
  <1>4. A \cap B = {}
    BY <1>3, CreditsDisjoint
  <1>5. Credits(e, DOMAIN e, to) = A \cup B
    BY <1>3 DEF Credits
  <1> HIDE DEF A, B
  <1>6. IsFiniteSet(A \cup B) /\ Cardinality(A \cup B) = Cardinality(A) + Cardinality(B)
    <2>1. /\ IsFiniteSet(A \cup B)
          /\ Cardinality(A \cup B) = Cardinality(A) + Cardinality(B) - Cardinality(A \cap B)
      BY <1>1, <1>2, FS_Union
    <2>2. Cardinality(A \cap B) = 0 /\ Cardinality(A) \in Nat /\ Cardinality(B) \in Nat
      BY <1>1, <1>2, <1>4, FS_EmptySet, FS_CardinalityType
    <2> QED
      BY <2>1, <2>2
  <1> QED
    BY <1>1, <1>2, <1>5, <1>6 DEF A, B

\* The list the page gets is ordered, holds rows of the window, and holds all of
\* them when none was cut off.
LEMMA EventsAre ==
  ASSUME NEW S, NEW from, NEW to, Window(S, from, to), NEW e \in ListEvents(S)
  PROVE  /\ Ordered(e, from, to) /\ DOMAIN e = 1..Len(e)
         /\ \A i \in 1..Len(e) : e[i] \in S
         /\ Len(e) = Cardinality(S) => e \in Orders(S)
  <1>1. PICK s \in Orders(S) : e = SubSeq(s, 1, Least(Len(s), Limit))
    BY DEF ListEvents
  <1>2. Answer(S, s, from, to)
    BY DEF Window, Answer
  <1>3. /\ Ordered(s, from, to) /\ DOMAIN s = 1..Len(s) /\ Len(s) \in Nat
        /\ \A i \in 1..Len(s) : s[i] \in S
    BY <1>2, AnswerIsOrdered
  <1>4. s \in Seq(S) /\ Len(s) = Cardinality(S)
    BY OrderOf DEF Window
  <1> DEFINE k == Least(Len(s), Limit)
  <1>5. k \in Nat /\ k <= Len(s)
    BY <1>3, DwellAssumption DEF Least
  <1> HIDE DEF k
  <1>6. e \in Seq(S) /\ Len(e) = k /\ \A i \in 1..k : e[i] = s[i]
    <2>1. \A i \in 1..k : s[i] \in S
      BY <1>3, <1>5
    <2>2. e = SubSeq(s, 1, k)
      BY <1>1 DEF k
    <2>3. /\ SubSeq(s, 1, k) \in Seq(S)
          /\ Len(SubSeq(s, 1, k)) = IF 1 <= k THEN k - 1 + 1 ELSE 0
          /\ \A i \in 1..(k - 1 + 1) : SubSeq(s, 1, k)[i] = s[1 + i - 1]
      BY <1>5, <2>1, SubSeqProperties
    <2>4. \A i \in 1..k : SubSeq(s, 1, k)[i] = s[i]
      <3> TAKE i \in 1..k
      <3>1. i \in 1..(k - 1 + 1) /\ 1 + i - 1 = i
        BY <1>5
      <3> QED
        BY <2>3, <3>1
    <2> QED
      BY <1>5, <2>2, <2>3, <2>4
  <1>7. DOMAIN e = 1..Len(e)
    BY <1>6, LenProperties
  <1>8. Ordered(e, from, to)
    BY <1>3, <1>5, <1>6 DEF Ordered
  <1>9. \A i \in 1..Len(e) : e[i] \in S
    BY <1>3, <1>5, <1>6
  <1>10. Len(e) = Cardinality(S) => e = s
    BY <1>4, <1>6, SeqEqual
  <1> QED
    BY <1>7, <1>8, <1>9, <1>10

\* The list credits no second that is not covered by a row.
LEMMA ShownIsCovered ==
  ASSUME NEW S, NEW from, NEW to, NEW e, Ordered(e, from, to), DOMAIN e = 1..Len(e),
         \A i \in 1..Len(e) : e[i] \in S, IsFiniteSet(CoverOf(S, from, to))
  PROVE  Cardinality(Credits(e, DOMAIN e, to)) <= Cardinality(CoverOf(S, from, to))
  <1> DEFINE C == CoverOf(S, from, to)
             I == {p[2] : p \in C}
             f == [p \in C |-> p[2]]
  <1>1. IsFiniteSet(I) /\ Cardinality(I) <= Cardinality(C)
    <2>1. f \in Surjection(C, I)
      BY DEF Surjection
    <2> HIDE DEF f, C, I
    <2> QED
      BY <2>1, FS_Surjection DEF C
  <1>2. Credits(e, DOMAIN e, to) \in SUBSET I
    <2> SUFFICES ASSUME NEW i \in 1..Len(e), NEW t \in Credit(e, i, to) PROVE t \in I
      BY DEF Credits
    <2>1. t \in from..(to - 1) /\ e[i].ts <= t /\ t < e[i].ts + MaxHeartbeatGap
      BY CreditedSecond
    <2>2. <<e[i].device, t>> \in C
      BY <2>1 DEF CoverOf, Devices
    <2> QED
      BY <2>2
  <1>3. Cardinality(Credits(e, DOMAIN e, to)) <= Cardinality(I)
    <2> HIDE DEF I
    <2> QED
      BY <1>1, <1>2, FS_Subset
  <1>4. /\ Cardinality(Credits(e, DOMAIN e, to)) \in Nat
        /\ Cardinality(I) \in Nat /\ Cardinality(C) \in Nat
    <2> HIDE DEF I, C
    <2>1. IsFiniteSet(Credits(e, DOMAIN e, to))
      BY <1>1, <1>2, FS_Subset
    <2> QED
      BY <1>1, <2>1, FS_CardinalityType DEF C
  <1> QED
    BY <1>1, <1>3, <1>4

\* The positions of the rows T in the list.
Holding(e, T) == {i \in DOMAIN e : e[i] \in T}

\* A query of one device adds up one order.
\* The partitions of one device, ordered by e.
Alone(d, e) == [x \in {d} |-> e]

\* A query of one device adds up one order.
LEMMA OneDevice ==
  ASSUME NEW S, NEW d, Devices(S) = {d}, NEW from, NEW to, NEW e, Ordered(e, from, to),
         DOMAIN e = 1..Len(e), NEW T
  PROVE  DwellSeconds(S, Alone(d, e), to, T)
           = Cardinality(Credits(e, Holding(e, T), to))
  <1> DEFINE o == [x \in {d} |-> e]
             f == [x \in Devices(S) |-> SumSecs(o[x], to, T)]
             I == {i \in DOMAIN e : e[i] \in T}
  <1>1. DwellSeconds(S, o, to, T) = SumOver(f, Devices(S))
    BY DwellIsSum
  <1>2. f[d] = SumSecs(e, to, T)
    OBVIOUS
  <1>3. IsFiniteSet(Credits(e, I, to)) /\ SumSecs(e, to, T) = Cardinality(Credits(e, I, to))
    BY SumIsCredits
  <1> HIDE DEF f, o, I
  <1>4. SumOver(f, {d}) = f[d] + SumOver(f, {})
    <2>1. OneOf({d}) = d /\ {d} \ {d} = {} /\ {d} # {}
      BY DEF OneOf
    <2>2. IsFiniteSet({d})
      BY FS_Singleton
    <2> QED
      BY <2>1, <2>2, SumStep
  <1>5. Cardinality(Credits(e, I, to)) \in Nat
    BY <1>3, FS_CardinalityType
  <1>6. SumOver(f, {d}) = Cardinality(Credits(e, I, to))
    BY <1>2, <1>3, <1>4, <1>5, SumEmpty
  <1> QED
    BY <1>1, <1>6 DEF o, I, Holding, Alone

\* An order of one device's rows is a choice of the server's.
LEMMA OnePartition ==
  ASSUME NEW S, NEW d, Devices(S) = {d}, NEW e \in Orders(S)
  PROVE  Alone(d, e) \in Partitions(S)
  <1>1. PartitionOf(S, d) = S
    BY DEF PartitionOf, Devices
  <1> QED
    BY <1>1 DEF Partitions, Devices, Alone

\* TimelineAgrees, for one window, selection and list.
LEMMA TimelineOne ==
  ASSUME RowsOK, NEW D, NEW from \in Int, NEW to \in Int,
         NEW e \in ListEvents(Selected(D, from, to))
  PROVE  LET S == Selected(D, from, to)
             shown == TimelineTotal(e, to)
             total == Total(D, from, to)
         IN /\ shown.active + shown.idle <= total
            /\ \A d : D = {d} /\ Len(e) = Cardinality(S) =>
                  /\ shown.active + shown.idle = total
                  /\ S # {} => LET ratio == ActiveRatio(S, [x \in {d} |-> e], to)
                               IN ratio.active = shown.active /\ ratio.idle = shown.idle
  <1> DEFINE S == Selected(D, from, to)
             shown == TimelineTotal(e, to)
             total == Total(D, from, to)
             C == Credits(e, DOMAIN e, to)
  <1>1. Window(S, from, to)
    BY SelectedWindow
  <1>2. \A h \in S : h.active \in BOOLEAN /\ h.device \in D
    BY DEF Selected, Rng, RowsOK, TypeOK, Row
  <1>3. total = DwellSeconds(S, SomePartition(S), to, S)
    BY TotalIsTime
  <1> HIDE DEF S, total
  <1>4. /\ Ordered(e, from, to) /\ DOMAIN e = 1..Len(e)
        /\ \A i \in 1..Len(e) : e[i] \in S
        /\ Len(e) = Cardinality(S) => e \in Orders(S)
    BY <1>1, EventsAre DEF S
  <1>5. IsFiniteSet(CoverOf(S, from, to)) /\ total = Cardinality(CoverOf(S, from, to))
    BY <1>1, <1>3, TimeIsCover
  <1>6. /\ shown.active = Cardinality(Credits(e, Where(e, TRUE), to))
        /\ shown.idle = Cardinality(Credits(e, Where(e, FALSE), to))
        /\ IsFiniteSet(C) /\ shown.active + shown.idle = Cardinality(C)
    <2>1. \A i \in DOMAIN e : e[i].active \in BOOLEAN
      BY <1>2, <1>4
    <2> QED
      BY <1>4, <2>1, TimelineIsCredits
  <1>7. shown.active + shown.idle <= total
    BY <1>4, <1>5, <1>6, ShownIsCovered
  <1>8. ASSUME NEW d, D = {d}, Len(e) = Cardinality(S)
        PROVE  /\ shown.active + shown.idle = total
               /\ S # {} => LET ratio == ActiveRatio(S, [x \in {d} |-> e], to)
                            IN ratio.active = shown.active /\ ratio.idle = shown.idle
    <2>1. CASE S = {}
      <3>1. CoverOf(S, from, to) = {}
        BY <2>1 DEF CoverOf
      <3>2. total = 0
        BY <1>5, <3>1, FS_EmptySet
      <3>3. C = {}
        BY <1>4, <2>1 DEF Credits
      <3>4. shown.active + shown.idle = 0
        BY <1>6, <3>3, FS_EmptySet
      <3> QED
        BY <2>1, <3>2, <3>4
    <2>2. CASE S # {}
      <3> DEFINE o == Alone(d, e)
      <3>1. Devices(S) = {d}
        BY <1>2, <1>8, <2>2 DEF Devices
      <3>2. o \in Partitions(S)
        BY <1>4, <1>8, <3>1, OnePartition
      <3>3. \A T : DwellSeconds(S, o, to, T)
                     = Cardinality(Credits(e, Holding(e, T), to))
        BY <1>4, <3>1, OneDevice
      <3> HIDE DEF o
      <3>4. DwellSeconds(S, o, to, S) = total
        BY <1>1, <1>5, <3>2, DwellIsCover
      <3>5. Holding(e, S) = DOMAIN e
        BY <1>4 DEF Holding
      <3>6. shown.active + shown.idle = total
        BY <1>6, <3>3, <3>4, <3>5
      <3>7. Holding(e, {h \in S : h.active}) = Where(e, TRUE)
        BY <1>2, <1>4 DEF Where, Holding
      <3>8. Holding(e, {h \in S : ~h.active}) = Where(e, FALSE)
        BY <1>2, <1>4 DEF Where, Holding
      <3>9. /\ DwellSeconds(S, o, to, {h \in S : h.active}) = shown.active
            /\ DwellSeconds(S, o, to, {h \in S : ~h.active}) = shown.idle
        BY <1>6, <3>3, <3>7, <3>8
      <3>10. /\ ActiveRatio(S, o, to).active = shown.active
             /\ ActiveRatio(S, o, to).idle = shown.idle
        BY <3>9 DEF ActiveRatio
      <3> QED
        BY <3>6, <3>10 DEF o, Alone
    <2> QED
      BY <2>1, <2>2
  <1> QED
    BY <1>7, <1>8 DEF S, total

\* The invariant TimelineAgrees holds of any finite table of rows.
LEMMA TimelineFits == RowsOK => TimelineAgrees
  <1> SUFFICES ASSUME RowsOK, NEW w \in Windows, NEW D \in Selections,
                      NEW e \in ListEvents(Selected(D, w[1], w[2]))
               PROVE  LET S == Selected(D, w[1], w[2])
                          shown == TimelineTotal(e, w[2])
                          total == Total(D, w[1], w[2])
                      IN /\ shown.active + shown.idle <= total
                         /\ Cardinality(D) = 1 /\ Len(e) = Cardinality(S) =>
                              /\ shown.active + shown.idle = total
                              /\ \A d \in D : S # {} =>
                                   LET ratio == ActiveRatio(S, [x \in {d} |-> e], w[2])
                                   IN ratio.active = shown.active /\ ratio.idle = shown.idle
    BY DEF TimelineAgrees
  <1> DEFINE S == Selected(D, w[1], w[2])
             shown == TimelineTotal(e, w[2])
             total == Total(D, w[1], w[2])
             Ratio(d) == ActiveRatio(S, [x \in {d} |-> e], w[2])
  <1>1. w[1] \in Int /\ w[2] \in Int
    BY ReportsAssumption DEF Windows
  <1>2. /\ shown.active + shown.idle <= total
        /\ \A d : D = {d} /\ Len(e) = Cardinality(S) =>
              /\ shown.active + shown.idle = total
              /\ S # {} => Ratio(d).active = shown.active /\ Ratio(d).idle = shown.idle
    BY <1>1, TimelineOne
  <1>3. Cardinality(D) = 1 => \E d : D = {d}
    BY SelectionsFinite, FS_Singleton
  <1> HIDE DEF S, shown, total, Ratio
  <1>4. Cardinality(D) = 1 /\ Len(e) = Cardinality(S) =>
          /\ shown.active + shown.idle = total
          /\ \A d \in D : S # {} => Ratio(d).active = shown.active /\ Ratio(d).idle = shown.idle
    BY <1>2, <1>3
  <1> QED
    BY <1>2, <1>4 DEF S, shown, total, Ratio

\* The timeline never shows more than the report's total, and exactly the report's
\* active and idle seconds when one device's events all fit (app.js:563-590,
\* query.go:44-60, query.go:128-160).
THEOREM TimelineAgreesAlways == Spec => []TimelineAgrees
  BY RowsAlwaysOK, TimelineFits, PTL

\* Cutting a window in two counts no second twice and loses at most one cap for each
\* device (query.go:44-60).
THEOREM CutsAlways == Spec => []CutsLoseOneGap
  BY RowsAlwaysOK, CutsLose, PTL

-----------------------------------------------------------------------------
(* The charts together.                                                     *)

\* No second is credited to two rows of a query, of one device or of two.
LEMMA SecondsApart ==
  ASSUME NEW S, NEW o, NEW from, NEW to, NEW T, NEW U, Window(S, from, to), o \in Partitions(S),
         T \cap U = {}
  PROVE  SecondsOf(S, o, to, T) \cap SecondsOf(S, o, to, U) = {}
  <1> SUFFICES ASSUME NEW p \in SecondsOf(S, o, to, T), p \in SecondsOf(S, o, to, U) PROVE FALSE
    OBVIOUS
  <1>1. PICK d, i, t : /\ d \in Devices(S) /\ i \in DOMAIN o[d] /\ t \in Credit(o[d], i, to)
                       /\ o[d][i] \in T /\ p = <<d, t>>
    BY WhoseSecond
  <1>2. PICK e, j, u : /\ e \in Devices(S) /\ j \in DOMAIN o[e] /\ u \in Credit(o[e], j, to)
                       /\ o[e][j] \in U /\ p = <<e, u>>
    BY WhoseSecond
  <1>3. d = e /\ t = u
    BY <1>1, <1>2
  <1>4. Answer(PartitionOf(S, d), o[d], from, to)
    BY <1>1, PartitionAnswer
  <1>5. Ordered(o[d], from, to) /\ DOMAIN o[d] = 1..Len(o[d])
    BY <1>4, AnswerIsOrdered
  <1>6. i = j
    BY <1>1, <1>2, <1>3, <1>5, CreditsApart
  <1> QED
    BY <1>1, <1>2, <1>3, <1>6

\* The values of a column.
Values(S, key) == {h[key] : h \in S}

\* The seconds of a query by the values of a column add up to what is covered.
LEMMA UsageAddsUp ==
  ASSUME NEW S, NEW o, NEW from, NEW to, NEW key, Window(S, from, to), o \in Partitions(S)
  PROVE  SumOver(DwellUsage(S, o, to, key), Values(S, key)) = Cardinality(CoverOf(S, from, to))
  <1> DEFINE Of(k) == {h \in S : h[key] = k}
             f == DwellUsage(S, o, to, key)
             C == [k \in Values(S, key) |-> SecondsOf(S, o, to, Of(k))]
  <1>1. IsFiniteSet(Values(S, key))
    <2> DEFINE v == [h \in S |-> h[key]]
    <2>1. v \in Surjection(S, Values(S, key))
      BY DEF Surjection, Values
    <2> QED
      BY <2>1, FS_Surjection DEF Window
  <1>2. \A k \in Values(S, key) : IsFiniteSet(C[k]) /\ f[k] = Cardinality(C[k])
    <2> TAKE k \in Values(S, key)
    <2>1. f[k] = DwellSeconds(S, o, to, Of(k))
      BY DEF DwellUsage, Values
    <2>2. C[k] = SecondsOf(S, o, to, Of(k))
      OBVIOUS
    <2> HIDE DEF f, C, Of
    <2> QED
      BY <2>1, <2>2, DwellCountsSeconds
  <1>3. \A k, l \in Values(S, key) : k # l => C[k] \cap C[l] = {}
    <2> SUFFICES ASSUME NEW k \in Values(S, key), NEW l \in Values(S, key), k # l
                 PROVE  SecondsOf(S, o, to, Of(k)) \cap SecondsOf(S, o, to, Of(l)) = {}
      OBVIOUS
    <2>1. Of(k) \cap Of(l) = {}
      OBVIOUS
    <2> HIDE DEF Of
    <2> QED
      BY <2>1, SecondsApart
  <1>4. UnionOf(C, Values(S, key)) = SecondsOf(S, o, to, S)
    <2>1. ASSUME NEW k \in Values(S, key), NEW p \in SecondsOf(S, o, to, Of(k))
          PROVE  p \in SecondsOf(S, o, to, S)
      <3>1. Of(k) \subseteq S
        OBVIOUS
      <3> HIDE DEF Of
      <3>2. \E d \in Devices(S) : \E i \in DOMAIN o[d] : \E t \in Credit(o[d], i, to) :
               o[d][i] \in Of(k) /\ p = <<d, t>>
        BY <2>1, WhoseSecond
      <3> QED
        BY <3>1, <3>2, WhoseSecond
    <2>2. ASSUME NEW p \in SecondsOf(S, o, to, S)
          PROVE  \E k \in Values(S, key) : p \in SecondsOf(S, o, to, Of(k))
      <3>1. PICK d, i, t : /\ d \in Devices(S) /\ i \in DOMAIN o[d] /\ t \in Credit(o[d], i, to)
                           /\ o[d][i] \in S /\ p = <<d, t>>
        BY <2>2, WhoseSecond
      <3>2. o[d][i][key] \in Values(S, key) /\ o[d][i] \in Of(o[d][i][key])
        BY <3>1 DEF Values
      <3> HIDE DEF Of
      <3>3. p \in SecondsOf(S, o, to, Of(o[d][i][key]))
        BY <3>1, <3>2, WhoseSecond
      <3> QED
        BY <3>2, <3>3
    <2> QED
      BY <2>1, <2>2 DEF UnionOf
  <1>5. SecondsOf(S, o, to, S) = CoverOf(S, from, to)
    BY SecondsAreCover
  <1> HIDE DEF f, C
  <1>6. SumOver(f, Values(S, key)) = Cardinality(UnionOf(C, Values(S, key)))
    BY <1>1, <1>2, <1>3, SumOfSizes
  <1> QED
    BY <1>4, <1>5, <1>6 DEF f

\* So do the active and the idle seconds.
LEMMA RatioAddsUp ==
  ASSUME NEW S, NEW o, NEW from, NEW to, Window(S, from, to), o \in Partitions(S)
  PROVE  ActiveRatio(S, o, to).total = Cardinality(CoverOf(S, from, to))
  <1> DEFINE On == {h \in S : h.active}
             Off == {h \in S : ~h.active}
             A == SecondsOf(S, o, to, On)
             B == SecondsOf(S, o, to, Off)
  <1>1. ActiveRatio(S, o, to).total
          = DwellSeconds(S, o, to, On) + DwellSeconds(S, o, to, Off)
    BY DEF ActiveRatio
  <1>2. On \cap Off = {} /\ On \cup Off = S
    OBVIOUS
  <1> HIDE DEF On, Off
  <1>3. /\ IsFiniteSet(A) /\ DwellSeconds(S, o, to, On) = Cardinality(A)
        /\ IsFiniteSet(B) /\ DwellSeconds(S, o, to, Off) = Cardinality(B)
    BY DwellCountsSeconds
  <1>4. A \cap B = {}
    BY <1>2, SecondsApart
  <1>5. A \cup B = SecondsOf(S, o, to, S)
    <2>1. ASSUME NEW p PROVE p \in SecondsOf(S, o, to, S) <=> p \in A \/ p \in B
      BY <1>2, WhoseSecond
    <2> HIDE DEF A, B
    <2> QED
      BY <2>1
  <1>6. SecondsOf(S, o, to, S) = CoverOf(S, from, to)
    BY SecondsAreCover
  <1> HIDE DEF A, B
  <1>7. Cardinality(A \cup B) = Cardinality(A) + Cardinality(B) - Cardinality(A \cap B)
    BY <1>3, FS_Union
  <1>8. Cardinality(A \cap B) = 0 /\ Cardinality(A) \in Nat /\ Cardinality(B) \in Nat
    BY <1>3, <1>4, FS_EmptySet, FS_CardinalityType
  <1>9. Cardinality(A \cup B) = Cardinality(A) + Cardinality(B)
    BY <1>7, <1>8
  <1>10. A \cup B = CoverOf(S, from, to)
    BY <1>5, <1>6
  <1>11. ActiveRatio(S, o, to).total = Cardinality(A) + Cardinality(B)
    BY <1>1, <1>3
  <1> QED
    BY <1>9, <1>10, <1>11

\* The usage charts of one window and selection add up to the total of the ratio,
\* though each is a query of its own that may order rows of one ts differently.
ChartsAgree ==
    \A w \in Windows, D \in Selections :
        LET S == Selected(D, w[1], w[2]) IN
        \A o \in Partitions(S), p \in Partitions(S), key \in {"app", "category"} :
            SumOver(DwellUsage(S, o, w[2], key), Values(S, key)) = ActiveRatio(S, p, w[2]).total

\* The seconds by application, those by category and the ratio's total are the same
\* number, in every order that the three queries may read the rows in
\* (query.go:80-126).
THEOREM ChartsAlwaysAgree == Spec => []ChartsAgree
  <1>1. RowsOK => ChartsAgree
    <2> SUFFICES ASSUME RowsOK, NEW w \in Windows, NEW D \in Selections,
                        NEW o \in Partitions(Selected(D, w[1], w[2])),
                        NEW p \in Partitions(Selected(D, w[1], w[2])),
                        NEW key \in {"app", "category"}
                 PROVE  LET S == Selected(D, w[1], w[2])
                        IN SumOver(DwellUsage(S, o, w[2], key), Values(S, key))
                             = ActiveRatio(S, p, w[2]).total
      BY DEF ChartsAgree
    <2> DEFINE S == Selected(D, w[1], w[2])
               from == w[1]
               to == w[2]
    <2>1. from \in Int /\ to \in Int
      BY ReportsAssumption DEF Windows
    <2>2. Window(S, from, to)
      BY <2>1, SelectedWindow
    <2>3. o \in Partitions(S) /\ p \in Partitions(S)
      OBVIOUS
    <2> HIDE DEF S, from, to
    <2>4. /\ SumOver(DwellUsage(S, o, to, key), Values(S, key)) = Cardinality(CoverOf(S, from, to))
          /\ ActiveRatio(S, p, to).total = Cardinality(CoverOf(S, from, to))
      BY <2>2, <2>3, UsageAddsUp, RatioAddsUp
    <2> QED
      BY <2>4 DEF S, to
  <1> QED
    BY <1>1, RowsAlwaysOK, PTL
=============================================================================
