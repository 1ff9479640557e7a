--------------------------- MODULE Delivery_proofs ---------------------------
(***************************************************************************)
(* Proofs about Delivery, for every number of heartbeats, batch size, cap,  *)
(* set of faults and number of crashes: the invariants the runs check, and  *)
(* that the pipeline implements Outbox.                                     *)
(***************************************************************************)
EXTENDS Delivery, TLAPS

Line == [hb : Heartbeat, st : {"ok", "frag", "bad"}]

\* A file the agent can have written: lines in order of emission, all emitted
\* before n, and a fragment only at the end, for no recorded heartbeat.
GoodFile(f, n, rec) ==
    /\ f \in Seq(Line)
    /\ \A i, j \in 1..Len(f) : i < j => f[i].hb < f[j].hb
    /\ \A i \in 1..Len(f) : f[i].hb < n
    /\ \A i \in 1..Len(f) : f[i].st = "frag" => i = Len(f) /\ f[i].hb \notin rec

\* The first n lines of f are whole and their heartbeats are in the table.
StoredPrefix(f, n) ==
    /\ n <= Len(f)
    /\ \A i \in 1..n : f[i].st = "ok" /\ f[i].hb \in rows

\* S leaves no gap: a recorded heartbeat older than a member of S is stored,
\* dropped, or in S.
Closed(S) == \A k \in S : \A h \in recorded : h < k => h \in rows \cup dropped \cup S

Emitted ==
    /\ recorded \subseteq 1..next - 1
    /\ rows \subseteq 1..next - 1
    /\ \A S \in late : S \subseteq 1..next - 1

\* The request in flight holds the lines after the acked prefix.
SentIsPrefix ==
    mu = "flush" =>
        /\ fdOpen
        /\ ackedOff + Len(sent) <= Len(file)
        /\ \A i \in 1..Len(sent) : /\ sent[i] = file[ackedOff + i].hb
                                   /\ file[ackedOff + i].st = "ok"

SentStored == mu = "flush" /\ served = "ok" => Batch \subseteq rows

LateClosed == \A S \in late : Closed(S)

\* The inductive invariant.
IInv ==
    /\ TypeOK
    /\ GoodFile(file, next, recorded)
    /\ Emitted
    /\ NothingLost
    /\ AckedPrefixStored
    /\ SentIsPrefix
    /\ SentStored
    /\ InOrder
    /\ LateClosed

-----------------------------------------------------------------------------
(* Files.                                                                  *)

\* A line's heartbeat is a number in range.
LEMMA LineFields ==
    ASSUME NEW l \in Line
    PROVE  l.hb \in Heartbeat /\ l.hb \in Nat
  <1>1. l.hb \in Heartbeat  BY DEF Line
  <1> QED  BY <1>1 DEF Heartbeat

\* No line is stored yet: what an offset of 0 stands for.
LEMMA EmptyPrefix ==
    ASSUME NEW f, Len(f) \in Nat
    PROVE  StoredPrefix(f, 0)
  BY DEF StoredPrefix

\* What is left of a good file when its first c lines are cut off is good.
LEMMA SuffixGood ==
    ASSUME NEW f, NEW n \in Nat, NEW rec, GoodFile(f, n, rec), NEW c \in 0..Len(f)
    PROVE  LET g == SubSeq(f, c + 1, Len(f))
           IN  /\ GoodFile(g, n, rec)
               /\ Len(g) = Len(f) - c
               /\ \A i \in 1..Len(g) : g[i] = f[c + i]
  <1> DEFINE g == SubSeq(f, c + 1, Len(f))
  <1>0. f \in Seq(Line) /\ Len(f) \in Nat  BY DEF GoodFile
  <1>1. g \in Seq(Line) /\ Len(g) = Len(f) - c  BY <1>0
  <1>2. \A i \in 1..Len(g) : g[i] = f[c + i]  BY <1>0, <1>1
  <1>3. \A i \in 1..Len(g) : c + i \in 1..Len(f)  BY <1>0, <1>1
  <1>4. \A i \in Nat : \A j \in Nat : i < j => c + i < c + j  OBVIOUS
  <1>5. \A i, j \in 1..Len(g) : i < j => g[i].hb < g[j].hb
    BY <1>0, <1>1, <1>2, <1>3, <1>4 DEF GoodFile
  <1>6. \A i \in 1..Len(g) : g[i].hb < n  BY <1>2, <1>3 DEF GoodFile
  <1>7. \A i \in 1..Len(g) : g[i].st = "frag" => i = Len(g) /\ g[i].hb \notin rec
    BY <1>0, <1>1, <1>2, <1>3 DEF GoodFile
  <1> QED  BY <1>1, <1>2, <1>5, <1>6, <1>7 DEF GoodFile

\* A line written at the end of a good file leaves a good file without a
\* fragment, in which no recorded heartbeat has disappeared.
LEMMA WriteLineGood ==
    ASSUME NEW f, NEW n \in Heartbeat, NEW rec, NEW rec2, GoodFile(f, n, rec)
    PROVE  LET g == WriteLine(f, n)
           IN  /\ GoodFile(g, n + 1, rec2)
               /\ Len(f) <= Len(g)
               /\ \A i \in 1..Len(f) : f[i].st # "frag" => g[i] = f[i]
               /\ n \in Heartbeats(g)
               /\ Heartbeats(f) \cap rec \subseteq Heartbeats(g)
  <1> DEFINE g == WriteLine(f, n)
  <1>0. /\ f \in Seq(Line) /\ Len(f) \in Nat /\ n \in Nat
        /\ \A i \in 1..Len(f) : f[i].hb \in Nat /\ f[i].hb < n /\ f[i].hb < n + 1
    <2>1. f \in Seq(Line) /\ Len(f) \in Nat /\ n \in Nat  BY DEF GoodFile, Heartbeat
    <2>2. \A i \in 1..Len(f) : f[i] \in Line  BY <2>1
    <2>3. \A l \in Line : l.hb \in Nat  BY LineFields
    <2>4. \A i \in 1..Len(f) : f[i].hb \in Nat  BY <2>2, <2>3
    <2>5. \A i \in 1..Len(f) : f[i].hb < n  BY DEF GoodFile
    <2>6. \A x \in Nat : x < n => x < n + 1  BY <2>1
    <2> QED  BY <2>1, <2>4, <2>5, <2>6
  <1>1. CASE TornTail(f)
    <2>1. g = [f EXCEPT ![Len(f)] = Mangled(n)]  BY <1>1 DEF WriteLine
    <2>2. Mangled(n) \in Line  BY DEF Mangled, Line
    <2>3. Len(f) \in 1..Len(f)  BY <1>0, <1>1 DEF TornTail
    <2>4. g \in Seq(Line) /\ Len(g) = Len(f)  BY <1>0, <2>1, <2>2, <2>3
    <2>5. g[Len(f)] = Mangled(n)  BY <1>0, <2>1, <2>3
    <2>6. \A i \in 1..Len(f) : i # Len(f) => g[i] = f[i]  BY <1>0, <2>1
    <2>8. \A i, j \in 1..Len(g) : i < j => g[i].hb < g[j].hb
      BY <1>0, <2>3, <2>4, <2>5, <2>6 DEF GoodFile, Mangled
    <2>9. \A i \in 1..Len(g) : g[i].st # "frag"
      BY <1>0, <2>4, <2>5, <2>6 DEF GoodFile, Mangled
    <2>10. \A i \in 1..Len(f) : f[i].st # "frag" => g[i] = f[i]
      BY <1>1, <2>6 DEF TornTail
    <2>11. f[Len(f)].hb \notin rec  BY <1>1, <2>3 DEF GoodFile, TornTail
    <2>12. Heartbeats(f) \cap rec \subseteq Heartbeats(g)
      BY <2>4, <2>6, <2>11 DEF Heartbeats
    <2>13. n \in Heartbeats(g)  BY <2>3, <2>4, <2>5 DEF Heartbeats, Mangled
    <2>14. \A i \in 1..Len(g) : g[i].hb < n + 1
      BY <1>0, <2>4, <2>5, <2>6 DEF Mangled
    <2> QED  BY <1>0, <2>4, <2>8, <2>9, <2>10, <2>12, <2>13, <2>14 DEF GoodFile
  <1>2. CASE ~TornTail(f)
    <2>1. g = Append(f, Entry(n))  BY <1>2 DEF WriteLine
    <2>2. Entry(n) \in Line  BY DEF Entry, Line
    <2>3. g \in Seq(Line) /\ Len(g) = Len(f) + 1  BY <1>0, <2>1, <2>2
    <2>4. g[Len(g)] = Entry(n)  BY <1>0, <2>1, <2>3
    <2>5. \A i \in 1..Len(f) : i \in 1..Len(g) /\ g[i] = f[i]  BY <1>0, <2>1, <2>3
    <2>6. \A i \in 1..Len(g) : i \in 1..Len(f) \/ i = Len(g)  BY <1>0, <2>3
    <2>7. \A i, j \in 1..Len(g) : i < j => g[i].hb < g[j].hb
      BY <1>0, <2>3, <2>4, <2>5, <2>6 DEF GoodFile, Entry
    <2>8. \A i \in 1..Len(g) : g[i].hb < n + 1
      BY <1>0, <2>3, <2>4, <2>5, <2>6 DEF Entry
    <2>9. \A i \in 1..Len(g) : g[i].st # "frag"
      BY <1>0, <1>2, <2>3, <2>4, <2>5, <2>6 DEF GoodFile, Entry, TornTail
    <2>10. n \in Heartbeats(g)  BY <1>0, <2>3, <2>4 DEF Heartbeats, Entry
    <2>11. Heartbeats(f) \subseteq Heartbeats(g)  BY <2>5 DEF Heartbeats
    <2> QED  BY <1>0, <2>3, <2>5, <2>7, <2>8, <2>9, <2>10, <2>11 DEF GoodFile
  <1> QED  BY <1>1, <1>2

\* The same for a fragment, which stands for no recorded heartbeat.
LEMMA WriteFragmentGood ==
    ASSUME NEW f, NEW n \in Heartbeat, NEW rec, GoodFile(f, n, rec), n \notin rec
    PROVE  LET g == WriteFragment(f, n)
           IN  /\ GoodFile(g, n + 1, rec)
               /\ Len(f) <= Len(g)
               /\ \A i \in 1..Len(f) : g[i] = f[i]
               /\ Heartbeats(f) \subseteq Heartbeats(g)
  <1> DEFINE g == WriteFragment(f, n)
  <1>0. /\ f \in Seq(Line) /\ Len(f) \in Nat /\ n \in Nat
        /\ \A i \in 1..Len(f) : f[i].hb \in Nat /\ f[i].hb < n /\ f[i].hb < n + 1
    <2>1. f \in Seq(Line) /\ Len(f) \in Nat /\ n \in Nat  BY DEF GoodFile, Heartbeat
    <2>2. \A i \in 1..Len(f) : f[i] \in Line  BY <2>1
    <2>3. \A l \in Line : l.hb \in Nat  BY LineFields
    <2>4. \A i \in 1..Len(f) : f[i].hb \in Nat  BY <2>2, <2>3
    <2>5. \A i \in 1..Len(f) : f[i].hb < n  BY DEF GoodFile
    <2>6. \A x \in Nat : x < n => x < n + 1  BY <2>1
    <2> QED  BY <2>1, <2>4, <2>5, <2>6
  <1>1. CASE TornTail(f)
    <2>1. g = f  BY <1>1 DEF WriteFragment
    <2>2. \A i \in 1..Len(f) : f[i].hb < n + 1
      BY <1>0 DEF GoodFile, Line, Heartbeat
    <2> QED  BY <1>0, <2>1, <2>2 DEF GoodFile
  <1>2. CASE ~TornTail(f)
    <2>1. g = Append(f, Frag(n))  BY <1>2 DEF WriteFragment
    <2>2. Frag(n) \in Line  BY DEF Frag, Line
    <2>3. g \in Seq(Line) /\ Len(g) = Len(f) + 1  BY <1>0, <2>1, <2>2
    <2>4. g[Len(g)] = Frag(n)  BY <1>0, <2>1, <2>3
    <2>5. \A i \in 1..Len(f) : i \in 1..Len(g) /\ g[i] = f[i]  BY <1>0, <2>1, <2>3
    <2>6. \A i \in 1..Len(g) : i \in 1..Len(f) \/ i = Len(g)  BY <1>0, <2>3
    <2>7. \A i, j \in 1..Len(g) : i < j => g[i].hb < g[j].hb
      BY <1>0, <2>3, <2>4, <2>5, <2>6 DEF GoodFile, Frag
    <2>8. \A i \in 1..Len(g) : g[i].hb < n + 1
      BY <1>0, <2>3, <2>4, <2>5, <2>6 DEF Frag
    <2>9. \A i \in 1..Len(g) : g[i].st = "frag" => i = Len(g) /\ g[i].hb \notin rec
      BY <1>0, <1>2, <2>3, <2>4, <2>5, <2>6 DEF GoodFile, Frag, TornTail
    <2>10. Heartbeats(f) \subseteq Heartbeats(g)  BY <2>5 DEF Heartbeats
    <2> QED  BY <1>0, <2>3, <2>5, <2>7, <2>8, <2>9, <2>10 DEF GoodFile
  <1> QED  BY <1>1, <1>2
-----------------------------------------------------------------------------
(* What the invariant says of the unacked lines.                           *)

\* The file is a sequence of lines.
LEMMA FileFacts ==
    ASSUME TypeOK
    PROVE  /\ file \in Seq(Line) /\ Len(file) \in Nat /\ ackedOff \in Nat
           /\ \A i \in 1..Len(file) : file[i] \in Line
  <1>1. file \in Seq(Line) /\ ackedOff \in Nat  BY DEF TypeOK, Line
  <1> QED  BY <1>1

\* The lines from the acked prefix up to any line leave no gap: an older
\* recorded heartbeat is stored, dropped or on an earlier line.
LEMMA SegmentClosed ==
    ASSUME IInv, fdOpen, NEW b \in 0..Len(file)
    PROVE  Closed({file[i].hb : i \in ackedOff + 1 .. b})
  <1> DEFINE S == {file[i].hb : i \in ackedOff + 1 .. b}
  <1>0. /\ file \in Seq(Line) /\ Len(file) \in Nat /\ ackedOff \in Nat
        /\ \A i \in 1..Len(file) : file[i] \in Line
    BY FileFacts DEF IInv
  <1>1. SUFFICES ASSUME NEW k \in S, NEW h \in recorded, h < k
                 PROVE  h \in rows \cup dropped \cup S
    BY DEF Closed
  <1>2. PICK i \in ackedOff + 1 .. b : k = file[i].hb  OBVIOUS
  <1>3. i \in 1..Len(file)  BY <1>0
  <1>4. CASE h \in Heartbeats(file)
    <2>1. PICK j \in 1..Len(file) : h = file[j].hb  BY <1>4 DEF Heartbeats
    <2>2. k \in Nat /\ h \in Nat  BY <1>0, <1>2, <1>3, <2>1, LineFields
    <2>3. ~(i < j)  BY <1>1, <1>2, <1>3, <2>1, <2>2 DEF IInv, GoodFile
    <2>4. i # j  BY <1>1, <1>2, <2>1, <2>2
    <2>5. j \in 1..ackedOff \/ j \in ackedOff + 1 .. b  BY <1>0, <1>3, <2>3, <2>4
    <2>6. CASE j \in 1..ackedOff  BY <2>1, <2>6 DEF IInv, AckedPrefixStored
    <2>7. CASE j \in ackedOff + 1 .. b  BY <2>1, <2>7
    <2> QED  BY <2>5, <2>6, <2>7
  <1>5. CASE h \notin Heartbeats(file)  BY <1>5 DEF IInv, NothingLost
  <1> QED  BY <1>4, <1>5

\* The batch in flight leaves no gap.
LEMMA BatchClosed ==
    ASSUME IInv, mu = "flush"
    PROVE  Closed(Batch) /\ Batch \subseteq 1..next - 1
  <1>0. /\ file \in Seq(Line) /\ Len(file) \in Nat /\ ackedOff \in Nat
        /\ Len(sent) \in Nat /\ next \in Nat
        /\ \A i \in 1..Len(file) : file[i] \in Line
    BY FileFacts DEF IInv, TypeOK
  <1>1. /\ fdOpen
        /\ ackedOff + Len(sent) <= Len(file)
        /\ \A i \in 1..Len(sent) : sent[i] = file[ackedOff + i].hb
    BY DEF IInv, SentIsPrefix
  <1> DEFINE b == ackedOff + Len(sent)
             S == {file[i].hb : i \in ackedOff + 1 .. b}
  <1>2. b \in 0..Len(file)  BY <1>0, <1>1
  <1>3. Closed(S)  BY <1>1, <1>2, SegmentClosed
  <1>4. Batch = S
    <2>1. ASSUME NEW k \in Batch  PROVE k \in S
      <3>1. PICK i \in 1..Len(sent) : k = sent[i]  BY DEF Batch
      <3>2. ackedOff + i \in ackedOff + 1 .. b  BY <1>0
      <3> QED  BY <1>1, <3>1, <3>2
    <2>2. ASSUME NEW k \in S  PROVE k \in Batch
      <3>1. PICK i \in ackedOff + 1 .. b : k = file[i].hb  OBVIOUS
      <3>2. i - ackedOff \in 1..Len(sent) /\ ackedOff + (i - ackedOff) = i  BY <1>0
      <3>3. k = sent[i - ackedOff]  BY <1>1, <3>1, <3>2
      <3> QED  BY <3>2, <3>3 DEF Batch
    <2> QED  BY <2>1, <2>2
  <1>5. \A i \in 1..Len(file) : file[i].hb \in 1..next - 1
    <2>1. \A i \in 1..Len(file) : file[i].hb \in Heartbeat /\ file[i].hb < next
      BY <1>0, LineFields DEF IInv, GoodFile
    <2> QED  BY <1>0, <2>1 DEF Heartbeat
  <1>6. S \subseteq 1..next - 1
    <2>1. ackedOff + 1 .. b \subseteq 1..Len(file)  BY <1>0, <1>2
    <2> QED  BY <1>5, <2>1
  <1> QED  BY <1>3, <1>4, <1>6

\* An overflow drops the first unacked lines up to the cut.
LEMMA RotatedAwayIsSegment ==
    ASSUME IInv, fdOpen
    PROVE  /\ RotationCut \in 0..Len(file) /\ RotationCut >= ackedOff
           /\ RotatedAway = {file[i].hb : i \in ackedOff + 1 .. RotationCut}
  <1> DEFINE n == Len(file)
             S == {file[i].hb : i \in ackedOff + 1 .. RotationCut}
  <1>0. /\ file \in Seq(Line) /\ n \in Nat /\ ackedOff \in Nat
        /\ ackedOff <= n
        /\ \A i \in 1..n : file[i] \in Line
    BY FileFacts DEF IInv, AckedPrefixStored
  <1>1. /\ Len(AllUnacked) = n - ackedOff
        /\ \A i \in 1..Len(AllUnacked) : AllUnacked[i] = file[ackedOff + i]
    <2>1. ackedOff \in 0..Len(file)  BY <1>0
    <2> QED  BY <1>0, <2>1, SuffixGood DEF IInv, TypeOK, AllUnacked
  <1>2. RotationCut \in 0..n /\ RotationCut >= ackedOff
    BY <1>0, <1>1 DEF RotationCut
  <1>3. /\ Len(Rotated) = n - RotationCut
        /\ \A i \in 1..Len(Rotated) : Rotated[i] = file[RotationCut + i]
    BY <1>0, <1>2, SuffixGood DEF IInv, TypeOK, Rotated
  <1> HIDE DEF n
  <1>4. ASSUME NEW h \in RotatedAway  PROVE h \in S
    <2>1. PICK i \in 1..Len(AllUnacked) : h = AllUnacked[i].hb
      BY DEF RotatedAway, Heartbeats
    <2>2. h = file[ackedOff + i].hb /\ ackedOff + i \in ackedOff + 1 .. n
      BY <1>0, <1>1, <2>1
    <2>3. CASE ackedOff + i > RotationCut
      <3>1. /\ ackedOff + i - RotationCut \in 1..Len(Rotated)
            /\ RotationCut + (ackedOff + i - RotationCut) = ackedOff + i
        BY <1>0, <1>2, <1>3, <2>2, <2>3
      <3>2. h = Rotated[ackedOff + i - RotationCut].hb  BY <1>3, <2>2, <3>1
      <3> QED  BY <3>1, <3>2 DEF RotatedAway, Heartbeats
    <2>4. CASE ackedOff + i <= RotationCut
      <3>1. ackedOff + i \in ackedOff + 1 .. RotationCut  BY <1>0, <1>2, <2>2, <2>4
      <3> QED  BY <2>2, <3>1
    <2> QED  BY <1>0, <1>2, <2>2, <2>3, <2>4
  <1>5. ASSUME NEW h \in S  PROVE h \in RotatedAway
    <2>1. PICK i \in ackedOff + 1 .. RotationCut : h = file[i].hb  OBVIOUS
    <2>2. /\ i - ackedOff \in 1..Len(AllUnacked) /\ ackedOff + (i - ackedOff) = i
          /\ i \in 1..n
      BY <1>0, <1>1, <1>2
    <2>3. h = AllUnacked[i - ackedOff].hb  BY <1>1, <2>1, <2>2
    <2>4. ASSUME NEW j \in 1..Len(Rotated), h = Rotated[j].hb  PROVE FALSE
      <3>1. RotationCut + j \in 1..n /\ i < RotationCut + j
        BY <1>0, <1>2, <1>3, <2>2
      <3>2. h = file[RotationCut + j].hb  BY <1>3, <2>4
      <3>3. file[i].hb < file[RotationCut + j].hb
        BY <2>2, <3>1 DEF IInv, GoodFile, n
      <3>4. h \in Nat  BY <1>0, <2>1, <2>2, LineFields
      <3> QED  BY <2>1, <3>2, <3>3, <3>4
    <2> QED  BY <2>2, <2>3, <2>4 DEF RotatedAway, Heartbeats
  <1> QED  BY <1>2, <1>4, <1>5 DEF n

\* rotateIfFull keeps the invariant's parts: what it removes leaves no gap.
LEMMA BaseGood ==
    ASSUME IInv, fdOpen
    PROVE  /\ GoodFile(BaseFile, next, recorded)
           /\ BaseOff \in Nat /\ BaseSize \in Nat
           /\ StoredPrefix(BaseFile, BaseOff)
           /\ dropped \subseteq BaseDrop /\ BaseDrop \subseteq Heartbeat
           /\ recorded \subseteq rows \cup BaseDrop \cup Heartbeats(BaseFile)
           /\ Closed(BaseDrop \ dropped)
  <1>0. /\ file \in Seq(Line) /\ Len(file) \in Nat /\ ackedOff \in Nat
        /\ ackedOff <= Len(file) /\ next \in Nat
        /\ \A i \in 1..Len(file) : file[i] \in Line
    BY FileFacts DEF IInv, TypeOK, AckedPrefixStored
  <1>1. CASE ~Overfull
    <2>1. BaseFile = file /\ BaseOff = ackedOff /\ BaseSize = size /\ BaseDrop = dropped
      BY <1>1 DEF BaseFile, BaseOff, BaseSize, BaseDrop
    <2>2. Closed(BaseDrop \ dropped)  BY <2>1 DEF Closed
    <2> QED
      BY <2>1, <2>2 DEF IInv, TypeOK, AckedPrefixStored, NothingLost, StoredPrefix
  <1>2. CASE Overfull
    <2>1. /\ BaseFile = Rotated /\ BaseOff = 0 /\ BaseSize = Len(Rotated)
          /\ BaseDrop = dropped \cup RotatedAway
      BY <1>2 DEF BaseFile, BaseOff, BaseSize, BaseDrop, RewrittenOff, RewrittenSize
    <2>3. /\ RotationCut \in 0..Len(file) /\ RotationCut >= ackedOff
          /\ RotatedAway = {file[i].hb : i \in ackedOff + 1 .. RotationCut}
      BY RotatedAwayIsSegment
    <2>4. /\ GoodFile(Rotated, next, recorded)
          /\ Len(Rotated) = Len(file) - RotationCut
          /\ \A i \in 1..Len(Rotated) : Rotated[i] = file[RotationCut + i]
      BY <1>0, <2>3, SuffixGood DEF IInv, Rotated
    <2>5. RotatedAway \subseteq Heartbeat
      <3>1. ackedOff + 1 .. RotationCut \subseteq 1..Len(file)  BY <1>0, <2>3
      <3> QED  BY <1>0, <2>3, <3>1, LineFields
    <2>6. Closed(RotatedAway)  BY <2>3, SegmentClosed
    <2>7. Closed(BaseDrop \ dropped)  BY <2>1, <2>6 DEF Closed
    <2>8. ASSUME NEW h \in recorded, h \in Heartbeats(file)
          PROVE  h \in rows \cup RotatedAway \cup Heartbeats(Rotated)
      <3>1. PICK j \in 1..Len(file) : h = file[j].hb  BY <2>8 DEF Heartbeats
      <3>2. CASE j <= ackedOff  BY <1>0, <3>1, <3>2 DEF IInv, AckedPrefixStored
      <3>3. CASE ackedOff < j /\ j <= RotationCut
        <4>1. j \in ackedOff + 1 .. RotationCut  BY <1>0, <3>3
        <4> QED  BY <2>3, <3>1, <4>1
      <3>4. CASE RotationCut < j
        <4>1. /\ j - RotationCut \in 1..Len(Rotated)
              /\ RotationCut + (j - RotationCut) = j
          BY <1>0, <2>3, <2>4, <3>4
        <4>2. h = Rotated[j - RotationCut].hb  BY <2>4, <3>1, <4>1
        <4> QED  BY <4>1, <4>2 DEF Heartbeats
      <3> QED  BY <1>0, <2>3, <3>2, <3>3, <3>4
    <2>9. recorded \subseteq rows \cup BaseDrop \cup Heartbeats(BaseFile)
      BY <2>1, <2>8 DEF IInv, NothingLost
    <2>10. StoredPrefix(Rotated, 0) /\ Len(Rotated) \in Nat
      BY <1>0, <2>3, <2>4 DEF StoredPrefix
    <2> QED
      BY <2>1, <2>4, <2>5, <2>7, <2>9, <2>10 DEF IInv, TypeOK
  <1> QED  BY <1>1, <1>2
-----------------------------------------------------------------------------
(* Steps of the sampling goroutine.                                        *)

\* A good file stays good while the next heartbeat is emitted and lost.
LEMMA GoodFileLater ==
    ASSUME NEW f, NEW n \in Nat, NEW rec, GoodFile(f, n, rec)
    PROVE  GoodFile(f, n + 1, rec)
  <1>1. f \in Seq(Line) /\ Len(f) \in Nat  BY DEF GoodFile
  <1>2. \A i \in 1..Len(f) : f[i] \in Line  BY <1>1
  <1>3. \A i \in 1..Len(f) : f[i].hb \in Nat  BY <1>2, LineFields
  <1>4. \A x \in Nat : x < n => x < n + 1  OBVIOUS
  <1> QED  BY <1>1, <1>3, <1>4 DEF GoodFile

\* Append's line, written after any rotation.
LEMMA WrittenGood ==
    ASSUME IInv, fdOpen, next <= MaxHeartbeats,
           NEW rec2 \in {recorded, recorded \cup {next}}
    PROVE  LET g == WriteLine(BaseFile, next)
           IN  /\ GoodFile(g, next + 1, rec2)
               /\ StoredPrefix(g, BaseOff)
               /\ rec2 \subseteq rows \cup BaseDrop \cup Heartbeats(g)
  <1> DEFINE g == WriteLine(BaseFile, next)
  <1>1. next \in Heartbeat
    BY DeliveryAssumption DEF IInv, TypeOK, Heartbeat
  <1>2. /\ GoodFile(BaseFile, next, recorded)
        /\ BaseOff \in Nat
        /\ StoredPrefix(BaseFile, BaseOff)
        /\ recorded \subseteq rows \cup BaseDrop \cup Heartbeats(BaseFile)
    BY BaseGood
  <1>3. /\ GoodFile(g, next + 1, rec2)
        /\ Len(BaseFile) <= Len(g)
        /\ \A i \in 1..Len(BaseFile) : BaseFile[i].st # "frag" => g[i] = BaseFile[i]
        /\ next \in Heartbeats(g)
        /\ Heartbeats(BaseFile) \cap recorded \subseteq Heartbeats(g)
    BY <1>1, <1>2, WriteLineGood
  <1>4. Len(BaseFile) \in Nat /\ Len(g) \in Nat  BY <1>2, <1>3 DEF GoodFile
  <1>5. StoredPrefix(g, BaseOff)  BY <1>2, <1>3, <1>4 DEF StoredPrefix
  <1>6. rec2 \subseteq rows \cup BaseDrop \cup Heartbeats(g)  BY <1>2, <1>3
  <1> QED  BY <1>3, <1>5, <1>6

\* The file after a write that failed, with or without a fragment.
LEMMA UnwrittenGood ==
    ASSUME IInv, fdOpen, next <= MaxHeartbeats,
           NEW g \in {BaseFile, WriteFragment(BaseFile, next)}
    PROVE  /\ GoodFile(g, next + 1, recorded)
           /\ StoredPrefix(g, BaseOff)
           /\ recorded \subseteq rows \cup BaseDrop \cup Heartbeats(g)
  <1>1. next \in Heartbeat /\ next \in Nat /\ next \notin recorded
    BY DeliveryAssumption DEF IInv, TypeOK, Heartbeat, Emitted
  <1>2. /\ GoodFile(BaseFile, next, recorded)
        /\ BaseOff \in Nat
        /\ StoredPrefix(BaseFile, BaseOff)
        /\ recorded \subseteq rows \cup BaseDrop \cup Heartbeats(BaseFile)
    BY BaseGood
  <1>3. CASE g = BaseFile  BY <1>1, <1>2, <1>3, GoodFileLater
  <1>4. CASE g = WriteFragment(BaseFile, next)
    <2>1. /\ GoodFile(g, next + 1, recorded)
          /\ Len(BaseFile) <= Len(g)
          /\ \A i \in 1..Len(BaseFile) : g[i] = BaseFile[i]
          /\ Heartbeats(BaseFile) \subseteq Heartbeats(g)
      BY <1>1, <1>2, <1>4, WriteFragmentGood
    <2>2. Len(BaseFile) \in Nat /\ Len(g) \in Nat  BY <1>2, <2>1 DEF GoodFile
    <2>3. StoredPrefix(g, BaseOff)  BY <1>2, <2>1, <2>2 DEF StoredPrefix
    <2> QED  BY <1>2, <2>1, <2>3
  <1> QED  BY <1>3, <1>4

\* Emitting a heartbeat keeps the invariant when it leaves a good file that
\* still accounts for the recorded heartbeats.
LEMMA EmitStep ==
    ASSUME IInv, mu = "free", next <= MaxHeartbeats,
           mu' = "free", next' = next + 1, late' = late, rows' = rows,
           sent' \in Seq(Heartbeat), served' \in {"no", "ok", "err"},
           faults' \in 0..MaxFaults, crashes' \in 0..MaxCrashes,
           recorded' \in {recorded, recorded \cup {next}},
           GoodFile(file', next + 1, recorded'),
           ackedOff' \in Nat, size' \in Nat, fdOpen' \in BOOLEAN,
           fdOpen' => StoredPrefix(file', ackedOff'),
           dropped \subseteq dropped', dropped' \subseteq Heartbeat,
           recorded' \subseteq rows \cup dropped' \cup Heartbeats(file')
    PROVE  IInv'
  <1>0. next \in Nat /\ next \in Heartbeat /\ next' \in 1..MaxHeartbeats + 1
    BY DeliveryAssumption DEF IInv, TypeOK, Heartbeat
  <1>1. TypeOK'
    <2>1. file' \in Seq([hb : Heartbeat, st : {"ok", "frag", "bad"}])  BY DEF GoodFile, Line
    <2>2. recorded' \subseteq Heartbeat  BY <1>0 DEF IInv, TypeOK
    <2> QED  BY <1>0, <2>1, <2>2 DEF IInv, TypeOK
  <1>2. GoodFile(file, next, recorded)'  BY DEF GoodFile
  <1>3. Emitted'
    <2>1. recorded \subseteq 1..next - 1 /\ rows \subseteq 1..next - 1
      BY DEF IInv, Emitted
    <2>2. 1..next - 1 \subseteq 1..next' - 1 /\ next \in 1..next' - 1
      <3>1. next' - 1 = next /\ next >= 1
        BY <1>0 DEF Heartbeat
      <3> QED  BY <1>0, <3>1
    <2>3. \A S \in late : S \subseteq 1..next' - 1  BY <2>2 DEF IInv, Emitted
    <2> QED  BY <2>1, <2>2, <2>3 DEF Emitted
  <1>4. NothingLost'  BY DEF NothingLost, Heartbeats
  <1>5. AckedPrefixStored'  BY DEF AckedPrefixStored, StoredPrefix
  <1>6. SentIsPrefix' /\ SentStored'  BY DEF SentIsPrefix, SentStored
  <1>7. ASSUME NEW k \in 1..next - 1, NEW h \in recorded', h < k  PROVE h \in recorded
    BY <1>0, <1>7
  <1>8. InOrder'
    <2>1. SUFFICES ASSUME NEW k \in rows, NEW h \in recorded', h < k
                   PROVE  h \in rows \cup dropped'
      BY DEF InOrder
    <2>2. h \in recorded  BY <1>7, <2>1 DEF IInv, Emitted
    <2> QED  BY <2>1, <2>2 DEF IInv, InOrder
  <1>9. LateClosed'
    <2>1. SUFFICES ASSUME NEW S \in late, NEW k \in S, NEW h \in recorded', h < k
                   PROVE  h \in rows \cup dropped' \cup S
      BY DEF LateClosed, Closed
    <2>2. h \in recorded  BY <1>7, <2>1 DEF IInv, Emitted
    <2> QED  BY <2>1, <2>2 DEF IInv, LateClosed, Closed
  <1> QED  BY <1>1, <1>2, <1>3, <1>4, <1>5, <1>6, <1>8, <1>9 DEF IInv

\* What an overflow removes leaves no gap behind it, over a step.
DropStep ==
    \A d \in dropped' \ dropped : \A h \in recorded : h < d => h \in rows \cup dropped'

LEMMA DropStepHolds ==
    ASSUME IInv, dropped' = dropped \/ (fdOpen /\ dropped' = BaseDrop)
    PROVE  DropStep
  <1>1. CASE dropped' = dropped  BY <1>1 DEF DropStep
  <1>2. CASE fdOpen /\ dropped' = BaseDrop
    <2>1. Closed(BaseDrop \ dropped)  BY <1>2, BaseGood
    <2>2. dropped \subseteq BaseDrop  BY <1>2, BaseGood
    <2> QED  BY <1>2, <2>1, <2>2 DEF DropStep, Closed
  <1> QED  BY <1>1, <1>2

\* The step leaves the recorded ones alone or adds the heartbeat emitted.
PutStep ==
    /\ next \in Heartbeat
    /\ recorded' \in {recorded, recorded \cup {next}}
    /\ rows' = rows
    /\ dropped \subseteq dropped' /\ dropped' \subseteq Heartbeat

LEMMA ObserveSteps ==
    ASSUME IInv,
           \/ Observe \/ ObserveUnsynced \/ ObserveWriteFails
           \/ ObserveRotationFails \/ ObserveRefused \/ CrashInObserve
    PROVE  IInv' /\ DropStep /\ PutStep
  <1>0. /\ mu = "free" /\ mu' = "free" /\ next <= MaxHeartbeats /\ next' = next + 1
        /\ late' = late /\ rows' = rows
        /\ sent' \in Seq(Heartbeat) /\ served' \in {"no", "ok", "err"}
        /\ crashes' \in 0..MaxCrashes
    <2>1. sent \in Seq(Heartbeat) /\ served \in {"no", "ok", "err"} /\ crashes \in 0..MaxCrashes
      BY DEF IInv, TypeOK
    <2>2. CASE ObserveStep  BY <2>1, <2>2 DEF ObserveStep
    <2>3. CASE CrashInObserve
      <3>1. /\ mu = "free" /\ next <= MaxHeartbeats /\ next' = next + 1 /\ Restarts
        BY <2>3 DEF CrashInObserve
      <3>2. << >> \in Seq(Heartbeat)  OBVIOUS
      <3>3. crashes' \in 0..MaxCrashes
        BY <2>1, <3>1, DeliveryAssumption DEF Restarts
      <3> QED  BY <3>1, <3>2, <3>3 DEF Restarts, Abandoned
    <2> QED
      BY <2>2, <2>3
      DEF Observe, ObserveUnsynced, ObserveWriteFails, ObserveRotationFails, ObserveRefused
  <1>1. faults' \in 0..MaxFaults
    BY DeliveryAssumption
    DEF Observe, ObserveUnsynced, ObserveWriteFails, ObserveRotationFails,
        ObserveRefused, CrashInObserve, Restarts, Faulty, IInv, TypeOK
  <1>2. next \in Heartbeat /\ next \in Nat
    BY <1>0, DeliveryAssumption DEF IInv, TypeOK, Heartbeat
  <1>3. SUFFICES /\ recorded' \in {recorded, recorded \cup {next}}
                 /\ GoodFile(file', next + 1, recorded')
                 /\ ackedOff' \in Nat /\ size' \in Nat /\ fdOpen' \in BOOLEAN
                 /\ fdOpen' => StoredPrefix(file', ackedOff')
                 /\ dropped \subseteq dropped' /\ dropped' \subseteq Heartbeat
                 /\ recorded' \subseteq rows \cup dropped' \cup Heartbeats(file')
                 /\ dropped' = dropped \/ (fdOpen /\ dropped' = BaseDrop)
    <2>1. IInv'  BY <1>0, <1>1, <1>3, EmitStep
    <2>2. DropStep  BY <1>3, DropStepHolds
    <2> QED  BY <1>0, <1>2, <1>3, <2>1, <2>2 DEF PutStep
  <1>4. /\ GoodFile(file, next + 1, recorded)
        /\ recorded \subseteq rows \cup dropped \cup Heartbeats(file)
        /\ ackedOff \in Nat /\ size \in Nat /\ fdOpen \in BOOLEAN
        /\ dropped \subseteq Heartbeat
        /\ fdOpen => StoredPrefix(file, ackedOff)
    BY <1>2, GoodFileLater
    DEF IInv, TypeOK, NothingLost, AckedPrefixStored, StoredPrefix
  <1>6. CASE Observe
    <2>1. AppendOK(next)  BY <1>6 DEF Observe
    <2> QED  BY <1>0, <2>1, BaseGood, WrittenGood DEF AppendOK, AppendWrites, IInv, TypeOK
  <1>7. CASE ObserveUnsynced
    <2>1. AppendSyncFails(next)  BY <1>7 DEF ObserveUnsynced
    <2> QED
      BY <1>0, <2>1, BaseGood, WrittenGood DEF AppendSyncFails, AppendWrites, IInv, TypeOK
  <1>8. CASE ObserveWriteFails
    <2>1. AppendWriteFails(next)  BY <1>8 DEF ObserveWriteFails
    <2> QED  BY <1>0, <2>1, BaseGood, UnwrittenGood DEF AppendWriteFails, IInv, TypeOK
  <1>9. CASE ObserveRotationFails
    <2>1. /\ fdOpen /\ Overfull
          /\ RewriteFails(Rotated, ackedOff, RotatedAway)
      BY <1>9 DEF ObserveRotationFails, AppendRotationFails
    <2>2. BaseFile = Rotated /\ BaseDrop = dropped \cup RotatedAway
      BY <2>1 DEF BaseFile, BaseDrop
    <2>3. /\ GoodFile(Rotated, next + 1, recorded)
          /\ BaseDrop \subseteq Heartbeat
          /\ recorded \subseteq rows \cup BaseDrop \cup Heartbeats(Rotated)
      BY <1>2, <2>1, <2>2, BaseGood, GoodFileLater
    <2> QED  BY <1>4, <2>1, <2>2, <2>3 DEF RewriteFails
  <1>10. CASE ObserveRefused
    BY <1>4, <1>10 DEF ObserveRefused, AppendRefused, bufferVars
  <1>11. CASE CrashInObserve
    <2>1. ReopenAfterAppend(next)  BY <1>11 DEF CrashInObserve
    <2>2. PICK g : /\ file' = g /\ ackedOff' = 0 /\ size' = 0 /\ fdOpen' = TRUE
                   /\ \/ g = file /\ dropped' = dropped
                      \/ g = BaseFile /\ dropped' = BaseDrop
                      \/ g = WriteLine(BaseFile, next) /\ dropped' = BaseDrop
                      \/ g = WriteFragment(BaseFile, next) /\ dropped' = BaseDrop
      BY <2>1 DEF ReopenAfterAppend, Opened
    <2>3. fdOpen /\ recorded' = recorded  BY <2>1 DEF ReopenAfterAppend
    <2>4. GoodFile(g, next + 1, recorded)
      BY <1>0, <1>4, <2>2, <2>3, WrittenGood, UnwrittenGood
    <2>5. recorded \subseteq rows \cup dropped' \cup Heartbeats(g)
      BY <1>0, <1>4, <2>2, <2>3, WrittenGood, UnwrittenGood
    <2>6. dropped \subseteq dropped' /\ dropped' \subseteq Heartbeat
      BY <1>4, <2>2, <2>3, BaseGood
    <2>7. StoredPrefix(g, 0)
      <3>1. Len(g) \in Nat  BY <2>4 DEF GoodFile
      <3> QED  BY <3>1, EmptyPrefix
    <2> QED  BY <2>2, <2>3, <2>4, <2>5, <2>6, <2>7
  <1> QED  BY <1>6, <1>7, <1>8, <1>9, <1>10, <1>11
-----------------------------------------------------------------------------
(* Steps of the shipping goroutine.                                        *)

\* The server gets no row and the agent promises nothing new.
QuietStep == recorded' = recorded /\ rows' = rows /\ dropped' = dropped

\* The end of a flush, or a restart, keeps the invariant when it leaves a good
\* file that still accounts for the recorded heartbeats.
LEMMA ReleaseStep ==
    ASSUME IInv, mu' = "free", sent' = << >>, served' = "no",
           next' = next, QuietStep, late' \in {late, Abandoned},
           faults' \in 0..MaxFaults, crashes' \in 0..MaxCrashes,
           GoodFile(file', next, recorded),
           ackedOff' \in Nat, size' \in Nat, fdOpen' \in BOOLEAN,
           fdOpen' => StoredPrefix(file', ackedOff'),
           recorded \subseteq rows \cup dropped \cup Heartbeats(file')
    PROVE  IInv'
  <1>0. \A S \in late' : S \in late \/ (mu = "flush" /\ S = Batch)
    BY DEF Abandoned
  <1>1. \A S \in late' : S \subseteq 1..next - 1 /\ Closed(S)
    <2>1. SUFFICES ASSUME NEW S \in late'  PROVE S \subseteq 1..next - 1 /\ Closed(S)
      OBVIOUS
    <2>2. CASE S \in late  BY <2>2 DEF IInv, Emitted, LateClosed
    <2>3. CASE mu = "flush" /\ S = Batch  BY <2>3, BatchClosed
    <2> QED  BY <1>0, <2>2, <2>3
  <1>2. next \in Nat /\ next <= MaxHeartbeats + 1  BY DEF IInv, TypeOK
  <1>3. 1..next - 1 \subseteq Heartbeat
    BY <1>2, DeliveryAssumption DEF Heartbeat
  <1>4. TypeOK'
    <2>1. file' \in Seq([hb : Heartbeat, st : {"ok", "frag", "bad"}])  BY DEF GoodFile, Line
    <2>2. << >> \in Seq(Heartbeat)  OBVIOUS
    <2>3. late' \subseteq SUBSET Heartbeat  BY <1>1, <1>3
    <2> QED  BY <2>1, <2>2, <2>3 DEF IInv, TypeOK, QuietStep
  <1>5. GoodFile(file, next, recorded)'  BY DEF GoodFile, QuietStep
  <1>6. Emitted'  BY <1>1 DEF IInv, Emitted, QuietStep
  <1>7. NothingLost'  BY DEF NothingLost, Heartbeats, QuietStep
  <1>8. AckedPrefixStored'  BY DEF AckedPrefixStored, StoredPrefix, QuietStep
  <1>9. SentIsPrefix' /\ SentStored'  BY DEF SentIsPrefix, SentStored
  <1>10. InOrder'  BY DEF IInv, InOrder, QuietStep
  <1>11. LateClosed'  BY <1>1 DEF LateClosed, Closed, QuietStep
  <1> QED
    BY <1>4, <1>5, <1>6, <1>7, <1>8, <1>9, <1>10, <1>11 DEF IInv

\* When the server has the batch, Ack's offset covers stored lines only, and
\* what is left of the file accounts for the recorded heartbeats.
LEMMA AckGood ==
    ASSUME IInv, mu = "flush", served = "ok"
    PROVE  LET off  == ackedOff + Len(sent)
               rest == SubSeq(file, off + 1, Len(file))
           IN  /\ off \in Nat
               /\ StoredPrefix(file, off)
               /\ GoodFile(rest, next, recorded)
               /\ recorded \subseteq rows \cup dropped \cup Heartbeats(rest)
  <1> DEFINE off == ackedOff + Len(sent)
             rest == SubSeq(file, off + 1, Len(file))
  <1>0. /\ file \in Seq(Line) /\ Len(file) \in Nat /\ ackedOff \in Nat
        /\ Len(sent) \in Nat /\ next \in Nat
    BY FileFacts DEF IInv, TypeOK
  <1>1. /\ fdOpen /\ off <= Len(file)
        /\ \A i \in 1..Len(sent) : sent[i] = file[ackedOff + i].hb /\ file[ackedOff + i].st = "ok"
    BY DEF IInv, SentIsPrefix
  <1>2. off \in Nat /\ off \in 0..Len(file)  BY <1>0, <1>1
  <1>3. ASSUME NEW i \in 1..off  PROVE file[i].st = "ok" /\ file[i].hb \in rows
    <2>1. CASE i <= ackedOff
      BY <1>0, <1>1, <2>1 DEF IInv, AckedPrefixStored
    <2>2. CASE i > ackedOff
      <3>1. i - ackedOff \in 1..Len(sent) /\ ackedOff + (i - ackedOff) = i
        BY <1>0, <2>2
      <3>2. sent[i - ackedOff] = file[i].hb /\ file[i].st = "ok"  BY <1>1, <3>1
      <3>3. sent[i - ackedOff] \in rows  BY <3>1 DEF IInv, SentStored, Batch
      <3> QED  BY <3>2, <3>3
    <2> QED  BY <1>0, <2>1, <2>2
  <1>4. StoredPrefix(file, off)  BY <1>1, <1>3 DEF StoredPrefix
  <1>5. /\ GoodFile(rest, next, recorded)
        /\ Len(rest) = Len(file) - off
        /\ \A i \in 1..Len(rest) : rest[i] = file[off + i]
    BY <1>0, <1>2, SuffixGood DEF IInv
  <1>6. ASSUME NEW h \in recorded, h \in Heartbeats(file)
        PROVE  h \in rows \cup Heartbeats(rest)
    <2>1. PICK j \in 1..Len(file) : h = file[j].hb  BY <1>6 DEF Heartbeats
    <2>2. CASE j <= off
      <3>1. j \in 1..off  BY <1>2, <2>2
      <3> QED  BY <1>3, <2>1, <3>1
    <2>3. CASE j > off
      <3>1. j - off \in 1..Len(rest) /\ off + (j - off) = j
        <4> HIDE DEF off, rest
        <4> QED  BY <1>0, <1>2, <1>5, <2>3
      <3>2. h = rest[j - off].hb  BY <1>5, <2>1, <3>1
      <3> QED  BY <3>1, <3>2 DEF Heartbeats
    <2> QED  BY <1>0, <1>2, <2>2, <2>3
  <1>7. recorded \subseteq rows \cup dropped \cup Heartbeats(rest)
    BY <1>6 DEF IInv, NothingLost
  <1> QED  BY <1>2, <1>4, <1>5, <1>7

LEMMA ReleaseSteps ==
    ASSUME IInv, FlushAck \/ FlushAckFails \/ FlushFails \/ Crash
    PROVE  IInv' /\ QuietStep
  <1>1. /\ mu' = "free" /\ sent' = << >> /\ served' = "no"
        /\ next' = next /\ rows' = rows /\ late' \in {late, Abandoned}
    BY DEF FlushAck, FlushAckFails, FlushFails, Crash, FlushEnds, Restarts
  <1>2. faults' \in 0..MaxFaults
    BY DeliveryAssumption
    DEF FlushAck, FlushAckFails, FlushFails, Crash, Faulty, Restarts, IInv, TypeOK
  <1>3. crashes' \in 0..MaxCrashes
    BY DeliveryAssumption
    DEF FlushAck, FlushAckFails, FlushFails, Crash, Restarts, IInv, TypeOK
  <1>4. SUFFICES /\ recorded' = recorded /\ dropped' = dropped
                 /\ GoodFile(file', next, recorded)
                 /\ ackedOff' \in Nat /\ size' \in Nat /\ fdOpen' \in BOOLEAN
                 /\ fdOpen' => StoredPrefix(file', ackedOff')
                 /\ recorded \subseteq rows \cup dropped \cup Heartbeats(file')
    BY <1>1, <1>2, <1>3, <1>4, ReleaseStep DEF QuietStep
  <1>5. /\ GoodFile(file, next, recorded)
        /\ recorded \subseteq rows \cup dropped \cup Heartbeats(file)
        /\ ackedOff \in Nat /\ size \in Nat /\ fdOpen \in BOOLEAN
        /\ fdOpen => StoredPrefix(file, ackedOff)
    BY DEF IInv, TypeOK, NothingLost, AckedPrefixStored, StoredPrefix
  <1> DEFINE off == ackedOff + Len(sent)
             rest == SubSeq(file, off + 1, Len(file))
  <1>6. ASSUME mu = "flush", served = "ok"
        PROVE  /\ off \in Nat /\ StoredPrefix(file, off)
               /\ GoodFile(rest, next, recorded)
               /\ recorded \subseteq rows \cup dropped \cup Heartbeats(rest)
    BY <1>6, AckGood
  <1>7. CASE FlushAck
    <2>1. mu = "flush" /\ served = "ok" /\ AckOK(Len(sent))
      BY <1>7 DEF FlushAck, FlushEnds
    <2>2. UNCHANGED <<fdOpen, recorded, dropped>>  BY <2>1 DEF AckOK
    <2>3. \/ file' = rest /\ ackedOff' = 0 /\ size' = Len(rest)
          \/ file' = file /\ ackedOff' = off /\ size' = size
      BY <2>1 DEF AckOK, RewrittenOff, RewrittenSize
    <2>4. Len(rest) \in Nat  BY <1>6, <2>1 DEF GoodFile
    <2>5. StoredPrefix(rest, 0)  BY <2>4, EmptyPrefix
    <2> HIDE DEF off, rest
    <2> QED  BY <1>5, <1>6, <2>1, <2>2, <2>3, <2>4, <2>5
  <1>8. CASE FlushAckFails
    <2>1. mu = "flush" /\ served = "ok" /\ AckRewriteFails(Len(sent))
      BY <1>8 DEF FlushAckFails, FlushEnds
    <2>2. RewriteFails(rest, off, {})  BY <2>1 DEF AckRewriteFails
    <2>3. ackedOff' = off /\ size' = size /\ recorded' = recorded /\ dropped' = dropped
      BY <2>2 DEF RewriteFails
    <2>4. \/ file' = file /\ fdOpen' = fdOpen
          \/ file' = file /\ fdOpen' = FALSE
          \/ file' = rest /\ fdOpen' = FALSE
      BY <2>2 DEF RewriteFails
    <2> QED  BY <1>5, <1>6, <2>1, <2>3, <2>4
  <1>9. CASE FlushFails  BY <1>5, <1>9 DEF FlushFails, bufferVars
  <1>10. CASE Crash
    <2>1. /\ file' = file /\ ackedOff' = 0 /\ size' = 0 /\ fdOpen' = TRUE
          /\ recorded' = recorded /\ dropped' = dropped
      BY <1>10 DEF Crash, Reopen, Opened
    <2>2. Len(file) \in Nat  BY <1>5 DEF GoodFile
    <2>3. StoredPrefix(file, 0)  BY <2>2, EmptyPrefix
    <2> QED  BY <1>5, <2>1, <2>3
  <1> QED  BY <1>7, <1>8, <1>9, <1>10

\* A flush reads the lines after the acked prefix.
LEMMA FlushStartStep ==
    ASSUME IInv, FlushStart
    PROVE  IInv' /\ QuietStep
  <1> DEFINE lines == Unacked(BatchLimit)
  <1>0. /\ file \in Seq(Line) /\ Len(file) \in Nat /\ ackedOff \in Nat
        /\ \A i \in 1..Len(file) : file[i] \in Line
    BY FileFacts DEF IInv
  <1>1. /\ fdOpen /\ Parses(lines) /\ mu' = "flush" /\ served' = "no"
        /\ sent' = [i \in 1..Len(lines) |-> lines[i].hb]
        /\ UNCHANGED <<bufferVars, next, late, rows, faults, crashes>>
    BY DEF FlushStart
  <1>2. ackedOff <= Len(file)  BY <1>1 DEF IInv, AckedPrefixStored
  <1> DEFINE end == IF ackedOff + BatchLimit < Len(file)
                    THEN ackedOff + BatchLimit ELSE Len(file)
             m == end - ackedOff
  <1>3. /\ m \in Nat /\ end \in Nat /\ ackedOff + m = end /\ end <= Len(file)
        /\ lines = SubSeq(file, ackedOff + 1, end)
    BY <1>0, <1>2, DeliveryAssumption DEF Unacked
  <1> HIDE DEF end, m, lines
  <1>4. Len(lines) = m /\ \A i \in 1..m : lines[i] = file[ackedOff + i] /\ ackedOff + i \in 1..Len(file)
    <2>1. Len(lines) = m
      <3>1. Len(SubSeq(file, ackedOff + 1, end)) = end - ackedOff  BY <1>0, <1>3
      <3> QED  BY <1>0, <1>3, <3>1
    <2>2. ASSUME NEW i \in 1..m  PROVE ackedOff + i \in 1..Len(file)  BY <1>0, <1>3
    <2>3. ASSUME NEW i \in 1..m  PROVE lines[i] = file[ackedOff + i]
      <3>1. i \in 1..(end - ackedOff) /\ i \in Nat  BY <1>0, <1>3
      <3>2. SubSeq(file, ackedOff + 1, end)[i] = file[ackedOff + 1 + i - 1]
        BY <1>0, <1>3, <3>1
      <3>3. ackedOff + 1 + i - 1 = ackedOff + i  BY <1>0, <3>1
      <3> QED  BY <1>3, <3>2, <3>3
    <2> QED  BY <2>1, <2>2, <2>3
  <1>5. \A i \in 1..m : lines[i].hb \in Heartbeat
    BY <1>0, <1>4, LineFields
  <1>6. sent' \in Seq(Heartbeat) /\ Len(sent') = m /\ \A i \in 1..m : sent'[i] = lines[i].hb
    <2>1. sent' = [i \in 1..m |-> lines[i].hb]  BY <1>1, <1>4
    <2>2. sent' \in [1..m -> Heartbeat]  BY <1>5, <2>1
    <2>3. sent' \in Seq(Heartbeat)  BY <1>3, <2>2
    <2>4. Len(sent') = m  BY <1>3, <2>1
    <2> QED  BY <2>1, <2>3, <2>4
  <1>7. TypeOK'  BY <1>1, <1>6 DEF IInv, TypeOK, bufferVars
  <1>8. GoodFile(file, next, recorded)'  BY <1>1 DEF IInv, GoodFile, bufferVars
  <1>9. SentIsPrefix'
    <2>1. \A i \in 1..m : lines[i].st = "ok"  BY <1>1, <1>4 DEF Parses
    <2>2. file' = file /\ ackedOff' = ackedOff /\ fdOpen' = fdOpen
      BY <1>1 DEF bufferVars
    <2>3. ackedOff' + Len(sent') <= Len(file')  BY <1>3, <1>6, <2>2
    <2>4. \A i \in 1..Len(sent') : /\ sent'[i] = file'[ackedOff' + i].hb
                                   /\ file'[ackedOff' + i].st = "ok"
      BY <1>4, <1>6, <2>1, <2>2
    <2> QED  BY <1>1, <2>2, <2>3, <2>4 DEF SentIsPrefix
  <1>10. SentStored'  BY <1>1 DEF SentStored
  <1>11. /\ Emitted' /\ NothingLost' /\ AckedPrefixStored' /\ InOrder' /\ LateClosed'
    BY <1>1
    DEF IInv, Emitted, NothingLost, Heartbeats, AckedPrefixStored, InOrder, LateClosed,
        Closed, bufferVars
  <1> QED
    BY <1>1, <1>7, <1>8, <1>9, <1>10, <1>11 DEF IInv, QuietStep, bufferVars

-----------------------------------------------------------------------------
(* Steps of the server.                                                    *)

\* New rows leave no gap.
DeliverStep ==
    /\ recorded' = recorded /\ dropped' = dropped
    /\ \E S \in SUBSET Heartbeat : rows' = rows \cup S /\ Closed(S)

LEMMA IngestStep ==
    ASSUME IInv, NEW S, S \subseteq 1..next - 1, Closed(S), rows' \in {rows, rows \cup S},
           UNCHANGED <<bufferVars, next, mu, sent, faults, crashes>>,
           late' \subseteq late, served' \in {"no", "ok", "err"},
           served' = "ok" => Batch \subseteq rows' \/ served = "ok"
    PROVE  IInv' /\ DeliverStep
  <1>0. /\ file' = file /\ ackedOff' = ackedOff /\ size' = size /\ fdOpen' = fdOpen
        /\ recorded' = recorded /\ dropped' = dropped /\ next' = next /\ mu' = mu
        /\ sent' = sent /\ rows \subseteq rows'
    BY DEF bufferVars
  <1>1. next \in Nat /\ next <= MaxHeartbeats + 1  BY DEF IInv, TypeOK
  <1>2. S \subseteq Heartbeat  BY <1>1, DeliveryAssumption DEF Heartbeat
  <1>3. TypeOK'  BY <1>0, <1>2 DEF IInv, TypeOK
  <1>4. GoodFile(file, next, recorded)'  BY <1>0 DEF IInv, GoodFile
  <1>5. Emitted'  BY <1>0 DEF IInv, Emitted
  <1>6. NothingLost'  BY <1>0 DEF IInv, NothingLost, Heartbeats
  <1>7. AckedPrefixStored'  BY <1>0 DEF IInv, AckedPrefixStored
  <1>8. SentIsPrefix'  BY <1>0 DEF IInv, SentIsPrefix
  <1>9. SentStored'  BY <1>0 DEF IInv, SentStored, Batch
  <1>10. InOrder'  BY <1>0 DEF IInv, InOrder, Closed
  <1>11. LateClosed'  BY <1>0 DEF IInv, LateClosed, Closed
  <1>12. DeliverStep
    <2>1. CASE rows' = rows
      <3>1. {} \in SUBSET Heartbeat /\ rows' = rows \cup {} /\ Closed({})
        BY <2>1 DEF Closed
      <3> QED  BY <1>0, <3>1 DEF DeliverStep
    <2>2. CASE rows' = rows \cup S  BY <1>0, <1>2, <2>2 DEF DeliverStep
    <2> QED  BY <2>1, <2>2
  <1> QED
    BY <1>3, <1>4, <1>5, <1>6, <1>7, <1>8, <1>9, <1>10, <1>11, <1>12 DEF IInv

LEMMA IngestSteps ==
    ASSUME IInv, IngestCommit \/ IngestReject \/ IngestLate
    PROVE  IInv' /\ DeliverStep
  <1>1. CASE IngestCommit
    <2>1. Closed(Batch) /\ Batch \subseteq 1..next - 1
      BY <1>1, BatchClosed DEF IngestCommit
    <2> QED  BY <1>1, <2>1, IngestStep DEF IngestCommit
  <1>2. CASE IngestReject
    <2>1. Closed({})  BY DEF Closed
    <2> QED  BY <1>2, <2>1, IngestStep DEF IngestReject
  <1>3. CASE IngestLate
    <2>1. PICK S \in late : /\ late' = late \ {S}
                            /\ rows' \in {rows, rows \cup S}
                            /\ UNCHANGED <<bufferVars, next, mu, sent, served, faults, crashes>>
      BY <1>3 DEF IngestLate
    <2>2. S \subseteq 1..next - 1 /\ Closed(S)  BY DEF IInv, Emitted, LateClosed
    <2>3. served' \in {"no", "ok", "err"} /\ served' = served
      BY <2>1 DEF IInv, TypeOK
    <2> QED  BY <2>1, <2>2, <2>3, IngestStep
  <1> QED  BY <1>1, <1>2, <1>3
-----------------------------------------------------------------------------
(* The theorems.                                                           *)

LEMMA InitIInv == Init => IInv
  <1> SUFFICES ASSUME Init PROVE IInv
    OBVIOUS
  <1>1. /\ file = << >> /\ Len(file) = 0 /\ ackedOff = 0 /\ size = 0 /\ fdOpen = TRUE
        /\ recorded = {} /\ dropped = {} /\ next = 1 /\ mu = "free" /\ sent = << >>
        /\ served = "no" /\ late = {} /\ rows = {} /\ faults = 0 /\ crashes = 0
    BY DEF Init, BufferInit
  <1>2. TypeOK  BY <1>1, DeliveryAssumption DEF TypeOK
  <1>3. GoodFile(file, next, recorded)  BY <1>1 DEF GoodFile
  <1> QED
    BY <1>1, <1>2, <1>3
    DEF IInv, Emitted, NothingLost, AckedPrefixStored, SentIsPrefix, SentStored,
        InOrder, LateClosed

\* Every step keeps the invariant and is one of the kinds Outbox knows.
LEMMA NextStep ==
    ASSUME IInv, Next
    PROVE  IInv' /\ DropStep /\ (PutStep \/ QuietStep \/ DeliverStep)
  <1>1. CASE \/ Observe \/ ObserveUnsynced \/ ObserveWriteFails
             \/ ObserveRotationFails \/ ObserveRefused \/ CrashInObserve
    BY <1>1, ObserveSteps
  <1>2. CASE FlushAck \/ FlushAckFails \/ FlushFails \/ Crash
    BY <1>2, ReleaseSteps DEF QuietStep, DropStep
  <1>3. CASE FlushStart  BY <1>3, FlushStartStep DEF QuietStep, DropStep
  <1>4. CASE IngestCommit \/ IngestReject \/ IngestLate
    BY <1>4, IngestSteps DEF DeliverStep, DropStep
  <1> QED  BY <1>1, <1>2, <1>3, <1>4 DEF Next

LEMMA StutterStep ==
    ASSUME IInv, UNCHANGED vars
    PROVE  IInv' /\ DropStep /\ QuietStep
  <1>1. UNCHANGED <<file, ackedOff, size, fdOpen, recorded, dropped, next, mu, sent,
                    served, late, rows, faults, crashes>>
    BY DEF vars, bufferVars, deliveryVars
  <1>2. IInv'
    <2>1. TypeOK'  BY <1>1 DEF IInv, TypeOK
    <2>2. GoodFile(file, next, recorded)'  BY <1>1 DEF IInv, GoodFile
    <2>3. Emitted'  BY <1>1 DEF IInv, Emitted
    <2>4. NothingLost'  BY <1>1 DEF IInv, NothingLost, Heartbeats
    <2>5. AckedPrefixStored'  BY <1>1 DEF IInv, AckedPrefixStored
    <2>6. SentIsPrefix'  BY <1>1 DEF IInv, SentIsPrefix
    <2>7. SentStored'  BY <1>1 DEF IInv, SentStored, Batch
    <2>8. InOrder'  BY <1>1 DEF IInv, InOrder
    <2>9. LateClosed'  BY <1>1 DEF IInv, LateClosed, Closed
    <2> QED  BY <2>1, <2>2, <2>3, <2>4, <2>5, <2>6, <2>7, <2>8, <2>9 DEF IInv
  <1> QED  BY <1>1, <1>2 DEF DropStep, QuietStep

\* The inductive invariant holds in every reachable state.
THEOREM Invariance == Spec => []IInv
  <1>1. IInv /\ [Next]_vars => IInv'  BY NextStep, StutterStep
  <1> QED  BY InitIInv, <1>1, PTL DEF Spec

\* Every variable of the pipeline keeps its type.
THEOREM TypeCorrect == Spec => []TypeOK
  <1>1. IInv => TypeOK  BY DEF IInv
  <1> QED  BY Invariance, <1>1, PTL

\* No recorded heartbeat disappears: it is stored, in the file, or an overflow
\* removed it.
THEOREM NoLoss == Spec => []NothingLost
  <1>1. IInv => NothingLost  BY DEF IInv
  <1> QED  BY Invariance, <1>1, PTL

\* The acked prefix of the buffer holds only lines the server has stored.
THEOREM AcksAreTrue == Spec => []AckedPrefixStored
  <1>1. IInv => AckedPrefixStored  BY DEF IInv
  <1> QED  BY Invariance, <1>1, PTL

\* The rows of a device never show a gap.
THEOREM NoGaps == Spec => []InOrder
  <1>1. IInv => InOrder  BY DEF IInv
  <1> QED  BY Invariance, <1>1, PTL

\* An overflow removes the oldest heartbeats only.
THEOREM OldestDroppedFirst == Spec => DropsOldestFirst
  <1>1. IInv /\ [Next]_vars => [DropStep]_vars  BY NextStep
  <1>2. DropStep
        <=> (\A d \in dropped' \ dropped : \A h \in recorded :
                h < d => h \in rows \cup dropped')
    BY DEF DropStep
  <1> QED  BY Invariance, <1>1, <1>2, PTL DEF Spec, DropsOldestFirst

\* The pipeline implements Outbox.
THEOREM Implements == Spec => ImplementsOutbox
  <1>1. Init => Promise!OutboxInit
    BY DEF Init, BufferInit, Promise!OutboxInit
  <1>2. ASSUME IInv, [Next]_vars
        PROVE  [Promise!OutboxNext]_(Promise!outboxVars)
    <2>1. CASE UNCHANGED vars
      BY <1>2, <2>1, StutterStep DEF QuietStep, Promise!outboxVars
    <2>2. CASE Next
      <3>1. DropStep /\ (PutStep \/ QuietStep \/ DeliverStep)  BY <1>2, <2>2, NextStep
      <3>2. CASE PutStep
        <4>1. \A k \in recorded : k < next
          BY <1>2 DEF IInv, TypeOK, Emitted
        <4>2. \A k \in rows : k < next
          BY <1>2 DEF IInv, TypeOK, Emitted
        <4>3. Promise!ClosedBelow(dropped' \ dropped)
          BY <3>1 DEF DropStep, Promise!ClosedBelow
        <4> QED  BY <3>2, <4>1, <4>2, <4>3 DEF PutStep, Promise!OutboxNext, Promise!Put
      <3>3. CASE QuietStep  BY <3>3 DEF QuietStep, Promise!outboxVars
      <3>4. CASE DeliverStep
        <4>1. PICK S \in SUBSET Heartbeat : rows' = rows \cup S /\ Closed(S)
          BY <3>4 DEF DeliverStep
        <4>2. recorded' = recorded /\ dropped' = dropped  BY <3>4 DEF DeliverStep
        <4>3. rows' \subseteq Heartbeat  BY <1>2, <4>1 DEF IInv, TypeOK
        <4>4. Promise!ClosedBelow(rows' \ rows)
          BY <4>1, <4>2 DEF Closed, Promise!ClosedBelow
        <4> QED
          BY <4>1, <4>2, <4>3, <4>4 DEF Promise!OutboxNext, Promise!Deliver
      <3> QED  BY <3>1, <3>2, <3>3, <3>4
    <2> QED  BY <1>2, <2>1, <2>2
  <1> QED
    BY <1>1, <1>2, Invariance, PTL DEF Spec, ImplementsOutbox, Promise!OutboxSpec

\* What Outbox allows is enough for a record without gaps: any delivery that keeps
\* its promise, not only this one, never has a heartbeat stored while an earlier
\* one is neither stored nor given up.
THEOREM PromiseHasNoGaps == Promise!OutboxSpec => []InOrder
  <1> DEFINE Stored == rows \subseteq Heartbeat
  <1> USE DEF InOrder
  <1>1. Promise!OutboxInit => InOrder /\ Stored
    BY DEF Promise!OutboxInit
  <1>2. ASSUME InOrder, Stored, [Promise!OutboxNext]_(Promise!outboxVars)
        PROVE  InOrder' /\ Stored'
    <2>1. CASE Promise!Put
      <3>1. PICK h \in Heartbeat : /\ \A k \in rows : k < h
                                   /\ recorded' \in {recorded, recorded \cup {h}}
        BY <2>1 DEF Promise!Put
      <3>2. rows' = rows /\ dropped \subseteq dropped'
        BY <2>1 DEF Promise!Put
      <3>3. \A k \in rows : ~(h < k)
        <4> TAKE k \in rows
        <4>1. h \in Int /\ k \in Int /\ k < h
          BY <1>2, <3>1 DEF Heartbeat
        <4> QED
          BY <4>1
      <3> QED
        BY <1>2, <3>1, <3>2, <3>3
    <2>2. CASE Promise!Deliver
      BY <1>2, <2>2 DEF Promise!Deliver, Promise!ClosedBelow
    <2>3. CASE UNCHANGED Promise!outboxVars
      BY <1>2, <2>3 DEF Promise!outboxVars
    <2> QED
      BY <1>2, <2>1, <2>2, <2>3 DEF Promise!OutboxNext
  <1> QED
    BY <1>1, <1>2, PTL DEF Promise!OutboxSpec

-----------------------------------------------------------------------------
(* The limit.                                                              *)

\* The whole lines of a file: a fragment is not counted, as the write that left
\* it returned an error.
Whole(f) == Len(f) - (IF TornTail(f) THEN 1 ELSE 0)

\* In a first run the size counts the whole lines, and the unacked ones are at
\* most one above the limit: what the rotation before each write relies on.
SizeCounts ==
    crashes = 0 /\ fdOpen => size = Whole(file) /\ size - ackedOff <= MaxUnacked + 1

\* A write adds a whole line, a write cut short none.
LEMMA WrittenWhole ==
    ASSUME NEW f \in Seq(Line), NEW n \in Heartbeat
    PROVE  Whole(WriteLine(f, n)) = Whole(f) + 1 /\ Whole(WriteFragment(f, n)) = Whole(f)
  <1>0. Len(f) \in Nat  OBVIOUS
  <1>1. CASE TornTail(f)
    <2>1. WriteLine(f, n) = [f EXCEPT ![Len(f)] = Mangled(n)] /\ WriteFragment(f, n) = f
      BY <1>1 DEF WriteLine, WriteFragment
    <2>2. Len(f) \in 1..Len(f)  BY <1>0, <1>1 DEF TornTail
    <2>3. Mangled(n) \in Line  BY DEF Mangled, Line
    <2>4. Len(WriteLine(f, n)) = Len(f) /\ WriteLine(f, n)[Len(f)] = Mangled(n)
      BY <1>0, <2>1, <2>2, <2>3
    <2>5. ~TornTail(WriteLine(f, n))  BY <2>4 DEF TornTail, Mangled
    <2> QED  BY <1>0, <1>1, <2>1, <2>4, <2>5 DEF Whole
  <1>2. CASE ~TornTail(f)
    <2>1. WriteLine(f, n) = Append(f, Entry(n)) /\ WriteFragment(f, n) = Append(f, Frag(n))
      BY <1>2 DEF WriteLine, WriteFragment
    <2>2. Entry(n) \in Line /\ Frag(n) \in Line  BY DEF Entry, Frag, Line
    <2>3. \A l \in Line : Len(Append(f, l)) = Len(f) + 1 /\ Append(f, l)[Len(f) + 1] = l
      BY <1>0
    <2>4. ~TornTail(WriteLine(f, n))  BY <1>0, <2>1, <2>2, <2>3 DEF TornTail, Entry
    <2>5. TornTail(WriteFragment(f, n))  BY <1>0, <2>1, <2>2, <2>3 DEF TornTail, Frag
    <2> QED  BY <1>0, <1>2, <2>1, <2>2, <2>3, <2>4, <2>5 DEF Whole
  <1> QED  BY <1>1, <1>2

\* A tail that parses is all whole, and then so is the end of its file.
LEMMA ParsedWhole ==
    ASSUME NEW f \in Seq(Line), NEW c \in 0..Len(f), Parses(SubSeq(f, c + 1, Len(f)))
    PROVE  LET g == SubSeq(f, c + 1, Len(f))
           IN  /\ Len(g) = Len(f) - c /\ Whole(g) = Len(g)
               /\ c < Len(f) => Whole(f) = Len(f)
  <1> DEFINE g == SubSeq(f, c + 1, Len(f))
  <1>0. Len(f) \in Nat /\ c \in Nat  OBVIOUS
  <1>1. Len(g) = Len(f) - c /\ \A i \in 1..Len(g) : g[i] = f[c + i]  BY <1>0
  <1>2. \A i \in 1..Len(g) : g[i].st = "ok"  BY DEF Parses
  <1> HIDE DEF g
  <1>3. Whole(g) = Len(g)  BY <1>0, <1>1, <1>2 DEF Whole, TornTail
  <1>4. ASSUME c < Len(f) PROVE Whole(f) = Len(f)
    <2>1. Len(g) \in 1..Len(g) /\ c + Len(g) = Len(f)  BY <1>0, <1>1, <1>4
    <2>2. f[Len(f)].st = "ok"  BY <1>1, <1>2, <2>1
    <2> QED  BY <1>0, <2>2 DEF Whole, TornTail
  <1> QED  BY <1>1, <1>3, <1>4 DEF g

\* After the rotation there is room for a line.
LEMMA BaseCounts ==
    ASSUME IInv, SizeCounts, crashes = 0, fdOpen, RotationPossible, MaxUnacked # 0
    PROVE  /\ BaseFile \in Seq(Line)
           /\ BaseSize = Whole(BaseFile) /\ BaseSize \in Int /\ BaseOff \in Int
           /\ BaseSize - BaseOff <= MaxUnacked
  <1>0. /\ file \in Seq(Line) /\ Len(file) \in Nat /\ ackedOff \in 0..Len(file)
        /\ size \in Nat /\ MaxUnacked \in Nat \ {0}
        /\ size = Whole(file) /\ size - ackedOff <= MaxUnacked + 1
    BY FileFacts, BufferAssumption DEF IInv, TypeOK, AckedPrefixStored, SizeCounts
  <1>1. CASE ~Overfull
    <2>1. BaseFile = file /\ BaseOff = ackedOff /\ BaseSize = size
      BY <1>1 DEF BaseFile, BaseOff, BaseSize
    <2> QED  BY <1>0, <1>1, <2>1 DEF Overfull
  <1>2. CASE Overfull
    <2>1. /\ BaseFile = Rotated /\ BaseOff = 0 /\ BaseSize = Len(Rotated)
          /\ Parses(AllUnacked)
      BY <1>2 DEF BaseFile, BaseOff, BaseSize, RewrittenOff, RewrittenSize, RotationPossible
    <2>2. ackedOff < Len(file)  BY <1>0, <1>2 DEF Overfull, Whole
    <2>3. Len(AllUnacked) = Len(file) - ackedOff /\ Whole(file) = Len(file)
      BY <1>0, <2>1, <2>2, ParsedWhole DEF AllUnacked
    <2>4. Len(AllUnacked) = MaxUnacked + 1
      BY <1>0, <1>2, <2>3 DEF Overfull
    <2>5. /\ RotationCut \in 0..Len(file) /\ RotationCut >= ackedOff
          /\ Len(file) - RotationCut <= MaxUnacked
      BY <1>0, <2>3, <2>4 DEF RotationCut
    <2>6. Parses(Rotated)
      <3> DEFINE u == AllUnacked
      <3>1. \A i \in 1..Len(u) : u[i] = file[ackedOff + i] /\ u[i].st = "ok"
        BY <1>0, <2>1, <2>3 DEF AllUnacked, Parses
      <3>2. /\ Len(Rotated) = Len(file) - RotationCut
            /\ \A i \in 1..Len(Rotated) : Rotated[i] = file[RotationCut + i]
        BY <1>0, <2>5 DEF Rotated
      <3>3. ASSUME NEW i \in 1..Len(Rotated) PROVE Rotated[i].st = "ok"
        <4>1. /\ RotationCut + i - ackedOff \in 1..Len(u)
              /\ ackedOff + (RotationCut + i - ackedOff) = RotationCut + i
          BY <1>0, <2>3, <2>5, <3>2
        <4> QED  BY <3>1, <3>2, <4>1
      <3> QED  BY <3>3 DEF Parses
    <2>7. Len(Rotated) = Len(file) - RotationCut /\ Whole(Rotated) = Len(Rotated)
      BY <1>0, <2>5, <2>6, ParsedWhole DEF Rotated
    <2>8. Rotated \in Seq(Line)  BY <1>0, <2>5 DEF Rotated
    <2> QED  BY <1>0, <2>1, <2>5, <2>7, <2>8
  <1> QED  BY <1>1, <1>2

\* An ack, compacting or not, keeps the count.
LEMMA AckCounts ==
    ASSUME IInv, SizeCounts, mu = "flush",
           AckOK(Len(sent)) \/ AckRewriteFails(Len(sent)), crashes' = crashes
    PROVE  SizeCounts'
  <1> SUFFICES ASSUME crashes = 0, fdOpen' = TRUE
               PROVE  size' = Whole(file)' /\ size' - ackedOff' <= MaxUnacked + 1
    BY DEF SizeCounts, AckOK, AckRewriteFails, RewriteFails, IInv, TypeOK
  <1> DEFINE off == ackedOff + Len(sent)
             rest == SubSeq(file, off + 1, Len(file))
  <1>0. /\ fdOpen /\ file \in Seq(Line) /\ Len(file) \in Nat /\ Len(sent) \in Nat
        /\ ackedOff \in Nat /\ off \in 0..Len(file) /\ size \in Nat /\ MaxUnacked \in Nat
    BY FileFacts, BufferAssumption DEF IInv, TypeOK, SentIsPrefix
  <1>1. size = Whole(file) /\ size - ackedOff <= MaxUnacked + 1
    BY <1>0 DEF SizeCounts
  <1>2. \/ file' = rest /\ ackedOff' = 0 /\ size' = Len(rest) /\ Parses(rest)
        \/ ackedOff' = off /\ file' = file /\ size' = size
    BY DEF AckOK, AckRewriteFails, RewriteFails, RewrittenOff, RewrittenSize
  <1>3. CASE file' = rest /\ ackedOff' = 0 /\ size' = Len(rest) /\ Parses(rest)
    <2>1. Len(rest) = Len(file) - off /\ Whole(rest) = Len(rest)
          /\ (off < Len(file) => Whole(file) = Len(file))
      BY <1>0, <1>3, ParsedWhole
    <2>2. Whole(file)' = Whole(rest)  BY <1>3 DEF Whole, TornTail
    <2> HIDE DEF rest
    <2>3. Len(rest) <= MaxUnacked + 1  BY <1>0, <1>1, <2>1
    <2> QED  BY <1>0, <1>3, <2>1, <2>2, <2>3
  <1>4. CASE ackedOff' = off /\ file' = file /\ size' = size
    BY <1>0, <1>1, <1>4 DEF Whole, TornTail
  <1> QED  BY <1>2, <1>3, <1>4

\* Appends keep it, whatever the file system does.
LEMMA AppendCounts ==
    ASSUME IInv, SizeCounts, MaxUnacked # 0, next <= MaxHeartbeats, crashes' = crashes,
           \/ AppendOK(next) \/ AppendSyncFails(next) \/ AppendWriteFails(next)
           \/ AppendRotationFails \/ AppendRefused
    PROVE  SizeCounts'
  <1>0. next \in Heartbeat  BY DEF IInv, TypeOK, Heartbeat
  <1>1. CASE AppendOK(next) \/ AppendSyncFails(next)
    <2> SUFFICES ASSUME crashes = 0
                 PROVE  size' = Whole(file)' /\ size' - ackedOff' <= MaxUnacked + 1
      BY DEF SizeCounts
    <2>1. /\ fdOpen /\ RotationPossible /\ file' = WriteLine(BaseFile, next)
          /\ ackedOff' = BaseOff /\ size' = BaseSize + 1
      BY <1>1 DEF AppendOK, AppendSyncFails, AppendWrites
    <2>2. Whole(file)' = Whole(WriteLine(BaseFile, next))  BY <2>1 DEF Whole, TornTail
    <2>3. MaxUnacked \in Nat  BY BufferAssumption
    <2> QED  BY <1>0, <2>1, <2>2, <2>3, BaseCounts, WrittenWhole
  <1>2. CASE AppendWriteFails(next)
    <2> SUFFICES ASSUME crashes = 0
                 PROVE  size' = Whole(file)' /\ size' - ackedOff' <= MaxUnacked + 1
      BY DEF SizeCounts
    <2>1. /\ fdOpen /\ RotationPossible
          /\ file' = BaseFile \/ file' = WriteFragment(BaseFile, next)
          /\ ackedOff' = BaseOff /\ size' = BaseSize
      BY <1>2 DEF AppendWriteFails
    <2>2. Whole(file)' = Whole(BaseFile)
      <3>1. CASE file' = BaseFile  BY <3>1 DEF Whole, TornTail
      <3>2. CASE file' = WriteFragment(BaseFile, next)
        <4>1. Whole(file)' = Whole(WriteFragment(BaseFile, next))
          BY <3>2 DEF Whole, TornTail
        <4> QED  BY <1>0, <2>1, <4>1, BaseCounts, WrittenWhole
      <3> QED  BY <2>1, <3>1, <3>2
    <2>3. MaxUnacked \in Nat  BY BufferAssumption
    <2> QED  BY <2>1, <2>2, <2>3, BaseCounts
  <1>3. CASE AppendRotationFails
    BY <1>3 DEF AppendRotationFails, RewriteFails, SizeCounts, Whole, TornTail
  <1>4. CASE AppendRefused
    BY <1>4 DEF AppendRefused, bufferVars, SizeCounts, Whole, TornTail
  <1> QED  BY <1>1, <1>2, <1>3, <1>4

LEMMA CountsInit == Init => SizeCounts
  BY BufferAssumption DEF Init, BufferInit, SizeCounts, Whole, TornTail

LEMMA CountsNext ==
    ASSUME MaxUnacked # 0
    PROVE  IInv /\ SizeCounts /\ [Next]_vars => SizeCounts'
  <1> SUFFICES ASSUME IInv, SizeCounts, [Next]_vars PROVE SizeCounts'
    OBVIOUS
  <1>1. CASE Observe \/ ObserveUnsynced \/ ObserveWriteFails \/ ObserveRotationFails
             \/ ObserveRefused
    BY <1>1, AppendCounts
       DEF Observe, ObserveUnsynced, ObserveWriteFails, ObserveRotationFails, ObserveRefused,
           ObserveStep
  <1>2. CASE FlushAck \/ FlushAckFails
    BY <1>2, AckCounts DEF FlushAck, FlushAckFails, FlushEnds
  <1>3. CASE FlushStart \/ FlushFails \/ IngestCommit \/ IngestReject \/ IngestLate
             \/ UNCHANGED vars
    BY <1>3 DEF FlushStart, FlushFails, IngestCommit, IngestReject, IngestLate, vars,
                deliveryVars, bufferVars, SizeCounts, Whole, TornTail
  <1>4. CASE Crash \/ CrashInObserve
    BY <1>4 DEF Crash, CrashInObserve, Restarts, SizeCounts, IInv, TypeOK
  <1> QED  BY <1>1, <1>2, <1>3, <1>4 DEF Next

\* A process that starts with an empty buffer keeps to its limit, whatever the file
\* system does, when the limit holds a line at least: a rotation of a single
\* line keeps it (rotateIfFull buffer.go:164).
THEOREM FirstRunKeepsCap ==
    ASSUME MaxUnacked # 0
    PROVE  Spec => []CapInFirstRun
  <1>1. IInv /\ SizeCounts => CapInFirstRun
    <2> SUFFICES ASSUME IInv, SizeCounts, crashes = 0, fdOpen
                 PROVE  UnackedLines <= MaxUnacked + 1
      BY DEF CapInFirstRun, CapHolds
    <2>1. /\ Len(file) \in Nat /\ ackedOff \in 0..Len(file) /\ file \in Seq(Line)
      BY FileFacts DEF IInv, TypeOK, AckedPrefixStored
    <2>2. Len(AllUnacked) = Len(file) - ackedOff  BY <2>1 DEF AllUnacked
    <2> QED  BY <2>1, <2>2 DEF SizeCounts, UnackedLines, Whole
  <1>2. IInv /\ SizeCounts /\ [Next]_vars => SizeCounts'  BY CountsNext
  <1> QED  BY <1>1, <1>2, CountsInit, Invariance, PTL DEF Spec
=============================================================================
