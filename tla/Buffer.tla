------------------------------- MODULE Buffer -------------------------------
(***************************************************************************)
(* The agent's on-disk outbox: an append-only JSONL file with an acked     *)
(* prefix (src/internal/agent/buffer.go).                                  *)
(*                                                                         *)
(* A line is one heartbeat and has length 1: offsets and sizes, bytes in   *)
(* the code, count lines here.  A fragment is a last line whose write was  *)
(* cut short.  A write cut exactly between the JSON text and its newline   *)
(* parses like the whole line and is folded into the whole line.           *)
(*                                                                         *)
(* Every operation runs under Agent.mu, so each is one step; the error     *)
(* returns are outcomes of that step, each allowed by a member of Faults.  *)
(***************************************************************************)
EXTENDS Integers, Sequences

\* What the file system may do to a call: refuse or cut short a write to the
\* buffer, fail its fsync, fail before the rename of a rewrite, fail at the
\* rename, fail at the reopen; and leave a fragment when a write is cut short.
FaultKinds == {"write", "sync", "tmp", "rename", "reopen", "torn"}

CONSTANTS MaxUnacked,   \* Config.MaxBufferBytes, in lines
          Faults        \* the file-system faults that may happen

ASSUME BufferAssumption == MaxUnacked \in Nat /\ Faults \subseteq FaultKinds

VARIABLES file,       \* the lines on disk
          ackedOff,   \* Buffer.ackedOff
          size,       \* Buffer.size
          fdOpen,     \* Buffer.f is an open descriptor
          recorded,   \* history: heartbeats whose Append returned nil
          dropped     \* history: heartbeats an overflow removed

bufferVars == <<file, ackedOff, size, fdOpen, recorded, dropped>>

-----------------------------------------------------------------------------
(* Lines and sequences of lines.                                           *)

Entry(h) == [hb |-> h, st |-> "ok"]        \* one JSON line
Frag(h)  == [hb |-> h, st |-> "frag"]      \* the start of h's line, no newline
Mangled(h) == [hb |-> h, st |-> "bad"]     \* a fragment and h's line, run together

Heartbeats(lines) == {lines[i].hb : i \in 1..Len(lines)}

\* json.Unmarshal accepts every line.
Parses(lines) == \A i \in 1..Len(lines) : lines[i].st = "ok"

TornTail(lines) == Len(lines) > 0 /\ lines[Len(lines)].st = "frag"

\* O_APPEND: the bytes go to EOF, which need not be the start of a line.
WriteLine(lines, h) ==
    IF TornTail(lines)
    THEN [lines EXCEPT ![Len(lines)] = Mangled(h)]
    ELSE Append(lines, Entry(h))

WriteFragment(lines, h) ==
    IF TornTail(lines) THEN lines ELSE Append(lines, Frag(h))

-----------------------------------------------------------------------------
(* Reading.                                                                *)

\* Mutated forms: the scan starts one line late; it reads the newest lines.
UnackedOffByOne(limit) ==
    SubSeq(file, ackedOff + 2,
           IF ackedOff + limit < Len(file) THEN ackedOff + limit ELSE Len(file))
UnackedNewest(limit) ==
    SubSeq(file, IF Len(file) - limit > ackedOff THEN Len(file) - limit + 1 ELSE ackedOff + 1,
           Len(file))

\* The lines Unacked(limit) scans; it returns them if they parse.
Unacked(limit) ==
    SubSeq(file, ackedOff + 1,
           IF ackedOff + limit < Len(file) THEN ackedOff + limit ELSE Len(file))

AllUnacked == SubSeq(file, ackedOff + 1, Len(file))

-----------------------------------------------------------------------------
(* rewrite(entries) when it succeeds: the file holds the entries, and the   *)
(* offsets start afresh.                                                   *)

\* Mutated forms: the size is adjusted instead of counted; the offset stays.
RewrittenSizeAdjusted(entries) == size - (Len(file) - Len(entries))
RewrittenOffKept(off) == off

RewrittenSize(entries) == Len(entries)
RewrittenOff(off) == 0

-----------------------------------------------------------------------------
(* Rotation: before each write, when size - ackedOff exceeds the limit.    *)

\* Mutated form: off by one.
OverfullLate == size - ackedOff > MaxUnacked + 1

Overfull == size - ackedOff > MaxUnacked

\* The last line of the older half of the unacked lines.
RotationCut == ackedOff + Len(AllUnacked) \div 2

\* Mutated form: the newer half is dropped.
RotatedKeepsOld == SubSeq(file, ackedOff + 1, Len(file) - Len(AllUnacked) \div 2)

Rotated     == SubSeq(file, RotationCut + 1, Len(file))
RotatedAway == Heartbeats(AllUnacked) \ Heartbeats(Rotated)

RotationPossible == Overfull => Parses(AllUnacked)

\* The buffer after a rotateIfFull that returned nil.
BaseFile == IF Overfull THEN Rotated ELSE file
BaseOff  == IF Overfull THEN RewrittenOff(ackedOff) ELSE ackedOff
BaseSize == IF Overfull THEN RewrittenSize(Rotated) ELSE size
BaseDrop == IF Overfull THEN dropped \cup RotatedAway ELSE dropped

-----------------------------------------------------------------------------
(* rewrite(entries) that fails, the acked offset being off at the call and  *)
(* lost the heartbeats the caller leaves out.  Once the descriptor is       *)
(* closed nothing reopens it before the process restarts.                   *)
RewriteFails(entries, off, lost) ==
    /\ ackedOff' = off
    /\ UNCHANGED <<size, recorded>>
    /\ \/ "tmp" \in Faults /\ UNCHANGED <<file, fdOpen, dropped>>
       \/ "rename" \in Faults /\ fdOpen' = FALSE /\ UNCHANGED <<file, dropped>>
       \/ /\ "reopen" \in Faults
          /\ file' = entries
          /\ fdOpen' = FALSE
          /\ dropped' = dropped \cup lost

-----------------------------------------------------------------------------
(* Append(h), by outcome.                                                  *)

AppendWrites(h) ==
    /\ fdOpen /\ RotationPossible
    /\ file' = WriteLine(BaseFile, h)
    /\ ackedOff' = BaseOff
    /\ size' = BaseSize + 1
    /\ dropped' = BaseDrop
    /\ UNCHANGED fdOpen

AppendOK(h) == AppendWrites(h) /\ recorded' = recorded \cup {h}

AppendSyncFails(h) ==
    "sync" \in Faults /\ AppendWrites(h) /\ UNCHANGED recorded

AppendWriteFails(h) ==
    /\ "write" \in Faults
    /\ fdOpen /\ RotationPossible
    /\ \/ file' = BaseFile
       \/ "torn" \in Faults /\ file' = WriteFragment(BaseFile, h)
    /\ ackedOff' = BaseOff
    /\ size' = BaseSize
    /\ dropped' = BaseDrop
    /\ UNCHANGED <<fdOpen, recorded>>

AppendRotationFails ==
    /\ fdOpen /\ Overfull /\ Parses(AllUnacked)
    /\ RewriteFails(Rotated, ackedOff, RotatedAway)

\* The descriptor is closed, or the lines to rotate do not parse.
AppendRefused ==
    /\ ~fdOpen \/ ~RotationPossible
    /\ UNCHANGED bufferVars

-----------------------------------------------------------------------------
(* Ack(count), by outcome.  The offset moves before compact runs.          *)

CompactionDue(off) == off * 2 >= size

AckOK(count) ==
    LET off  == ackedOff + count
        rest == SubSeq(file, off + 1, Len(file))
    IN  /\ IF CompactionDue(off) /\ Parses(rest)
           THEN file' = rest /\ ackedOff' = RewrittenOff(off) /\ size' = RewrittenSize(rest)
           ELSE ackedOff' = off /\ UNCHANGED <<file, size>>
        /\ UNCHANGED <<fdOpen, recorded, dropped>>

AckRewriteFails(count) ==
    LET off  == ackedOff + count
        rest == SubSeq(file, off + 1, Len(file))
    IN  /\ CompactionDue(off) /\ Parses(rest)
        /\ RewriteFails(rest, off, {})

-----------------------------------------------------------------------------
(* OpenBuffer, at the first start and after a crash: the offsets start at 0.*)

Opened(lines) == file' = lines /\ ackedOff' = 0 /\ size' = 0 /\ fdOpen' = TRUE

Reopen == Opened(file) /\ UNCHANGED <<recorded, dropped>>

\* The process dies inside Append(h): before or after the rotation's rename,
\* in the middle of the write, or after it.
ReopenAfterAppend(h) ==
    /\ fdOpen /\ RotationPossible
    /\ \/ Opened(file) /\ UNCHANGED dropped
       \/ Opened(BaseFile) /\ dropped' = BaseDrop
       \/ Opened(WriteLine(BaseFile, h)) /\ dropped' = BaseDrop
       \/ /\ "torn" \in Faults
          /\ Opened(WriteFragment(BaseFile, h))
          /\ dropped' = BaseDrop
    /\ UNCHANGED recorded

BufferInit ==
    /\ file = << >>
    /\ ackedOff = 0
    /\ size = 0
    /\ fdOpen = TRUE
    /\ recorded = {}
    /\ dropped = {}
=============================================================================
