------------------------------ MODULE Delivery ------------------------------
(***************************************************************************)
(* From a heartbeat to a row: the agent's sampling goroutine                *)
(* (Agent.Observe), its shipping goroutine (shipLoop, Shipper.Flush), the   *)
(* buffer they share under Agent.mu, the network, and the server's          *)
(* POST /v1/ingest (IngestHandler, Store.InsertHeartbeats).                 *)
(*                                                                         *)
(* Heartbeats are numbered in the order the builder emits them; the number  *)
(* stands for the UUID and the payload.  One device, not deleted.  A        *)
(* request whose answer the agent no longer waits for (timeout, broken      *)
(* connection, agent restart) may still be served, at any later time.       *)
(***************************************************************************)
EXTENDS Buffer

CONSTANTS MaxHeartbeats,  \* bound: heartbeats of a run
          BatchLimit,     \* batchLimit of shipper.go
          MaxFaults,      \* bound: file-system faults of a run
          MaxCrashes      \* bound: agent restarts of a run

ASSUME DeliveryAssumption ==
    /\ MaxHeartbeats \in Nat
    /\ BatchLimit \in Nat \ {0}
    /\ MaxFaults \in Nat
    /\ MaxCrashes \in Nat

Heartbeat == 1..MaxHeartbeats

VARIABLES next,     \* the next heartbeat the builder emits
          mu,       \* Agent.mu: "free", or "flush" across Flush's round trip
          sent,     \* the batch of the request in flight, in file order
          served,   \* its fate at the server: "no" yet, "ok" or "err"
          late,     \* batches of abandoned requests not yet served
          rows,     \* the heartbeats table
          faults,   \* file-system faults so far
          crashes   \* agent restarts so far

deliveryVars == <<next, mu, sent, served, late, rows, faults, crashes>>
vars == <<bufferVars, deliveryVars>>

Batch == {sent[i] : i \in 1..Len(sent)}

Init ==
    /\ BufferInit
    /\ next = 1
    /\ mu = "free"
    /\ sent = << >>
    /\ served = "no"
    /\ late = {}
    /\ rows = {}
    /\ faults = 0
    /\ crashes = 0

Faulty == faults < MaxFaults /\ faults' = faults + 1

-----------------------------------------------------------------------------
(* The sampling goroutine: Observe emits a heartbeat, takes mu, appends.    *)
(* An append that fails is only logged: the heartbeat is gone.              *)

\* Mutated form: the append does not take the mutex.
ObserveUnlocked ==
    /\ next <= MaxHeartbeats
    /\ next' = next + 1
    /\ UNCHANGED <<mu, sent, served, late, rows, crashes>>

ObserveStep ==
    /\ mu = "free"
    /\ next <= MaxHeartbeats
    /\ next' = next + 1
    /\ UNCHANGED <<mu, sent, served, late, rows, crashes>>

Observe == ObserveStep /\ AppendOK(next) /\ UNCHANGED faults

ObserveUnsynced == ObserveStep /\ AppendSyncFails(next) /\ Faulty

ObserveWriteFails == ObserveStep /\ AppendWriteFails(next) /\ Faulty

ObserveRotationFails == ObserveStep /\ AppendRotationFails /\ Faulty

ObserveRefused == ObserveStep /\ AppendRefused /\ UNCHANGED faults

-----------------------------------------------------------------------------
(* The shipping goroutine.                                                 *)

\* Flush takes mu, reads a batch and posts it.  When the batch is empty, does
\* not parse or the descriptor is closed it returns at once and changes nothing.
FlushStart ==
    /\ mu = "free"
    /\ fdOpen
    /\ Unacked(BatchLimit) # << >>
    /\ Parses(Unacked(BatchLimit))
    /\ mu' = "flush"
    /\ sent' = [i \in 1..Len(Unacked(BatchLimit)) |-> Unacked(BatchLimit)[i].hb]
    /\ served' = "no"
    /\ UNCHANGED <<bufferVars, next, late, rows, faults, crashes>>

FlushEnds ==
    /\ mu = "flush"
    /\ mu' = "free"
    /\ sent' = << >>
    /\ served' = "no"

\* Mutated form: whatever the status, the batch is acked.
FlushAckAnyStatus ==
    /\ served # "no"
    /\ FlushEnds
    /\ AckOK(Len(sent))
    /\ UNCHANGED <<next, late, rows, faults, crashes>>

\* Status 200 arrived: Ack.
FlushAck ==
    /\ served = "ok"
    /\ FlushEnds
    /\ AckOK(Len(sent))
    /\ UNCHANGED <<next, late, rows, faults, crashes>>

FlushAckFails ==
    /\ served = "ok"
    /\ FlushEnds
    /\ AckRewriteFails(Len(sent))
    /\ Faulty
    /\ UNCHANGED <<next, late, rows, crashes>>

\* The request the agent stops waiting for is late when the server has not
\* served it yet.
Abandoned ==
    IF mu = "flush" /\ served = "no" THEN late \cup {Batch} ELSE late

\* Any other answer, the client timeout, or a lost request or response.
FlushFails ==
    /\ FlushEnds
    /\ late' = Abandoned
    /\ UNCHANGED <<bufferVars, next, rows, faults, crashes>>

-----------------------------------------------------------------------------
(* The server.  The batch is one transaction of INSERT OR IGNORE.           *)

IngestCommit ==
    /\ mu = "flush" /\ served = "no"
    /\ served' = "ok"
    /\ rows' = rows \cup Batch
    /\ UNCHANGED <<bufferVars, next, mu, sent, late, faults, crashes>>

\* Any status but 200, with the transaction rolled back or never begun.
IngestReject ==
    /\ mu = "flush" /\ served = "no"
    /\ served' = "err"
    /\ UNCHANGED <<bufferVars, next, mu, sent, late, rows, faults, crashes>>

\* A late batch is served, or rejected or lost.
IngestLate ==
    \E batch \in late :
        /\ late' = late \ {batch}
        /\ rows' \in {rows, rows \cup batch}
        /\ UNCHANGED <<bufferVars, next, mu, sent, served, faults, crashes>>

-----------------------------------------------------------------------------
(* The agent process dies and is started again: New, then Run.             *)

Restarts ==
    /\ crashes < MaxCrashes
    /\ crashes' = crashes + 1
    /\ mu' = "free"
    /\ sent' = << >>
    /\ served' = "no"
    /\ late' = Abandoned
    /\ UNCHANGED <<rows, faults>>

Crash == Restarts /\ Reopen /\ UNCHANGED next

CrashInObserve ==
    /\ mu = "free"
    /\ next <= MaxHeartbeats
    /\ Restarts
    /\ ReopenAfterAppend(next)
    /\ next' = next + 1

-----------------------------------------------------------------------------
Next ==
    \/ Observe
    \/ ObserveUnsynced
    \/ ObserveWriteFails
    \/ ObserveRotationFails
    \/ ObserveRefused
    \/ FlushStart
    \/ FlushAck
    \/ FlushAckFails
    \/ FlushFails
    \/ IngestCommit
    \/ IngestReject
    \/ IngestLate
    \/ Crash
    \/ CrashInObserve

Spec == Init /\ [][Next]_vars

\* shipLoop retries for ever, at most five minutes apart, and the client
\* timeout ends every attempt; a server reached infinitely often answers
\* infinitely often and its answers get through.  Faults, crashes, rejections
\* and further heartbeats are not forced.
Fairness ==
    /\ WF_vars(FlushStart)
    /\ WF_vars(FlushFails)
    /\ SF_vars(IngestCommit)
    /\ SF_vars(FlushAck)

FairSpec == Spec /\ Fairness

-----------------------------------------------------------------------------
(* Safety.                                                                 *)

\* Every variable keeps its type.
TypeOK ==
    /\ file \in Seq([hb : Heartbeat, st : {"ok", "frag", "bad"}])
    /\ ackedOff \in Nat
    /\ size \in Nat
    /\ fdOpen \in BOOLEAN
    /\ recorded \subseteq Heartbeat
    /\ dropped \subseteq Heartbeat
    /\ next \in 1..MaxHeartbeats + 1
    /\ mu \in {"free", "flush"}
    /\ sent \in Seq(Heartbeat)
    /\ served \in {"no", "ok", "err"}
    /\ late \subseteq SUBSET Heartbeat
    /\ rows \subseteq Heartbeat
    /\ faults \in 0..MaxFaults
    /\ crashes \in 0..MaxCrashes

\* A heartbeat whose Append succeeded is on the server, in the file, or was
\* removed by an overflow: no ack, compaction, rotation, timeout or restart
\* takes it out of the file early (Append buffer.go:37, Ack :74, rewrite :110).
NothingLost == recorded \subseteq rows \cup dropped \cup Heartbeats(file)

\* While the descriptor is good, the acked prefix holds only lines the server
\* has stored, and lies within the file: Ack's count, computed before the
\* round trip, still names the lines that were sent (shipper.go:76).
AckedPrefixStored ==
    fdOpen => /\ ackedOff <= Len(file)
              /\ \A i \in 1..ackedOff : file[i].st = "ok" /\ file[i].hb \in rows

\* The server never shows a gap: when it has a heartbeat, it has every earlier
\* one the agent recorded, but for those an overflow removed -- whatever late
\* requests and restarts do (Unacked buffer.go:53, rotateIfFull :155).
InOrder ==
    \A k \in rows : \A h \in recorded : h < k => h \in rows \cup dropped

\* The whole lines not yet acked.
UnackedLines == Len(AllUnacked) - (IF TornTail(file) THEN 1 ELSE 0)

\* The limit on unacked data: at most one whole line above it
\* (Append buffer.go:35-36).
CapHolds == fdOpen => UnackedLines <= MaxUnacked + 1

\* What holds of it: a process that starts with an empty buffer keeps to the
\* limit, whatever its calls to the file system do (rotateIfFull buffer.go:156).
CapInFirstRun == crashes = 0 => CapHolds

\* Whatever was recorded and not removed by an overflow is on the server or in
\* a line that parses, so a later flush can still ship it.
Shippable ==
    \A h \in recorded : \/ h \in rows \cup dropped
                        \/ \E i \in 1..Len(file) : file[i] = Entry(h)

\* An overflow removes heartbeats only from the old end: every recorded
\* heartbeat older than one it removes is stored or removed too
\* (rotateIfFull buffer.go:164).
DropsOldestFirst ==
    [][\A d \in dropped' \ dropped : \A h \in recorded :
          h < d => h \in rows \cup dropped']_vars

-----------------------------------------------------------------------------
(* Refinement.                                                             *)

Promise == INSTANCE Outbox WITH promised <- recorded,
                                stored   <- rows,
                                pruned   <- dropped

\* The pipeline implements an outbox that gives up only its old end, when it
\* accepts, and stores the rest in order, whatever the network, the file
\* system and restarts do.
ImplementsOutbox == Promise!OutboxSpec

-----------------------------------------------------------------------------
(* Liveness.                                                               *)

\* Every recorded heartbeat is eventually stored, unless an overflow removes
\* it: refused, lost and late requests and restarts only delay it.
Drains ==
    \A h \in Heartbeat : h \in recorded ~> h \in rows \cup dropped
=============================================================================
