------------------------------ MODULE Sampling ------------------------------
(***************************************************************************)
(* From the watcher's sample to the recorded heartbeat, in time: the samples *)
(* channel of composeServiceRun (service_windows.go), the HeartbeatBuilder   *)
(* (heartbeat.go), Agent.Observe waiting for the mutex that shipLoop holds   *)
(* across a flush (agent.go), and the shipper's intervals (shipper.go).      *)
(*                                                                         *)
(* Time is in whole seconds.  Only waiting takes time: the consumer and the  *)
(* pipe's reader are prompt, and a flush lasts what its HTTP request does.   *)
(* One watcher is attached and samples every second.                         *)
(***************************************************************************)
EXTENDS Naturals, Sequences

CONSTANTS Reading,        \* the (app, active) pairs a watcher can see
          None,
          KeepAlive,      \* DefaultKeepAlive
          MaxGap,         \* protocol.MaxHeartbeatGap
          HTTPTimeout,    \* defaultHTTPTimeout
          FlushInterval,  \* HealthyFlushInterval
          BackoffSteps,
          Capacity,       \* of the samples channel
          Horizon         \* bound: seconds of a run

ASSUME SamplingAssumption ==
    /\ None \notin Reading
    /\ KeepAlive \in Nat \ {0} /\ HTTPTimeout \in Nat \ {0}
    /\ MaxGap \in Nat /\ KeepAlive <= MaxGap /\ HTTPTimeout <= MaxGap
    /\ Capacity \in Nat /\ HTTPTimeout + 1 < Capacity
    /\ FlushInterval \in Nat \ {0} /\ BackoffSteps \in Seq(Nat \ {0}) /\ BackoffSteps # <<>>
    /\ Horizon \in Nat

VARIABLES
    now,
    sampled,     \* the watcher has sampled in this second
    samples,     \* the channel
    cur,         \* builder.curApp and curActive, None before the first reading
    lastEmit,    \* builder.lastEmit
    waiting,     \* Observe holds a heartbeat and waits for the mutex
    flushing,    \* shipLoop holds the mutex
    since,       \* when it took it
    nextFlush,   \* when the ship timer fires
    failures     \* Shipper.failures

Sample == [reading : Reading, at : 0..Horizon]

consumerVars == <<cur, lastEmit, waiting>>
shipVars == <<flushing, since, nextFlush, failures>>
vars == <<now, sampled, samples, consumerVars, shipVars>>

Init ==
    /\ now = 0 /\ sampled = FALSE
    /\ samples = <<>>
    /\ cur = None /\ lastEmit = 0 /\ waiting = FALSE
    /\ flushing = FALSE /\ since = 0 /\ nextFlush = FlushInterval /\ failures = 0

-----------------------------------------------------------------------------
Room == Len(samples) < Capacity

\* The watcher writes a sample; the pipe's reader publishes it or drops it.
Publish ==
    /\ ~sampled
    /\ sampled' = TRUE
    /\ \E r \in Reading :
          samples' = IF Room THEN Append(samples, [reading |-> r, at |-> now]) ELSE samples
    /\ UNCHANGED <<now, consumerVars, shipVars>>

\* Mutated form: no keep-alive.
DueOnChange(r) == r # cur

Due(r) == r # cur \/ now - lastEmit >= KeepAlive

\* Mutated form: the builder keeps the time the next keep-alive is due.
StampNext == now + KeepAlive

\* A heartbeat is stamped when its sample is consumed.
Stamp == now

Ready == ~waiting /\ samples # <<>>

\* RunSamples takes a sample: a heartbeat that is due waits for the mutex.
Consume ==
    /\ Ready
    /\ samples' = Tail(samples)
    /\ IF Due(Head(samples).reading)
       THEN cur' = Head(samples).reading /\ lastEmit' = Stamp /\ waiting' = TRUE
       ELSE UNCHANGED consumerVars
    /\ UNCHANGED <<now, sampled, shipVars>>

\* The mutex is free: the heartbeat goes to the buffer.
Record ==
    /\ waiting
    /\ ~flushing
    /\ waiting' = FALSE
    /\ UNCHANGED <<now, sampled, samples, cur, lastEmit, shipVars>>

FlushStart ==
    /\ ~flushing
    /\ nextFlush <= now
    /\ flushing' = TRUE
    /\ since' = now
    /\ UNCHANGED <<now, sampled, samples, consumerVars, nextFlush, failures>>

Backoff ==
    BackoffSteps[IF failures < Len(BackoffSteps) THEN failures + 1 ELSE Len(BackoffSteps)]

FlushOK ==
    /\ flushing
    /\ flushing' = FALSE
    /\ failures' = 0
    /\ nextFlush' = now + FlushInterval
    /\ UNCHANGED <<now, sampled, samples, consumerVars, since>>

\* An error, or the client's timeout.
FlushFails ==
    /\ flushing
    /\ flushing' = FALSE
    /\ failures' = failures + 1
    /\ nextFlush' = now + Backoff
    /\ UNCHANGED <<now, sampled, samples, consumerVars, since>>

\* Mutated form: http.Client without a Timeout.
NoTimeout == FALSE

TimedOut == now - since >= HTTPTimeout

\* A second passes, once nothing that is prompt is left to do.
Tick ==
    /\ now < Horizon
    /\ sampled
    /\ ~Ready
    /\ ~(waiting /\ ~flushing)
    /\ ~(flushing /\ TimedOut)
    /\ now' = now + 1
    /\ sampled' = FALSE
    /\ UNCHANGED <<samples, consumerVars, shipVars>>

Next ==
    \/ Publish \/ Consume \/ Record
    \/ FlushStart \/ FlushOK \/ FlushFails
    \/ Tick

Spec == Init /\ [][Next]_vars

-----------------------------------------------------------------------------
\* Every variable keeps its type, no recorded time lies ahead of the clock, and
\* the channel never exceeds its capacity.
TypeOK ==
    /\ now \in 0..Horizon /\ sampled \in BOOLEAN
    /\ samples \in Seq(Sample) /\ Len(samples) <= Capacity
    /\ cur \in Reading \cup {None}
    /\ lastEmit \in 0..now /\ waiting \in BOOLEAN
    /\ flushing \in BOOLEAN /\ since \in 0..now
    /\ nextFlush \in Nat /\ failures \in Nat

\* While somebody is watched, heartbeats are never further apart than the gap
\* the server takes for absence, even when a flush stalls the consumer for the
\* whole HTTP timeout (protocol.go:8, shipper.go:31).
NoFalseAbsence == cur # None => now - lastEmit <= MaxGap

\* A stalled flush never fills the channel, so no sample is dropped
\* (pipe_windows.go:275-279, service_windows.go:33).
NothingDropped == Len(samples) < Capacity

\* The event a heartbeat reports was at most one flush, stalled for the whole HTTP
\* timeout, earlier than its stamp (heartbeat.go:29, shipper.go:31): the stamp is
\* not the event's time, which protocol.go:17 calls it.
LateByOneFlush ==
    [][lastEmit' # lastEmit => lastEmit' <= Head(samples).at + HTTPTimeout]_vars
=============================================================================
