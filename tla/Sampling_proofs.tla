-------------------------- MODULE Sampling_proofs --------------------------
(* Proofs about Sampling, and about the idle time a sample is made from. *)
EXTENDS Sampling, Idle, Integers, TLAPS

Left == IF sampled THEN 1 ELSE 0

\* A heartbeat waits no longer than one flush does: it was stamped in this
\* second, or during the flush it waits for; once that is over, no other flush
\* starts before it is recorded.
WaitsForOneFlush ==
    waiting => \/ lastEmit = now
               \/ flushing /\ since <= lastEmit
               \/ ~flushing /\ now < nextFlush

\* A drained channel means the sample of this second was consumed.
Drained ==
    sampled /\ samples = <<>> =>
        /\ cur # None
        /\ waiting => lastEmit = now
        /\ ~waiting => now - lastEmit < KeepAlive

\* The channel holds one sample for each second of a flush.
Backlog ==
    /\ flushing => now - since <= HTTPTimeout /\ Len(samples) <= (now - since) + Left
    /\ ~flushing => now < nextFlush \/ Len(samples) <= Left
    /\ Len(samples) <= HTTPTimeout + Left

Inv == TypeOK /\ (waiting => cur # None) /\ WaitsForOneFlush /\ Drained /\ Backlog
       /\ NoFalseAbsence

\* What one more sample does to the buffer.
LEMMA OneMore ==
    ASSUME NEW S, NEW s \in Seq(S), NEW e \in S
    PROVE  /\ Len(Append(s, e)) = Len(s) + 1
           /\ \A i \in 1..Len(Append(s, e)) :
                 Append(s, e)[i] = IF i <= Len(s) THEN s[i] ELSE e
  OBVIOUS

\* Every backoff of the shipper is a positive number of seconds.
LEMMA BackoffPositive == ASSUME failures \in Nat PROVE Backoff \in Nat /\ Backoff > 0
  BY SamplingAssumption DEF Backoff

\* The invariant holds initially.
LEMMA InvInit == Init => Inv
  <1> SUFFICES ASSUME Init PROVE Inv
    OBVIOUS
  <1> USE SamplingAssumption DEF Init
  <1>0. samples \in Seq(Sample) /\ Len(samples) = 0
    OBVIOUS
  <1>1. TypeOK
    <2>b. sampled \in BOOLEAN /\ waiting \in BOOLEAN /\ flushing \in BOOLEAN
      OBVIOUS
    <2>n. /\ now \in 0..Horizon /\ samples \in Seq(Sample) /\ Len(samples) <= Capacity
          /\ cur \in Reading \cup {None} /\ lastEmit \in 0..now
          /\ since \in 0..now /\ nextFlush \in Nat /\ failures \in Nat
      BY <1>0
    <2> QED
      BY <2>b, <2>n DEF TypeOK
  <1>2. (waiting => cur # None) /\ WaitsForOneFlush /\ Drained /\ NoFalseAbsence
    BY DEF WaitsForOneFlush, Drained, NoFalseAbsence
  <1>3. Backlog
    BY DEF Backlog, Left
  <1> QED
    BY <1>1, <1>2, <1>3 DEF Inv

\* Every step keeps the invariant.
LEMMA InvNext == Inv /\ [Next]_vars => Inv'
  <1> SUFFICES ASSUME Inv, [Next]_vars PROVE Inv'
    OBVIOUS
  <1> USE SamplingAssumption
  <1>t. /\ now \in 0..Horizon /\ sampled \in BOOLEAN /\ samples \in Seq(Sample)
        /\ cur \in Reading \cup {None} /\ lastEmit \in 0..now /\ waiting \in BOOLEAN
        /\ flushing \in BOOLEAN /\ since \in 0..now /\ nextFlush \in Nat /\ failures \in Nat
        /\ Len(samples) \in Nat /\ Left \in 0..1
    BY DEF Inv, TypeOK, Left
  <1>1. CASE Publish
    <2> USE <1>1 DEF Publish, consumerVars, shipVars
    <2>1. PICK r \in Reading :
            samples' = IF Room THEN Append(samples, [reading |-> r, at |-> now]) ELSE samples
      OBVIOUS
    <2>2. /\ samples' \in Seq(Sample) /\ samples' # <<>>
          /\ Len(samples') <= Len(samples) + 1 /\ Len(samples') <= Capacity
      <3>1. CASE Room
        <4>1. samples' = Append(samples, [reading |-> r, at |-> now])
          BY <2>1, <3>1
        <4>2. [reading |-> r, at |-> now] \in Sample
          BY <1>t DEF Sample
        <4>3. samples' \in Seq(Sample) /\ Len(samples') = Len(samples) + 1
          BY <4>1, <4>2, <1>t
        <4> QED
          BY <4>1, <4>3, <3>1, <1>t DEF Room
      <3>2. CASE ~Room
        BY <2>1, <3>2, <1>t DEF Room, Inv, TypeOK
      <3> QED
        BY <3>1, <3>2
    <2>3. Left = 0 /\ Left' = 1
      BY DEF Left
    <2>4. TypeOK'
      BY <1>t, <2>2 DEF TypeOK
    <2>5. (waiting => cur # None)' /\ WaitsForOneFlush' /\ Drained' /\ NoFalseAbsence'
      BY <1>t, <2>2 DEF Inv, WaitsForOneFlush, Drained, NoFalseAbsence
    <2>6. Backlog'
      BY <1>t, <2>2, <2>3 DEF Inv, Backlog
    <2> QED
      BY <2>4, <2>5, <2>6 DEF Inv
  <1>2. CASE Consume
    <2> USE <1>2 DEF Consume, shipVars
    <2>1. samples # <<>> /\ ~waiting
      BY DEF Ready
    <2>2. /\ samples' \in Seq(Sample) /\ Len(samples') = Len(samples) - 1 /\ Len(samples) > 0
          /\ Head(samples).reading \in Reading
      <3>1. Head(samples) \in Sample /\ samples' \in Seq(Sample) /\ Len(samples') = Len(samples) - 1
        BY <1>t, <2>1
      <3> QED
        BY <3>1, <1>t, <2>1 DEF Sample
    <2>3. Left' = Left
      BY DEF Left
    <2>4. CASE Due(Head(samples).reading)
      <3>1. cur' = Head(samples).reading /\ lastEmit' = now /\ waiting' = TRUE
        BY <2>4 DEF Stamp
      <3>2. TypeOK'
        BY <1>t, <2>2, <3>1 DEF TypeOK, Inv
      <3>3. (waiting => cur # None)' /\ WaitsForOneFlush' /\ Drained' /\ NoFalseAbsence'
        BY <1>t, <2>2, <3>1 DEF WaitsForOneFlush, Drained, NoFalseAbsence
      <3> QED
        BY <3>2, <3>3, <1>t, <2>2, <2>3 DEF Inv, Backlog
    <2>5. CASE ~Due(Head(samples).reading)
      <3>1. cur' = cur /\ lastEmit' = lastEmit /\ waiting' = FALSE /\ cur = Head(samples).reading
            /\ now - lastEmit < KeepAlive
        BY <2>1, <2>5, <1>t DEF Due, consumerVars
      <3>2. TypeOK'
        <4>b. sampled' \in BOOLEAN /\ waiting' \in BOOLEAN /\ flushing' \in BOOLEAN
          BY <1>t, <3>1
        <4>n. /\ now' \in 0..Horizon /\ samples' \in Seq(Sample) /\ Len(samples') <= Capacity
              /\ cur' \in Reading \cup {None} /\ lastEmit' \in 0..now'
              /\ since' \in 0..now' /\ nextFlush' \in Nat /\ failures' \in Nat
          BY <1>t, <2>2, <3>1 DEF Inv, TypeOK
        <4> QED
          BY <4>b, <4>n DEF TypeOK
      <3>3. (waiting => cur # None)' /\ WaitsForOneFlush' /\ Drained' /\ NoFalseAbsence'
        BY <1>t, <2>2, <3>1 DEF WaitsForOneFlush, Drained, NoFalseAbsence
      <3> QED
        BY <3>2, <3>3, <1>t, <2>2, <2>3 DEF Inv, Backlog
    <2> QED
      BY <2>4, <2>5
  <1>3. CASE Record
    <2> USE <1>3 DEF Record, shipVars
    <2>1. TypeOK' /\ NoFalseAbsence' /\ WaitsForOneFlush' /\ (waiting => cur # None)'
      BY <1>t DEF TypeOK, Inv, NoFalseAbsence, WaitsForOneFlush
    <2>2. Drained'
      BY <1>t DEF Inv, Drained
    <2>3. Backlog'
      BY <1>t DEF Inv, Backlog, Left
    <2> QED
      BY <2>1, <2>2, <2>3 DEF Inv
  <1>4. CASE FlushStart
    <2> USE <1>4 DEF FlushStart, consumerVars
    <2>1. TypeOK' /\ NoFalseAbsence' /\ (waiting => cur # None)' /\ Drained'
      BY <1>t DEF TypeOK, Inv, NoFalseAbsence, Drained
    <2>2. WaitsForOneFlush'
      BY <1>t DEF Inv, WaitsForOneFlush
    <2>3. Backlog'
      BY <1>t DEF Inv, Backlog, Left
    <2> QED
      BY <2>1, <2>2, <2>3 DEF Inv
  <1>5. CASE FlushOK \/ FlushFails
    <2> USE <1>5 DEF FlushOK, FlushFails, consumerVars
    <2>1. nextFlush' \in Nat /\ now < nextFlush' /\ failures' \in Nat
      BY <1>t, BackoffPositive
    <2>5. TypeOK'
      <3>b. sampled' \in BOOLEAN /\ waiting' \in BOOLEAN /\ flushing' \in BOOLEAN
        BY <1>t
      <3>n. /\ now' \in 0..Horizon /\ samples' \in Seq(Sample) /\ Len(samples') <= Capacity
            /\ cur' \in Reading \cup {None} /\ lastEmit' \in 0..now'
            /\ since' \in 0..now' /\ nextFlush' \in Nat /\ failures' \in Nat
        BY <1>t, <2>1 DEF Inv, TypeOK
      <3> QED
        BY <3>b, <3>n DEF TypeOK
    <2>2. NoFalseAbsence' /\ (waiting => cur # None)' /\ Drained'
      BY <1>t, <2>1 DEF Inv, NoFalseAbsence, Drained
    <2>3. WaitsForOneFlush'
      BY <1>t, <2>1 DEF WaitsForOneFlush
    <2>4. Backlog'
      BY <1>t, <2>1 DEF Inv, Backlog, Left
    <2> QED
      BY <2>5, <2>2, <2>3, <2>4 DEF Inv
  <1>6. CASE Tick
    <2> USE <1>6 DEF Tick, consumerVars, shipVars
    <2>1. now' = now + 1 /\ now' \in 0..Horizon /\ sampled /\ ~sampled'
      BY <1>t
    <2>2. TypeOK'
      <3>b. sampled' \in BOOLEAN /\ waiting' \in BOOLEAN /\ flushing' \in BOOLEAN
        BY <1>t
      <3>n. /\ now' \in 0..Horizon /\ samples' \in Seq(Sample) /\ Len(samples') <= Capacity
            /\ cur' \in Reading \cup {None} /\ lastEmit' \in 0..now'
            /\ since' \in 0..now' /\ nextFlush' \in Nat /\ failures' \in Nat
        BY <1>t, <2>1 DEF Inv, TypeOK
      <3> QED
        BY <3>b, <3>n DEF TypeOK
    <2>3. CASE waiting
      <3>1. flushing /\ now - since < HTTPTimeout
        BY <2>3, <1>t DEF TimedOut
      <3>2. lastEmit >= since
        BY <2>3, <3>1, <1>t DEF Inv, WaitsForOneFlush
      <3>3. NoFalseAbsence' /\ WaitsForOneFlush' /\ (waiting => cur # None)' /\ Drained'
        BY <2>1, <2>3, <3>1, <3>2, <1>t DEF Inv, NoFalseAbsence, WaitsForOneFlush, Drained
      <3>4. Backlog'
        BY <2>1, <3>1, <1>t DEF Inv, Backlog, Left
      <3> QED
        BY <2>2, <3>3, <3>4 DEF Inv
    <2>4. CASE ~waiting
      <3>1. samples = <<>> /\ cur # None /\ now - lastEmit < KeepAlive
        BY <2>1, <2>4, <1>t DEF Ready, Inv, Drained
      <3>2. NoFalseAbsence' /\ WaitsForOneFlush' /\ (waiting => cur # None)' /\ Drained'
        BY <2>1, <2>4, <3>1, <1>t DEF NoFalseAbsence, WaitsForOneFlush, Drained
      <3>3. Backlog'
        BY <2>1, <3>1, <1>t DEF Inv, Backlog, Left, TimedOut
      <3> QED
        BY <2>2, <3>2, <3>3 DEF Inv
    <2> QED
      BY <2>3, <2>4, <1>t
  <1>7. CASE UNCHANGED vars
    BY <1>7 DEF vars, consumerVars, shipVars, Inv, TypeOK, WaitsForOneFlush, Drained,
                Backlog, NoFalseAbsence, Left
  <1> QED
    BY <1>1, <1>2, <1>3, <1>4, <1>5, <1>6, <1>7 DEF Next

\* Inv is an invariant: a stall lasts one flush, and the backlog one sample a
\* second of it.
THEOREM Invariance == Spec => []Inv
  BY InvInit, InvNext, PTL DEF Spec

\* The types of the run's states, for every instance.
THEOREM TypeCorrect == Spec => []TypeOK
  <1>1. Inv => TypeOK
    BY DEF Inv
  <1> QED
    BY <1>1, Invariance, PTL

\* Heartbeats are never further apart than MaxGap while samples come
\* (protocol.go:8, shipper.go:31), for all values of the code's constants
\* with KeepAlive and HTTPTimeout at most MaxGap.
THEOREM Covered == Spec => []NoFalseAbsence
  <1>1. Inv => NoFalseAbsence
    BY DEF Inv
  <1> QED
    BY <1>1, Invariance, PTL

\* A flush never makes the reader drop a sample (pipe_windows.go:275-279) when
\* the channel is longer than HTTPTimeout + 1.
THEOREM AllHeard == Spec => []NothingDropped
  <1>1. Inv => NothingDropped
    BY SamplingAssumption DEF Inv, TypeOK, Backlog, NothingDropped, Left
  <1> QED
    BY <1>1, Invariance, PTL

\* The samples in the channel are of the flush that stalls their consumer, or of
\* this second.
Fresh ==
    /\ \A i \in 1..Len(samples) : /\ samples[i].at <= now
                                  /\ now <= samples[i].at + HTTPTimeout
    /\ flushing => \A i \in 1..Len(samples) : since <= samples[i].at
    /\ ~flushing => now < nextFlush \/ \A i \in 1..Len(samples) : samples[i].at = now

\* The samples are fresh at the start.
LEMMA FreshInit == Init => Fresh
  BY DEF Init, Fresh

\* Every step keeps them fresh.
LEMMA FreshNext == Inv /\ Fresh /\ [Next]_vars => Fresh'
  <1> SUFFICES ASSUME Inv, Fresh, [Next]_vars PROVE Fresh'
    OBVIOUS
  <1> USE SamplingAssumption
  <1>t. /\ now \in 0..Horizon /\ sampled \in BOOLEAN /\ samples \in Seq(Sample)
        /\ waiting \in BOOLEAN /\ flushing \in BOOLEAN
        /\ since \in 0..now /\ nextFlush \in Nat /\ failures \in Nat /\ Len(samples) \in Nat
    BY DEF Inv, TypeOK
  <1>s. \A i \in 1..Len(samples) : samples[i].at \in 0..Horizon
    <2>1. \A i \in 1..Len(samples) : samples[i] \in Sample
      BY <1>t
    <2> QED
      BY <2>1 DEF Sample
  <1>1. CASE Publish
    <2>1. PICK r \in Reading :
            samples' = IF Room THEN Append(samples, [reading |-> r, at |-> now]) ELSE samples
      BY <1>1 DEF Publish
    <2>2. UNCHANGED <<now, flushing, since, nextFlush>>
      BY <1>1 DEF Publish, shipVars
    <2>3. CASE Room
      <3>1. /\ Len(samples') = Len(samples) + 1
            /\ \A i \in 1..Len(samples') : samples'[i] =
                  IF i <= Len(samples) THEN samples[i] ELSE [reading |-> r, at |-> now]
        <4> DEFINE last == [reading |-> r, at |-> now]
        <4>1. samples' = Append(samples, last)
          BY <2>1, <2>3
        <4>2. last \in Sample
          BY <1>t DEF Sample
        <4> HIDE DEF last
        <4>3. /\ Len(samples') = Len(samples) + 1
              /\ \A i \in 1..Len(samples') :
                    samples'[i] = IF i <= Len(samples) THEN samples[i] ELSE last
          BY <1>t, <4>1, <4>2, OneMore
        <4> QED
          BY <4>3 DEF last
      <3>2. \A i \in 1..Len(samples') :
              samples'[i].at = now \/ (i \in 1..Len(samples) /\ samples'[i].at = samples[i].at)
        BY <3>1, <1>t
      <3>3. \A i \in 1..Len(samples') : samples'[i].at <= now /\ now <= samples'[i].at + HTTPTimeout
        <4> TAKE i \in 1..Len(samples')
        <4>1. CASE samples'[i].at = now
          BY <4>1, <1>t
        <4>2. CASE i \in 1..Len(samples) /\ samples'[i].at = samples[i].at
          BY <4>2 DEF Fresh
        <4> QED
          BY <3>2, <4>1, <4>2
      <3>4. flushing => \A i \in 1..Len(samples') : since <= samples'[i].at
        <4> SUFFICES ASSUME flushing, NEW i \in 1..Len(samples') PROVE since <= samples'[i].at
          OBVIOUS
        <4>1. CASE samples'[i].at = now
          BY <4>1, <1>t
        <4>2. CASE i \in 1..Len(samples) /\ samples'[i].at = samples[i].at
          BY <4>2 DEF Fresh
        <4> QED
          BY <3>2, <4>1, <4>2
      <3>5. ~flushing => now < nextFlush \/ \A i \in 1..Len(samples') : samples'[i].at = now
        BY <3>2, <1>t DEF Fresh
      <3> QED
        BY <3>3, <3>4, <3>5, <2>2 DEF Fresh
    <2>4. CASE ~Room
      BY <2>1, <2>2, <2>4 DEF Fresh
    <2> QED
      BY <2>3, <2>4
  <1>2. CASE Consume
    <2>1. samples' = Tail(samples) /\ samples # <<>> /\ UNCHANGED <<now, flushing, since, nextFlush>>
      BY <1>2 DEF Consume, Ready, shipVars
    <2>2. /\ Len(samples') = Len(samples) - 1
          /\ \A i \in 1..Len(samples') : samples'[i] = samples[i + 1]
      BY <2>1, <1>t
    <2> QED
      BY <2>1, <2>2, <1>t DEF Fresh
  <1>3. CASE Record
    BY <1>3 DEF Record, shipVars, Fresh
  <1>4. CASE FlushStart
    BY <1>4, <1>t DEF FlushStart, Fresh
  <1>5. CASE FlushOK \/ FlushFails
    <2>1. now < nextFlush' /\ flushing' = FALSE /\ UNCHANGED <<now, samples>>
      BY <1>5, <1>t, BackoffPositive DEF FlushOK, FlushFails
    <2> QED
      BY <2>1 DEF Fresh
  <1>6. CASE Tick
    <2>1. /\ now' = now + 1 /\ UNCHANGED <<samples, flushing, since, nextFlush>>
          /\ samples = <<>> \/ (flushing /\ now - since < HTTPTimeout)
      BY <1>6, <1>t DEF Tick, Ready, TimedOut, consumerVars, shipVars
    <2>2. CASE samples = <<>>
      BY <2>1, <2>2 DEF Fresh
    <2>3. CASE flushing /\ now - since < HTTPTimeout
      BY <2>1, <2>3, <1>t, <1>s DEF Fresh
    <2> QED
      BY <2>1, <2>2, <2>3
  <1>7. CASE UNCHANGED vars
    BY <1>7 DEF vars, shipVars, Fresh
  <1> QED
    BY <1>1, <1>2, <1>3, <1>4, <1>5, <1>6, <1>7 DEF Next

\* A stamp is at most HTTPTimeout later than its sample (heartbeat.go:29): a
\* sample waits for one flush and no second one.
THEOREM StampsAreNearlyTrue == Spec => LateByOneFlush
  <1>1. Inv /\ Fresh /\ [Next]_vars =>
          (lastEmit' # lastEmit => lastEmit' <= Head(samples).at + HTTPTimeout)
    <2> SUFFICES ASSUME Inv, Fresh, [Next]_vars, lastEmit' # lastEmit
                 PROVE  lastEmit' <= Head(samples).at + HTTPTimeout
      OBVIOUS
    <2>1. Consume
      BY DEF Next, vars, consumerVars, Publish, Record, FlushStart, FlushOK, FlushFails, Tick
    <2>2. samples # <<>> /\ lastEmit' = now
      BY <2>1 DEF Consume, Ready, Stamp, consumerVars
    <2>3. Len(samples) \in Nat \ {0} /\ Head(samples) = samples[1]
      BY <2>2 DEF Inv, TypeOK
    <2> QED
      BY <2>2, <2>3 DEF Fresh
  <1> QED
    BY <1>1, FreshInit, FreshNext, Invariance, PTL DEF Spec, LateByOneFlush

-----------------------------------------------------------------------------
(* The idle time a sample is made from.                                      *)

LEMMA Division ==
  ASSUME NEW w \in Nat \ {0}, NEW x \in Nat
  PROVE  x = w * (x \div w) + (x % w) /\ x \div w \in Nat /\ x % w \in 0..(w - 1)
  OBVIOUS

\* Two readings less than a whole turn apart differ by their distance, or by that
\* less a turn.
LEMMA OneTurn ==
  ASSUME NEW w \in Nat \ {0}, NEW x \in Nat, NEW y \in Nat, y <= x, x - y < w
  PROVE  x % w = (y % w) + (x - y) \/ x % w = (y % w) + (x - y) - w
  <1> DEFINE a == x \div w  b == y \div w
  <1>1. x = w * a + (x % w) /\ a \in Nat /\ x % w \in 0..(w - 1)
    BY Division
  <1>2. y = w * b + (y % w) /\ b \in Nat /\ y % w \in 0..(w - 1)
    BY Division
  <1>3. w * a - w * b = w * (a - b)
    BY <1>1, <1>2
  <1> HIDE DEF a, b
  <1>4. a - b <= 1
    <2>1. a - b >= 2 => w * (a - b) >= 2 * w
      BY <1>1, <1>2
    <2> QED
      BY <1>1, <1>2, <1>3, <2>1
  <1>5. a - b >= 0
    <2>1. a - b <= -1 => w * (a - b) <= -w
      BY <1>1, <1>2
    <2> QED
      BY <1>1, <1>2, <1>3, <2>1
  <1>6. w * (a - b) = 0 \/ w * (a - b) = w
    <2>1. a - b = 0 \/ a - b = 1
      BY <1>1, <1>2, <1>4, <1>5
    <2> QED
      BY <1>1, <1>2, <2>1
  <1> QED
    BY <1>1, <1>2, <1>3, <1>6

\* However often the counter has started again, the idle time is what has passed
\* since the last input, and a sample is active exactly for the first IdleThreshold
\* seconds of it, if that is less than a turn (sources.go:15-23, watcher_windows.go:98).
THEOREM IdleIsElapsed ==
  ASSUME TickValues \in Nat \ {0}, IdleThreshold \in Nat, NEW input \in Nat, NEW t \in Nat,
         input <= t, t - input < TickValues
  PROVE  /\ IdleFromTickCount(Ticks(t), Ticks(input)) = t - input
         /\ Active(Ticks(t), Ticks(input)) <=> t - input < 1000 * IdleThreshold
  <1>1. Ticks(t) \in 0..(TickValues - 1) /\ Ticks(input) \in 0..(TickValues - 1)
    BY Division DEF Ticks
  <1>2. \/ Ticks(t) = Ticks(input) + (t - input)
        \/ Ticks(t) = Ticks(input) + (t - input) - TickValues
    BY OneTurn DEF Ticks
  <1>3. IdleFromTickCount(Ticks(t), Ticks(input)) = t - input
    BY <1>1, <1>2 DEF IdleFromTickCount
  <1> QED
    BY <1>3 DEF Active
=============================================================================
