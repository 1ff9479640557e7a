-------------------------- MODULE Sessions_proofs --------------------------
(* Proofs about Sessions, for every set of accounts and watchers and any      *)
(* number of console changes and faults.                                     *)
EXTENDS Sessions, TLAPS

\* A watcher heard off the console since it last changed is not writing: it takes
\* no sample before its session is back, which starts the count afresh.
StrayPaused == \A w \in stray : Owner[w] # console /\ proc[w] # "write"

Inv == TypeOK /\ StrayPaused

LEMMA InvInit == Init => Inv
  <1> SUFFICES ASSUME Init PROVE Inv
    OBVIOUS
  <1>1. proc \in [Watcher -> {"none", "dial", "conn", "write"}]
    BY DEF Init
  <1>2. switches \in 0..MaxSwitches /\ faults \in 0..MaxFaults
    BY SessionsAssumption DEF Init
  <1>3. event \in BOOLEAN /\ backoff \in BOOLEAN
    BY DEF Init
  <1> QED
    BY <1>1, <1>2, <1>3 DEF Init, PipeInit, Inv, TypeOK, StrayPaused

\* Steps outside the service.
LEMMA EnvironmentSteps ==
  ASSUME Inv, Switch \/ SessionChange \/ Restart \/ \E w \in Watcher : Kill(w)
  PROVE  Inv'
  <1> USE SessionsAssumption DEF pipeVars, spawnerVars, watcherVars, envVars, Inv
  <1>1. CASE Switch
    BY <1>1 DEF Switch, TypeOK, StrayPaused
  <1>2. CASE SessionChange
    <2>1. event' \in BOOLEAN
      BY <1>2 DEF SessionChange
    <2> QED
      BY <1>2, <2>1 DEF SessionChange, Poke, TypeOK, StrayPaused
  <1>3. CASE Restart
    <2>1. /\ proc' \in [Watcher -> {"none", "dial", "conn", "write"}]
          /\ \A v \in Watcher : proc'[v] = IF v \in orphans THEN proc[v] ELSE "none"
      BY <1>3 DEF Restart, TypeOK
    <2>2. orphans' \subseteq {v \in Watcher : proc'[v] # "none"}
      BY <1>3, <2>1 DEF Restart, TypeOK
    <2>3. StrayPaused'
      BY <1>3, <2>1 DEF Restart, TypeOK, StrayPaused
    <2>4. faults' \in 0..MaxFaults
      BY <1>3 DEF Restart, Fault, TypeOK
    <2>5. event' \in BOOLEAN /\ backoff' \in BOOLEAN
      BY <1>3 DEF Restart, TypeOK
    <2> QED
      BY <1>3, <2>1, <2>2, <2>3, <2>4, <2>5 DEF Restart, TypeOK
  <1>4. ASSUME NEW w \in Watcher, Kill(w) PROVE Inv'
    <2>1. /\ proc' \in [Watcher -> {"none", "dial", "conn", "write"}]
          /\ \A v \in Watcher : proc'[v] = IF v = w THEN "none" ELSE proc[v]
      BY <1>4 DEF Kill, Exits, TypeOK
    <2>2. orphans' \subseteq {v \in Watcher : proc'[v] # "none"}
      BY <1>4, <2>1 DEF Kill, Exits, TypeOK
    <2>3. StrayPaused'
      BY <1>4, <2>1 DEF Kill, TypeOK, StrayPaused
    <2>4. faults' \in 0..MaxFaults
      BY <1>4 DEF Kill, Fault, TypeOK
    <2> QED
      BY <1>4, <2>1, <2>2, <2>3, <2>4 DEF Kill, TypeOK
  <1> QED
    BY <1>1, <1>2, <1>3, <1>4

LEMMA SpawnerSteps ==
  ASSUME Inv, Spawner \/ BackoffElapses
  PROVE  Inv'
  <1> USE SessionsAssumption DEF pipeVars, spawnerVars, watcherVars, envVars, Inv
  <1>1. CASE ReconcileStart
    BY <1>1 DEF ReconcileStart, TypeOK, StrayPaused
  <1>2. CASE TokenFails
    BY <1>2 DEF TokenFails, Fault, TypeOK, StrayPaused
  <1>3. CASE GrantToken
    BY <1>3 DEF GrantToken, Grant, TypeOK, StrayPaused
  <1>4. CASE AlreadyConnected \/ BackedOff \/ NoSlot
    BY <1>4 DEF AlreadyConnected, BackedOff, NoSlot, Reconciled, TypeOK, StrayPaused
  <1>5. CASE SpawnWatcher
    BY <1>5 DEF SpawnWatcher, Reconciled, Fault, TypeOK, StrayPaused
  <1>6. CASE SpawnFails
    BY <1>6 DEF SpawnFails, Reconciled, Fault, TypeOK, StrayPaused
  <1>7. CASE BackoffElapses
    BY <1>7 DEF BackoffElapses, TypeOK, StrayPaused
  <1> QED
    BY <1>1, <1>2, <1>3, <1>4, <1>5, <1>6, <1>7 DEF Spawner

LEMMA WatcherSteps ==
  ASSUME Inv, ClientGone \/ \E w \in Watcher : WatcherStep(w)
  PROVE  Inv'
  <1> USE SessionsAssumption DEF pipeVars, spawnerVars, watcherVars, envVars, Inv
  <1>1. CASE ClientGone
    BY <1>1 DEF ClientGone, Detach, TypeOK, StrayPaused
  <1>2. ASSUME NEW w \in Watcher, DialOK(w) PROVE Inv'
    BY <1>2 DEF DialOK, Attach, TypeOK, StrayPaused
  <1>3. ASSUME NEW w \in Watcher, DialGivesUp(w) PROVE Inv'
    BY <1>3 DEF DialGivesUp, Exits, TypeOK, StrayPaused
  <1>4. ASSUME NEW w \in Watcher, SampleCheck(w) PROVE Inv'
    BY <1>4 DEF SampleCheck, TypeOK, StrayPaused
  <1>5. ASSUME NEW w \in Watcher, SampleWrite(w) PROVE Inv'
    BY <1>5 DEF SampleWrite, TypeOK, StrayPaused
  <1>6. ASSUME NEW w \in Watcher, SampleFails(w) PROVE Inv'
    BY <1>6 DEF SampleFails, TypeOK, StrayPaused
  <1> QED
    BY <1>1, <1>2, <1>3, <1>4, <1>5, <1>6 DEF WatcherStep

LEMMA InvNext == Inv /\ [Next]_vars => Inv'
  <1> SUFFICES ASSUME Inv, [Next]_vars PROVE Inv'
    OBVIOUS
  <1>1. CASE UNCHANGED vars
    BY <1>1 DEF vars, pipeVars, spawnerVars, watcherVars, envVars, Inv, TypeOK, StrayPaused
  <1> QED
    BY <1>1, EnvironmentSteps, SpawnerSteps, WatcherSteps DEF Next

\* A watcher that was heard off the console takes no other sample until its session
\* is back (watcher_windows.go:92-100).
THEOREM InvAlways == Spec => []Inv
  BY InvInit, InvNext, PTL DEF Spec

\* Every variable keeps its type; one request at most waits in Spawner.poke.
THEOREM TypeCorrect == Spec => []TypeOK
  BY InvAlways, PTL DEF Inv

\* Only a write makes another watcher the last one heard.
LEMMA HeardByWriting ==
  ASSUME Inv, Next, NEW w \in Watcher, last' = w, last # w
  PROVE  proc[w] = "write"
  <1> USE DEF pipeVars, spawnerVars, watcherVars, envVars
  <1>1. PICK v \in Watcher : SampleWrite(v)
    BY DEF Next, Switch, SessionChange, Restart, Kill, WatcherStep, DialOK, DialGivesUp,
           SampleCheck, SampleFails, Spawner, ReconcileStart, TokenFails, GrantToken,
           AlreadyConnected, BackedOff, SpawnWatcher, SpawnFails, NoSlot, Reconciled,
           BackoffElapses, ClientGone
  <1> QED
    BY <1>1 DEF SampleWrite

\* After its session leaves the console a watcher is heard once more at most
\* (watcher_windows.go:92-100).
THEOREM OneStray == Spec => OneStraySample
  <1>1. ASSUME Inv, [Next]_vars
        PROVE  [\A w \in stray : last' = w =>
                   last = w /\ ~(proc[w] = "write" /\ proc'[w] = "conn")]_vars
    <2>1. \A w \in stray : w \in Watcher /\ proc[w] # "write"
      BY <1>1 DEF Inv, TypeOK, StrayPaused
    <2> QED
      BY <1>1, <2>1, HeardByWriting
  <1> QED
    BY <1>1, InvAlways, PTL DEF Spec, OneStraySample

-----------------------------------------------------------------------------
(* Whose samples the service takes.                                         *)

\* The attached watcher runs as the account that the pipe is granted to.
AttachedGranted == attached # None => Owner[attached] = user

\* Past EnsureSDDL a reconcile has the pipe granted to the account it is for.
GrantedForReconcile == spc = "check" => user = sid

GrantInv == AttachedGranted /\ GrantedForReconcile

\* No step attaches a watcher of another account, or takes the grant away under a
\* reconcile (spawn_windows.go:134-139).
LEMMA GrantNext == GrantInv /\ [Next]_vars => GrantInv'
  <1> SUFFICES ASSUME GrantInv, [Next]_vars PROVE GrantInv'
    OBVIOUS
  <1> USE DEF GrantInv, AttachedGranted, GrantedForReconcile,
              pipeVars, spawnerVars, watcherVars, envVars
  <1>1. CASE Switch \/ SessionChange \/ Restart \/ \E w \in Watcher : Kill(w)
    BY <1>1 DEF Switch, SessionChange, Restart, Kill
  <1>2. CASE ReconcileStart \/ TokenFails
    BY <1>2 DEF ReconcileStart, TokenFails
  <1>3. CASE GrantToken
    BY <1>3 DEF GrantToken, Grant
  <1>4. CASE AlreadyConnected \/ BackedOff \/ SpawnWatcher \/ SpawnFails \/ NoSlot
    BY <1>4 DEF AlreadyConnected, BackedOff, SpawnWatcher, SpawnFails, NoSlot, Reconciled
  <1>5. CASE BackoffElapses \/ ClientGone
    BY <1>5 DEF BackoffElapses, ClientGone, Detach
  <1>6. ASSUME NEW w \in Watcher, WatcherStep(w) PROVE GrantInv'
    BY <1>6 DEF WatcherStep, DialOK, Attach, DialGivesUp, SampleCheck, SampleWrite, SampleFails
  <1>7. CASE UNCHANGED vars
    BY <1>7 DEF vars
  <1> QED
    BY <1>1, <1>2, <1>3, <1>4, <1>5, <1>6, <1>7 DEF Next, Spawner

\* The pipe stays granted to the account of a reconcile that is past EnsureSDDL,
\* and only that account's watcher is attached (spawn_windows.go:134-139).
THEOREM GrantsHold == Spec => []GrantInv
  <1>1. Init => GrantInv
    BY DEF Init, PipeInit, GrantInv, AttachedGranted, GrantedForReconcile
  <1> QED
    BY <1>1, GrantNext, PTL DEF Spec

\* A reconcile that finds a watcher attached and spawns none has found one of the
\* account it is for, never the one a fast user switch left behind.
NoForeignShortcut == [][AlreadyConnected => Owner[attached] = sid]_vars

\* So a switch never leaves the new console user unwatched because the old one's
\* self-paused watcher still holds the pipe (spawn_windows.go:134-150).
THEOREM ShortcutIsSafe == Spec => NoForeignShortcut
  <1>1. GrantInv /\ [Next]_vars => [AlreadyConnected => Owner[attached] = sid]_vars
    BY DEF GrantInv, AttachedGranted, GrantedForReconcile, AlreadyConnected, Reconciled
  <1> QED
    BY <1>1, GrantsHold, PTL DEF Spec, NoForeignShortcut

\* A sample gets through from a watcher of the granted account only.
OnlyGrantedHeard ==
    [][\A w \in Watcher : proc[w] = "write" /\ proc'[w] = "conn" => Owner[w] = user]_vars

\* A watcher whose account lost the grant is not heard any more, whatever it was
\* writing when it lost it (pipe_windows.go:62-90).
THEOREM HeardIsGranted == Spec => OnlyGrantedHeard
  <1>1. ASSUME Inv, GrantInv, Next, NEW w \in Watcher, proc[w] = "write", proc'[w] = "conn"
        PROVE  Owner[w] = user
    <2> USE DEF pipeVars, spawnerVars, watcherVars, envVars, Inv, TypeOK
    <2>1. PICK v \in Watcher : WatcherStep(v)
      BY <1>1 DEF Next, Switch, SessionChange, Restart, Kill, Exits, Spawner, ReconcileStart,
           TokenFails, GrantToken, AlreadyConnected, BackedOff, SpawnWatcher, SpawnFails, NoSlot,
           Reconciled, BackoffElapses, ClientGone
    <2>2. v = w /\ attached = w
      BY <1>1, <2>1 DEF WatcherStep, DialOK, DialGivesUp, Exits, SampleCheck, SampleWrite,
           SampleFails
    <2> QED
      BY <1>1, <2>2, SessionsAssumption DEF GrantInv, AttachedGranted
  <1>2. Inv /\ GrantInv /\ [Next]_vars
          => [\A w \in Watcher : proc[w] = "write" /\ proc'[w] = "conn" => Owner[w] = user]_vars
    BY <1>1
  <1> QED
    BY <1>2, InvAlways, GrantsHold, PTL DEF Spec, OnlyGrantedHeard
=============================================================================
