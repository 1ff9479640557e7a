------------------------------ MODULE Sessions ------------------------------
(***************************************************************************)
(* Who samples whom: the console session as users log on, off and switch,   *)
(* the service's spawner (spawn_windows.go), the watcher processes it       *)
(* launches (watcher_windows.go), and the sample pipe between them, taken   *)
(* from SamplePipe, which PipeServer implements.                            *)
(*                                                                         *)
(* A session is the account that owns it.  Time is abstract: the 30 s tick  *)
(* may come at any moment the spawner is idle, and a backoff is on or off.  *)
(* A watcher is a process slot of its account.                              *)
(***************************************************************************)
EXTENDS SamplePipe, Naturals, FiniteSets

CONSTANTS MaxSwitches,   \* bound: changes of the console session
          MaxFaults      \* bound: watchers that die, calls that fail and service
                         \* restarts, together

ASSUME SessionsAssumption ==
    /\ Owner \in [Watcher -> User]
    /\ None \notin User \cup Watcher
    /\ MaxSwitches \in Nat /\ MaxFaults \in Nat

VARIABLES
    console,   \* the account on the console, None at the login screen
    event,     \* a session change the SCM has yet to deliver
    poke,      \* requests in Spawner.poke
    spc,       \* the spawner: "idle", "token", "check"
    sid,       \* reconcile's sid
    backoff,   \* now is before nextAttempt
    proc,      \* each watcher: "none", "dial", "conn", "write"
    orphans,   \* watchers running outside the service's job object
    last,      \* the watcher whose sample the service got last
    stray,     \* history: watchers heard off the console since it changed
    switches, faults

spawnerVars == <<poke, spc, sid, backoff>>
watcherVars == <<proc, orphans, last, stray>>
envVars == <<console, event, switches, faults>>
vars == <<pipeVars, spawnerVars, watcherVars, envVars>>

Init ==
    /\ PipeInit
    /\ console = None
    /\ event = FALSE
    /\ poke = 0 /\ spc = "idle" /\ sid = None /\ backoff = FALSE
    /\ proc = [w \in Watcher |-> "none"]
    /\ orphans = {}
    /\ last = None /\ stray = {}
    /\ switches = 0 /\ faults = 0

Fault == faults < MaxFaults /\ faults' = faults + 1

Exits(w) == proc' = [proc EXCEPT ![w] = "none"] /\ orphans' = orphans \ {w}

-----------------------------------------------------------------------------
(* The console.                                                            *)

\* Logon, logoff, lock-screen switch: the console has another owner or none.
Switch ==
    /\ switches < MaxSwitches
    /\ switches' = switches + 1
    /\ console' \in (User \cup {None}) \ {console}
    /\ event' = TRUE
    /\ stray' = {}
    /\ UNCHANGED <<pipeVars, spawnerVars, proc, orphans, last, faults>>

\* Mutated form: every request is queued.
PokeQueues == poke' = poke + 1

\* A non-blocking send on a channel of capacity 1.
Poke == poke' = 1

SessionChange ==
    /\ event
    /\ event' = FALSE
    /\ Poke
    /\ UNCHANGED <<pipeVars, spc, sid, backoff, watcherVars, console, switches, faults>>

\* A watcher dies: killed, or its user logs off.
Kill(w) ==
    /\ Fault
    /\ proc[w] # "none"
    /\ Exits(w)
    /\ UNCHANGED <<pipeVars, spawnerVars, last, stray, console, event, switches>>

\* The service process ends -- stop, crash, upgrade -- and is started again: the
\* pipe closes, the job object takes its watchers along, and a new spawner starts,
\* which may have missed the last session change.
Restart ==
    /\ Fault
    /\ user' = None /\ attached' = None
    /\ poke' = 0 /\ spc' = "idle" /\ sid' = None /\ backoff' = FALSE
    /\ proc' = [w \in Watcher |-> IF w \in orphans THEN proc[w] ELSE "none"]
    /\ event' \in {event, FALSE}
    /\ UNCHANGED <<orphans, last, stray, console, switches>>

-----------------------------------------------------------------------------
(* reconcile.                                                              *)

\* Run's select took the tick or the request; nobody on the console: return.
ReconcileStart ==
    /\ spc = "idle"
    /\ poke' \in {poke, 0}
    /\ IF console = None
       THEN UNCHANGED <<spc, sid>>
       ELSE spc' = "token" /\ sid' = console
    /\ UNCHANGED <<pipeVars, backoff, watcherVars, envVars>>

\* The error returns of QueryToken and TokenUser.
TokenFails ==
    /\ spc = "token"
    /\ Fault
    /\ spc' = "idle"
    /\ backoff' = TRUE
    /\ UNCHANGED <<pipeVars, poke, sid, watcherVars, console, event, switches>>

\* Mutated form: the pipe is granted on the way to a spawn only.
GrantTokenWhenFree ==
    /\ spc = "token"
    /\ spc' = "check"
    /\ IF sid = user \/ attached # None THEN UNCHANGED pipeVars ELSE Grant(sid)
    /\ UNCHANGED <<poke, sid, backoff, watcherVars, envVars>>

\* EnsureSDDL for the session's user, on every reconcile.
GrantToken ==
    /\ spc = "token"
    /\ spc' = "check"
    /\ IF sid = user THEN UNCHANGED pipeVars ELSE Grant(sid)
    /\ UNCHANGED <<poke, sid, backoff, watcherVars, envVars>>

Reconciled(b) ==
    /\ spc = "check"
    /\ spc' = "idle"
    /\ backoff' = b
    /\ UNCHANGED <<pipeVars, poke, sid, last, stray, console, event, switches>>

AlreadyConnected ==
    attached # None /\ Reconciled(FALSE) /\ UNCHANGED <<proc, orphans, faults>>

BackedOff ==
    attached = None /\ backoff /\ Reconciled(TRUE) /\ UNCHANGED <<proc, orphans, faults>>

\* The launched process joins the job object, or, when that fails, runs without.
SpawnWatcher ==
    /\ attached = None /\ ~backoff
    /\ Reconciled(TRUE)
    /\ \E w \in Watcher :
          /\ Owner[w] = sid /\ proc[w] = "none"
          /\ proc' = [proc EXCEPT ![w] = "dial"]
          /\ \/ UNCHANGED <<orphans, faults>>
             \/ Fault /\ orphans' = orphans \cup {w}

\* No environment block, no job object, or no process.
SpawnFails ==
    /\ attached = None /\ ~backoff
    /\ Fault
    /\ Reconciled(TRUE)
    /\ UNCHANGED <<proc, orphans>>

\* Bound: every slot of the account is in use.
NoSlot ==
    /\ attached = None /\ ~backoff
    /\ \A w \in Watcher : Owner[w] = sid => proc[w] # "none"
    /\ Reconciled(TRUE)
    /\ UNCHANGED <<proc, orphans, faults>>

BackoffElapses ==
    /\ backoff
    /\ backoff' = FALSE
    /\ UNCHANGED <<pipeVars, poke, spc, sid, watcherVars, envVars>>

-----------------------------------------------------------------------------
(* The watchers.                                                           *)

\* dialRetry succeeds, before the session is looked at.
DialOK(w) ==
    /\ proc[w] = "dial"
    /\ Attach(w)
    /\ proc' = [proc EXCEPT ![w] = "conn"]
    /\ UNCHANGED <<spawnerVars, orphans, last, stray, envVars>>

\* dialRetry's budget runs out on a pipe that admits somebody else.
DialGivesUp(w) ==
    /\ proc[w] = "dial"
    /\ Owner[w] # user
    /\ Exits(w)
    /\ UNCHANGED <<pipeVars, spawnerVars, last, stray, envVars>>

\* Mutated form: no self-pause.
SampleCheckAlways(w) ==
    /\ proc[w] = "conn"
    /\ proc' = [proc EXCEPT ![w] = "write"]
    /\ UNCHANGED <<pipeVars, spawnerVars, orphans, last, stray, envVars>>

\* A tick in the console session: take a sample; otherwise the tick is skipped
\* and the connection left alone.
SampleCheck(w) ==
    /\ proc[w] = "conn"
    /\ Owner[w] = console
    /\ proc' = [proc EXCEPT ![w] = "write"]
    /\ UNCHANGED <<pipeVars, spawnerVars, orphans, last, stray, envVars>>

SampleWrite(w) ==
    /\ proc[w] = "write"
    /\ attached = w
    /\ proc' = [proc EXCEPT ![w] = "conn"]
    /\ last' = w
    /\ stray' = IF Owner[w] = console THEN stray ELSE stray \cup {w}
    /\ UNCHANGED <<pipeVars, spawnerVars, orphans, envVars>>

\* The service closed the connection: the write fails, dial again.
SampleFails(w) ==
    /\ proc[w] = "write"
    /\ attached # w
    /\ proc' = [proc EXCEPT ![w] = "dial"]
    /\ UNCHANGED <<pipeVars, spawnerVars, orphans, last, stray, envVars>>

\* The service reads EOF from a watcher that died.
ClientGone ==
    /\ attached # None
    /\ proc[attached] \in {"none", "dial"}
    /\ Detach
    /\ UNCHANGED <<spawnerVars, watcherVars, envVars>>

-----------------------------------------------------------------------------
Spawner ==
    \/ ReconcileStart \/ TokenFails \/ GrantToken
    \/ AlreadyConnected \/ BackedOff \/ SpawnWatcher \/ SpawnFails \/ NoSlot

WatcherStep(w) ==
    \/ DialOK(w) \/ DialGivesUp(w)
    \/ SampleCheck(w) \/ SampleWrite(w) \/ SampleFails(w)

Next ==
    \/ Switch
    \/ SessionChange
    \/ Restart
    \/ \E w \in Watcher : Kill(w) \/ WatcherStep(w)
    \/ Spawner
    \/ BackoffElapses
    \/ ClientGone

Spec == Init /\ [][Next]_vars

\* The spawner's loop and the watchers' run on, a backoff lasts at most 30 s,
\* and the SCM delivers its events.
Fairness ==
    /\ WF_vars(SessionChange)
    /\ WF_vars(Spawner) /\ WF_vars(BackoffElapses)
    /\ WF_vars(ClientGone)
    /\ \A w \in Watcher : WF_vars(WatcherStep(w))

FairSpec == Spec /\ Fairness

-----------------------------------------------------------------------------
(* Safety.                                                                 *)

\* Every variable keeps its type; at most one request waits in the channel.
TypeOK ==
    /\ user \in User \cup {None} /\ attached \in Watcher \cup {None}
    /\ console \in User \cup {None}
    /\ event \in BOOLEAN
    /\ poke \in 0..1
    /\ spc \in {"idle", "token", "check"}
    /\ sid \in User \cup {None}
    /\ backoff \in BOOLEAN
    /\ proc \in [Watcher -> {"none", "dial", "conn", "write"}]
    /\ last \in Watcher \cup {None}
    /\ orphans \subseteq {w \in Watcher : proc[w] # "none"}
    /\ stray \subseteq Watcher
    /\ switches \in 0..MaxSwitches /\ faults \in 0..MaxFaults

\* After its session leaves the console a watcher gets at most one more sample
\* through, the one it was writing (watcher_windows.go:92-100).
OneStraySample ==
    [][\A w \in stray : last' = w => last = w /\ ~(proc[w] = "write" /\ proc'[w] = "conn")]_vars

-----------------------------------------------------------------------------
(* Liveness.                                                               *)

\* Once the console keeps its owner, a watcher of that account is attached for
\* good: across fast user switching, kills, failing launches, service
\* restarts and the stale watchers they leave (spawn_windows.go:134-139).
Watched ==
    <>[](console # None => attached # None /\ Owner[attached] = console)

\* Once the console keeps its owner, at most one of its account's watchers is
\* left running.
DuplicatesExit ==
    <>[](Cardinality({w \in Watcher : proc[w] # "none" /\ Owner[w] = console}) <= 1)
=============================================================================
