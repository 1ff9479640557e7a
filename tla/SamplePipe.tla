----------------------------- MODULE SamplePipe -----------------------------
(***************************************************************************)
(* What the sample pipe promises its users, the spawner and the watchers:   *)
(* it is granted to one user at a time, at most one watcher is attached,    *)
(* that watcher belongs to the user, and granting the pipe to another user  *)
(* detaches it at once.                                                     *)
(***************************************************************************)
CONSTANTS User,      \* the accounts that may own the console
          Watcher,   \* the watcher processes
          Owner,     \* Owner[w]: the account w runs as
          None

VARIABLES user,      \* the user the pipe is granted to, or None
          attached   \* the attached watcher, or None

pipeVars == <<user, attached>>

PipeInit == user = None /\ attached = None

Grant(u) == u # user /\ user' = u /\ attached' = None

\* The newest watcher wins.
Attach(w) == Owner[w] = user /\ attached' = w /\ UNCHANGED user

Detach == attached # None /\ attached' = None /\ UNCHANGED user

PipeNext == (\E u \in User : Grant(u)) \/ (\E w \in Watcher : Attach(w)) \/ Detach

PipeSpec == PipeInit /\ [][PipeNext]_pipeVars
=============================================================================
