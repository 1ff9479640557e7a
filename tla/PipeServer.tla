----------------------------- MODULE PipeServer -----------------------------
(***************************************************************************)
(* The named-pipe server (src/internal/agent/pipe_windows.go): the accept   *)
(* loop Serve, the goroutine it starts for each ConnectNamedPipe, the       *)
(* readers of adopted clients, and EnsureSDDL on the spawner's goroutine.   *)
(* One action is one section under PipeServer.mu or one system call.        *)
(*                                                                         *)
(* Kernel handles are reused once closed.  An ACE is the account it names.  *)
(* The watchers dial whenever they are not attached.                        *)
(***************************************************************************)
EXTENDS Naturals, FiniteSets

CONSTANTS User,      \* the accounts that may own the console
          Watcher,   \* the watcher processes
          Owner,     \* Owner[w]: the account w runs as
          None,
          Handle,    \* bound: kernel handles open at once
          File,      \* bound: os.File objects, one per reader, alive at once
          GiveUp,    \* dropPendingLocked may run out of its 100 attempts
          MaxHangUps \* bound: watchers' exits of a run

ASSUME PipeAssumption ==
    /\ Owner \in [Watcher -> User]
    /\ None \notin User \cup Watcher \cup Handle \cup File
    /\ GiveUp \in BOOLEAN
    /\ MaxHangUps \in Nat

VARIABLES
    sddl,        \* the account p.sddl names, None for baseSD
    pending,     \* p.pending, None for 0
    client,      \* p.client
    connected,   \* p.connected
    dirty,       \* p.dirty
    inst,        \* the kernel's pipe instances, by handle
    file,        \* the os.File of each reader
    pc,          \* where Serve is
    h,           \* Serve's local handle
    acl,         \* Serve's local copy of sddl
    cg,          \* the connect goroutine: "none", "start", "issued"
    result,      \* connCh: "none", "ok", "err"
    evict,       \* EnsureSDDL sleeps in dropPendingLocked
    replaced,    \* pendingGen has changed since dropPendingLocked read it
    cancelled,   \* ctx is cancelled
    hangups      \* watchers' exits so far

serveVars == <<pc, h, acl>>
pipeState == <<sddl, pending, client, connected, dirty>>
vars == <<pipeState, inst, file, serveVars, cg, result, evict, replaced, cancelled,
          hangups>>

\* An instance: whom it admits, and the watcher at its other end, if any; gone
\* when that watcher closed its end.
Closed == [open |-> FALSE, acl |-> None, peer |-> None, gone |-> FALSE]
Created(u) == [open |-> TRUE, acl |-> u, peer |-> None, gone |-> FALSE]

\* A reader's file: "free" before and after, "reading", or "closing" once it
\* has left its loop; shut when Close was called on it; whose client it is.
NoFile == [st |-> "free", h |-> None, shut |-> FALSE, peer |-> None]

CloseHandle(x) == inst' = [inst EXCEPT ![x] = Closed]

Init ==
    /\ sddl = None /\ pending = None /\ client = None
    /\ connected = FALSE /\ dirty = FALSE
    /\ inst = [x \in Handle |-> Closed]
    /\ file = [f \in File |-> NoFile]
    /\ pc = "top" /\ h = None /\ acl = None
    /\ cg = "none" /\ result = "none"
    /\ evict = FALSE /\ replaced = FALSE
    /\ cancelled = FALSE
    /\ hangups = 0

-----------------------------------------------------------------------------
(* Closing the client's os.File: a second Close is harmless.               *)

ShutClient ==
    IF client = None
    THEN UNCHANGED <<inst, file>>
    ELSE /\ CloseHandle(file[client].h)
         /\ file' = [file EXCEPT ![client].shut = TRUE]

\* Mutated form: the new grant leaves the client alone.
KeepClient == UNCHANGED <<inst, file, client, connected>>

DropClient == ShutClient /\ client' = None /\ connected' = FALSE

-----------------------------------------------------------------------------
(* EnsureSDDL.                                                             *)

\* Mutated form: the connect's answer is the raw Windows error.
CancelAborts ==
    IF cg = "issued" /\ inst[pending].peer = None
    THEN cg' = "none" /\ result' = "aborted"
    ELSE UNCHANGED <<cg, result>>

\* CancelIoEx reaches a ConnectNamedPipe that has been issued and not
\* completed; before that it does nothing.
CancelConnect ==
    IF cg = "issued" /\ inst[pending].peer = None
    THEN cg' = "none" /\ result' = "err"
    ELSE UNCHANGED <<cg, result>>

EnsureSDDL(u) ==
    /\ ~evict
    /\ u # sddl
    /\ sddl' = u
    /\ dirty' = TRUE
    /\ DropClient
    /\ IF pending # None
       THEN CancelConnect /\ evict' = TRUE /\ replaced' = FALSE
       ELSE UNCHANGED <<cg, result, evict, replaced>>
    /\ UNCHANGED <<pending, serveVars, cancelled, hangups>>

\* Awake: Serve has taken the instance, or the cancel is repeated.
EvictDone ==
    /\ evict
    /\ pending = None \/ replaced
    /\ evict' = FALSE
    /\ UNCHANGED <<pipeState, inst, file, serveVars, cg, result, replaced, cancelled, hangups>>

\* Mutated form: cancel once, then only wait.
EvictWaits == evict /\ UNCHANGED vars

EvictAgain ==
    /\ evict
    /\ pending # None /\ ~replaced
    /\ CancelConnect
    /\ UNCHANGED <<pipeState, inst, file, serveVars, evict, replaced, cancelled, hangups>>

\* The hundredth attempt.
EvictGivesUp ==
    /\ GiveUp
    /\ evict
    /\ pending # None /\ ~replaced
    /\ evict' = FALSE
    /\ UNCHANGED <<pipeState, inst, file, serveVars, cg, result, replaced, cancelled, hangups>>

-----------------------------------------------------------------------------
(* Serve.  At "top" pending is always 0 (PendingIsAwaited), so the branches  *)
(* for a pending instance there (lines 136-145) do nothing.                 *)

\* Mutated form: the descriptor is built once.
KeepSDDL == acl' = IF acl = None THEN sddl ELSE acl

LoadSDDL == acl' = sddl

ServeTop ==
    /\ pc = "top" /\ ~cancelled
    /\ LoadSDDL
    /\ dirty' = FALSE
    /\ pc' = "create"
    /\ UNCHANGED <<sddl, pending, client, connected, inst, file, h, cg, result, evict,
                   replaced, cancelled, hangups>>

ServeCreate ==
    /\ pc = "create"
    /\ \E x \in Handle :
          /\ ~inst[x].open
          /\ inst' = [inst EXCEPT ![x] = Created(acl)]
          /\ h' = x
    /\ pc' = "store"
    /\ UNCHANGED <<pipeState, file, acl, cg, result, evict, replaced, cancelled, hangups>>

\* The error return: sleep, then start over.
ServeCreateFails ==
    /\ pc = "create"
    /\ pc' = "top"
    /\ UNCHANGED <<pipeState, inst, file, h, acl, cg, result, evict, replaced, cancelled, hangups>>

\* Mutated form: no second look at dirty.
NeverStale == FALSE

\* The DACL changed while Serve made the instance or waited on it.
Stale == dirty

ServeStore ==
    /\ pc = "store"
    /\ IF Stale
       THEN /\ pc' = "discard"
            /\ UNCHANGED <<pending, replaced, cg>>
       ELSE /\ pending' = h
            /\ replaced' = TRUE
            /\ cg' = "start"
            /\ pc' = "wait"
    /\ UNCHANGED <<sddl, client, connected, dirty, inst, file, h, acl, result, evict, cancelled, hangups>>

\* Mutated form: pending outlives the wait.
KeepPending == UNCHANGED pending

PopPending == pending' = None

\* An answer on connCh: pending is popped before the instance is closed or
\* adopted.
ServeResult ==
    /\ pc = "wait"
    /\ result # "none"
    /\ PopPending
    /\ result' = "none"
    /\ pc' = IF result = "ok" THEN "adopt" ELSE "discard"
    /\ UNCHANGED <<sddl, client, connected, dirty, inst, file, h, acl, cg, evict,
                   replaced, cancelled, hangups>>

\* Mutated form: the instance is forgotten, not closed.
LeakInstance == h' = None /\ UNCHANGED inst

\* DisconnectNamedPipe and CloseHandle.
DropInstance == CloseHandle(h) /\ h' = None

ServeDiscard ==
    /\ pc = "discard"
    /\ DropInstance
    /\ pc' = "top"
    /\ UNCHANGED <<pipeState, file, acl, cg, result, evict, replaced, cancelled, hangups>>

\* The connected instance becomes the client, unless the DACL changed.
ServeAdopt ==
    /\ pc = "adopt"
    /\ ~Stale
    /\ \E f \in File :
          /\ file[f].st = "free"
          /\ file' = [x \in File |->
                        IF x = f THEN [st |-> "reading", h |-> h, shut |-> FALSE,
                                       peer |-> inst[h].peer]
                        ELSE IF x = client THEN [file[x] EXCEPT !.shut = TRUE]
                        ELSE file[x]]
          /\ client' = f
    /\ inst' = IF client = None THEN inst ELSE [inst EXCEPT ![file[client].h] = Closed]
    /\ connected' = TRUE
    /\ h' = None
    /\ pc' = "top"
    /\ UNCHANGED <<sddl, pending, dirty, acl, cg, result, evict, replaced, cancelled, hangups>>

ServeAdoptDirty ==
    /\ pc = "adopt"
    /\ Stale
    /\ DropInstance
    /\ pc' = "top"
    /\ UNCHANGED <<pipeState, file, acl, cg, result, evict, replaced, cancelled, hangups>>

\* ctx.Done while waiting: cancel, pop, then close.  The connect goroutine is
\* not waited for.
ServeCancelled ==
    /\ pc = "wait"
    /\ cancelled
    /\ PopPending
    /\ cg' = "none"
    /\ result' = "none"
    /\ pc' = "close"
    /\ UNCHANGED <<sddl, client, connected, dirty, inst, file, h, acl, evict,
                   replaced, cancelled, hangups>>

ServeClose ==
    /\ pc = "close"
    /\ DropInstance
    /\ pc' = "exit"
    /\ UNCHANGED <<pipeState, file, acl, cg, result, evict, replaced, cancelled, hangups>>

ServeReturns ==
    /\ pc = "top" /\ cancelled
    /\ pc' = "exit"
    /\ UNCHANGED <<pipeState, inst, file, h, acl, cg, result, evict, replaced, cancelled, hangups>>

\* The deferred cleanup.
ServeCleanup ==
    /\ pc = "exit"
    /\ DropClient
    /\ pc' = "done"
    /\ UNCHANGED <<sddl, pending, dirty, h, acl, cg, result, evict, replaced, cancelled, hangups>>

-----------------------------------------------------------------------------
(* The connect goroutine.                                                  *)

\* CreateEvent fails, or ConnectNamedPipe finds a client that came and went.
ConnectFails ==
    /\ cg = "start"
    /\ cg' = "none"
    /\ result' = "err"
    /\ UNCHANGED <<pipeState, inst, file, serveVars, evict, replaced, cancelled, hangups>>

\* ConnectNamedPipe: a client is there already, or the call is pending.
ConnectIssue ==
    /\ cg = "start"
    /\ ~inst[h].gone
    /\ IF inst[h].peer # None
       THEN cg' = "none" /\ result' = "ok"
       ELSE cg' = "issued" /\ UNCHANGED result
    /\ UNCHANGED <<pipeState, inst, file, serveVars, evict, replaced, cancelled, hangups>>

ConnectCompletes ==
    /\ cg = "issued"
    /\ inst[h].peer # None
    /\ cg' = "none"
    /\ result' = "ok"
    /\ UNCHANGED <<pipeState, inst, file, serveVars, evict, replaced, cancelled, hangups>>

-----------------------------------------------------------------------------
(* readClient: it ends when the watcher's end or its own is closed.         *)

\* Mutated form: whoever is the client is detached.
DetachesAny(f) == client # None

Detaches(f) == client = f

ReaderEnds(f) ==
    /\ file[f].st = "reading"
    /\ file[f].shut \/ inst[file[f].h].gone
    /\ IF Detaches(f)
       THEN client' = None /\ connected' = FALSE
       ELSE UNCHANGED <<client, connected>>
    /\ file' = [file EXCEPT ![f].st = "closing"]
    /\ UNCHANGED <<sddl, pending, dirty, inst, serveVars, cg, result, evict, replaced, cancelled, hangups>>

ReaderCloses(f) ==
    /\ file[f].st = "closing"
    /\ IF file[f].shut THEN UNCHANGED inst ELSE CloseHandle(file[f].h)
    /\ file' = [file EXCEPT ![f] = NoFile]
    /\ UNCHANGED <<pipeState, serveVars, cg, result, evict, replaced, cancelled, hangups>>

-----------------------------------------------------------------------------
(* The watchers (dialPipe, process exit) and the service's stop.            *)

Attached(w) == \E x \in Handle : inst[x].peer = w /\ ~inst[x].gone

Dial(w) ==
    /\ ~Attached(w)
    /\ \E x \in Handle :
          /\ inst[x].open /\ inst[x].peer = None /\ inst[x].acl = Owner[w]
          /\ inst' = [inst EXCEPT ![x].peer = w]
    /\ UNCHANGED <<pipeState, file, serveVars, cg, result, evict, replaced, cancelled, hangups>>

HangUp(w) ==
    /\ hangups < MaxHangUps /\ hangups' = hangups + 1
    /\ \E x \in Handle :
          /\ inst[x].peer = w /\ ~inst[x].gone
          /\ inst' = [inst EXCEPT ![x].gone = TRUE]
    /\ UNCHANGED <<pipeState, file, serveVars, cg, result, evict, replaced, cancelled>>

Stop ==
    /\ ~cancelled
    /\ cancelled' = TRUE
    /\ UNCHANGED <<pipeState, inst, file, serveVars, cg, result, evict, replaced, hangups>>

-----------------------------------------------------------------------------
Serve ==
    \/ ServeTop \/ ServeCreate \/ ServeCreateFails \/ ServeStore \/ ServeResult
    \/ ServeDiscard \/ ServeAdopt \/ ServeAdoptDirty \/ ServeCancelled \/ ServeClose
    \/ ServeReturns \/ ServeCleanup

Connect == ConnectFails \/ ConnectIssue \/ ConnectCompletes

Evict == EvictDone \/ EvictAgain \/ EvictGivesUp

Next ==
    \/ Serve
    \/ Connect
    \/ Evict
    \/ \E u \in User : EnsureSDDL(u)
    \/ \E f \in File : ReaderEnds(f) \/ ReaderCloses(f)
    \/ \E w \in Watcher : Dial(w) \/ HangUp(w)
    \/ Stop

Spec == Init /\ [][Next]_vars

\* Goroutines are scheduled; a create and a CreateEvent that are tried for ever
\* succeed some time; a watcher that is not attached keeps dialing (watcher_windows.go:111).
Fairness ==
    /\ WF_vars(Serve) /\ SF_vars(ServeCreate)
    /\ WF_vars(Connect) /\ SF_vars(ConnectIssue)
    /\ WF_vars(Evict)
    /\ \A f \in File : WF_vars(ReaderEnds(f) \/ ReaderCloses(f))
    /\ \A w \in Watcher : WF_vars(Dial(w))

FairSpec == Spec /\ Fairness

-----------------------------------------------------------------------------
(* Safety.                                                                 *)

\* Every variable keeps its type.
TypeOK ==
    /\ sddl \in User \cup {None}
    /\ pending \in Handle \cup {None}
    /\ client \in File \cup {None}
    /\ connected \in BOOLEAN /\ dirty \in BOOLEAN
    /\ inst \in [Handle -> [open : BOOLEAN, acl : User \cup {None},
                            peer : Watcher \cup {None}, gone : BOOLEAN]]
    /\ file \in [File -> [st : {"free", "reading", "closing"}, h : Handle \cup {None},
                          shut : BOOLEAN, peer : Watcher \cup {None}]]
    /\ pc \in {"top", "create", "store", "wait", "discard", "adopt", "close", "exit", "done"}
    /\ h \in Handle \cup {None}
    /\ acl \in User \cup {None}
    /\ cg \in {"none", "start", "issued"}
    /\ result \in {"none", "ok", "err"}
    /\ evict \in BOOLEAN /\ replaced \in BOOLEAN /\ cancelled \in BOOLEAN
    /\ hangups \in 0..MaxHangUps

\* The client belongs to the account the pipe is granted to, its handle is
\* still its own, and Connected reports exactly whether there is a client
\* (lines 62-82, 228-243).
ClientIsCurrent ==
    /\ connected <=> client # None
    /\ client # None =>
          /\ file[client].st = "reading" /\ ~file[client].shut
          /\ Owner[file[client].peer] = sddl
          /\ inst[file[client].h].open /\ inst[file[client].h].peer = file[client].peer

\* Only the client's reader can still publish: a client that was replaced or
\* evicted, or whose place a leaving reader emptied, is cut off (lines 72-78,
\* 237-243, 258-263).
OnlyClientPublishes ==
    \A f \in File : file[f].st = "reading" /\ ~file[f].shut => f = client

\* pending is stored exactly while Serve waits, and names an open instance:
\* the handle dropPendingLocked captured is valid at every cancel (line 89),
\* and the top of the loop never finds a pending instance.
PendingIsAwaited ==
    /\ pending # None <=> pc = "wait"
    /\ pending # None => pending = h /\ inst[h].open

\* Every open handle has exactly one holder, Serve's local or a reader's file,
\* so none leaks and none is closed under another's feet, handle reuse included.
HandlesOwned ==
    /\ \A x \in Handle : inst[x].open <=>
          \/ h = x
          \/ \E f \in File : file[f].h = x /\ ~file[f].shut
    /\ \A f \in File : file[f].h # None /\ ~file[f].shut =>
          /\ h # file[f].h
          /\ \A g \in File \ {f} : file[g].h = file[f].h => file[g].shut

\* Serve never waits on an instance the granted account cannot open, but while
\* EnsureSDDL is evicting it (lines 84-91, 155-157).
NoStaleWait ==
    pc = "wait" /\ inst[h].acl # sddl => evict /\ dirty

\* The pipe implements SamplePipe: grants detach at once, and only a watcher of
\* the granted account is ever attached.
Promise == INSTANCE SamplePipe
    WITH user <- sddl,
         attached <- IF client = None THEN None ELSE file[client].peer

ImplementsSamplePipe == Promise!PipeSpec

-----------------------------------------------------------------------------
(* Liveness.                                                               *)

\* EnsureSDDL returns: the spawner is never stuck on an eviction.
EvictionEnds == evict ~> ~evict

Serves(u) == client # None /\ Owner[file[client].peer] = u

\* While the pipe stays granted to an account with a watcher that dials, one of
\* its watchers is attached sooner or later, whatever the grants before (lines
\* 155-163, 229-236).
Attaches ==
    \A w \in Watcher :
        sddl = Owner[w] ~> Serves(Owner[w]) \/ sddl # Owner[w] \/ cancelled
=============================================================================
