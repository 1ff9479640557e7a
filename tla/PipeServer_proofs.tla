------------------------- MODULE PipeServer_proofs -------------------------
(* Proofs about PipeServer, for every set of accounts, watchers, handles and  *)
(* readers, and whether or not an eviction may give up.                      *)
EXTENDS PipeServer, TLAPS

\* The types of inst and file.
Instances == [Handle -> [open : BOOLEAN, acl : User \cup {None},
                         peer : Watcher \cup {None}, gone : BOOLEAN]]
Files == [File -> [st : {"free", "reading", "closing"}, h : Handle \cup {None},
                   shut : BOOLEAN, peer : Watcher \cup {None}]]

\* A reader's file holds a handle, open and connected to its watcher until somebody
\* shuts it.
FilesOK ==
    \A f \in File :
        \/ file[f] = NoFile
        \/ /\ file[f].st \in {"reading", "closing"}
           /\ file[f].h \in Handle /\ file[f].peer \in Watcher
           /\ ~file[f].shut => /\ inst[file[f].h].open
                               /\ inst[file[f].h].peer = file[f].peer

\* The kernel connects only watchers that the descriptor admits.
InstancesOK ==
    \A x \in Handle :
        /\ ~inst[x].open => inst[x] = Closed
        /\ inst[x].peer # None => inst[x].acl = Owner[inst[x].peer]

\* Serve's local handle, the pending one, the connect goroutine and its channel, by
\* where Serve is.
ServeOK ==
    /\ h # None <=> pc \in {"store", "wait", "discard", "adopt", "close"}
    /\ h # None => inst[h].open
    /\ pending # None <=> pc = "wait"
    /\ pending # None => pending = h
    /\ cg # "none" => pc = "wait" /\ result = "none"
    /\ result # "none" => pc = "wait"
    /\ result = "ok" \/ pc = "adopt" => inst[h].peer # None

\* An instance for another account than the granted one is known to be stale, and
\* while Serve waits on it an eviction is under way or was given up.
FreshOK ==
    /\ pc = "create" /\ ~dirty => acl = sddl
    /\ pc \in {"store", "wait", "adopt"} /\ inst[h].acl # sddl => dirty
    /\ pc = "wait" /\ inst[h].acl # sddl => GiveUp \/ (evict /\ ~replaced)

ClientOK == ClientIsCurrent /\ OnlyClientPublishes

\* The inductive invariant.
IInv == TypeOK /\ FilesOK /\ InstancesOK /\ ServeOK /\ FreshOK /\ ClientOK /\ HandlesOwned

-----------------------------------------------------------------------------
(* The initial states, and the steps that touch no instance, no file and no   *)
(* client.                                                                   *)

LEMMA IInvInit == Init => IInv
  <1> SUFFICES ASSUME Init PROVE IInv
    OBVIOUS
  <1> USE PipeAssumption DEF Init
  <1>1. TypeOK
    <2>1. inst \in Instances
      BY DEF Instances, Closed
    <2>2. file \in Files
      BY DEF Files, NoFile
    <2>3. /\ connected \in BOOLEAN /\ dirty \in BOOLEAN
          /\ evict \in BOOLEAN /\ replaced \in BOOLEAN /\ cancelled \in BOOLEAN
      OBVIOUS
    <2>4. hangups \in 0..MaxHangUps
      OBVIOUS
    <2> QED
      BY <2>1, <2>2, <2>3, <2>4 DEF TypeOK, Instances, Files
  <1>2. FilesOK /\ InstancesOK
    BY DEF FilesOK, InstancesOK, Closed
  <1>3. ServeOK /\ FreshOK
    BY DEF ServeOK, FreshOK
  <1>4. ClientOK
    BY DEF ClientOK, ClientIsCurrent, OnlyClientPublishes, NoFile
  <1>5. HandlesOwned
    BY DEF HandlesOwned, Closed, NoFile
  <1> QED
    BY <1>1, <1>2, <1>3, <1>4, <1>5 DEF IInv

\* What depends on the instances, the files, the client, the grant and Serve's handle.
HeldOK == FilesOK /\ InstancesOK /\ ClientOK /\ HandlesOwned

LEMMA HeldSame ==
  ASSUME HeldOK, UNCHANGED <<inst, file, client, connected, sddl, h>>
  PROVE  HeldOK'
  BY DEF HeldOK, FilesOK, InstancesOK, ClientOK, ClientIsCurrent, OnlyClientPublishes,
         HandlesOwned

LEMMA EvictSteps ==
  ASSUME IInv, Evict \/ Stop
  PROVE  IInv'
  <1> USE DEF pipeState, serveVars
  <1>1. HeldOK'
    BY HeldSame DEF Evict, Stop, EvictDone, EvictAgain, EvictGivesUp, IInv, HeldOK
  <1>2. CASE EvictDone
    <2>1. evict' \in BOOLEAN
      BY <1>2 DEF EvictDone
    <2>2. TypeOK'
      BY <1>2, <2>1 DEF EvictDone, IInv, TypeOK
    <2>3. ServeOK' /\ FreshOK'
      BY <1>2 DEF EvictDone, IInv, ServeOK, FreshOK
    <2> QED
      BY <1>1, <2>2, <2>3 DEF IInv, HeldOK
  <1>3. CASE EvictAgain
    <2>1. TypeOK'
      BY <1>3 DEF EvictAgain, CancelConnect, IInv, TypeOK
    <2>2. ServeOK' /\ FreshOK'
      BY <1>3 DEF EvictAgain, CancelConnect, IInv, ServeOK, FreshOK
    <2> QED
      BY <1>1, <2>1, <2>2 DEF IInv, HeldOK
  <1>4. CASE EvictGivesUp
    <2>1. evict' \in BOOLEAN
      BY <1>4 DEF EvictGivesUp
    <2>2. TypeOK'
      BY <1>4, <2>1 DEF EvictGivesUp, IInv, TypeOK
    <2>3. ServeOK' /\ FreshOK'
      BY <1>4 DEF EvictGivesUp, IInv, ServeOK, FreshOK
    <2> QED
      BY <1>1, <2>2, <2>3 DEF IInv, HeldOK
  <1>5. CASE Stop
    <2>1. cancelled' \in BOOLEAN
      BY <1>5 DEF Stop
    <2>2. TypeOK'
      BY <1>5, <2>1 DEF Stop, IInv, TypeOK
    <2>3. ServeOK' /\ FreshOK'
      BY <1>5 DEF Stop, IInv, ServeOK, FreshOK
    <2> QED
      BY <1>1, <2>2, <2>3 DEF IInv, HeldOK
  <1> QED
    BY <1>2, <1>3, <1>4, <1>5 DEF Evict

LEMMA ConnectSteps ==
  ASSUME IInv, Connect
  PROVE  IInv'
  <1> USE DEF Connect, ConnectFails, ConnectIssue, ConnectCompletes, pipeState, serveVars
  <1>1. HeldOK'
    BY HeldSame DEF IInv, HeldOK
  <1>2. TypeOK'
    BY DEF IInv, TypeOK
  <1>3. ServeOK' /\ FreshOK'
    BY DEF IInv, ServeOK, FreshOK
  <1> QED
    BY <1>1, <1>2, <1>3 DEF IInv, HeldOK

LEMMA LoopSteps ==
  ASSUME IInv,
         ServeTop \/ ServeCreateFails \/ ServeStore \/ ServeResult \/ ServeCancelled
         \/ ServeReturns
  PROVE  IInv'
  <1> USE DEF pipeState, LoadSDDL, Stale, PopPending
  <1>1. HeldOK'
    BY HeldSame DEF ServeTop, ServeCreateFails, ServeStore, ServeResult, ServeCancelled,
                    ServeReturns, IInv, HeldOK
  <1>2. CASE ServeTop
    <2>1. dirty' \in BOOLEAN
      BY <1>2 DEF ServeTop
    <2>2. TypeOK'
      BY <1>2, <2>1 DEF ServeTop, IInv, TypeOK
    <2>3. ServeOK' /\ FreshOK'
      BY <1>2 DEF ServeTop, IInv, ServeOK, FreshOK
    <2> QED
      BY <1>1, <2>2, <2>3 DEF IInv, HeldOK
  <1>3. CASE ServeCreateFails \/ ServeReturns
    <2>1. TypeOK'
      BY <1>3 DEF ServeCreateFails, ServeReturns, IInv, TypeOK
    <2>2. ServeOK' /\ FreshOK'
      BY <1>3 DEF ServeCreateFails, ServeReturns, IInv, ServeOK, FreshOK
    <2> QED
      BY <1>1, <2>1, <2>2 DEF IInv, HeldOK
  <1>4. CASE ServeStore
    <2>1. replaced' \in BOOLEAN
      BY <1>4 DEF ServeStore, IInv, TypeOK
    <2>2. TypeOK'
      BY <1>4, <2>1 DEF ServeStore, IInv, TypeOK
    <2>3. ServeOK'
      BY <1>4, PipeAssumption DEF ServeStore, IInv, ServeOK, TypeOK
    <2>4. FreshOK'
      BY <1>4 DEF ServeStore, IInv, FreshOK, TypeOK
    <2> QED
      BY <1>1, <2>2, <2>3, <2>4 DEF IInv, HeldOK
  <1>5. CASE ServeResult
    <2>1. TypeOK'
      BY <1>5 DEF ServeResult, IInv, TypeOK
    <2>2. ServeOK' /\ FreshOK'
      BY <1>5 DEF ServeResult, IInv, ServeOK, FreshOK
    <2> QED
      BY <1>1, <2>1, <2>2 DEF IInv, HeldOK
  <1>6. CASE ServeCancelled
    <2>1. TypeOK'
      BY <1>6 DEF ServeCancelled, IInv, TypeOK
    <2>2. ServeOK' /\ FreshOK'
      BY <1>6 DEF ServeCancelled, IInv, ServeOK, FreshOK
    <2> QED
      BY <1>1, <2>1, <2>2 DEF IInv, HeldOK
  <1> QED
    BY <1>2, <1>3, <1>4, <1>5, <1>6

-----------------------------------------------------------------------------
(* Serve closes its instance.                                               *)

LEMMA CloseOne ==
  ASSUME inst \in Instances, NEW x \in Handle, inst' = [inst EXCEPT ![x] = Closed]
  PROVE  /\ inst' \in Instances
         /\ inst'[x] = Closed
         /\ \A y \in Handle : y # x => inst'[y] = inst[y]
  BY DEF Instances, Closed

LEMMA DropInstanceKeeps ==
  ASSUME TypeOK, HeldOK, h # None, DropInstance, UNCHANGED <<file, client, connected, sddl>>
  PROVE  /\ HeldOK' /\ inst' \in Instances
         /\ h' = None
  <1> USE DEF DropInstance, CloseHandle
  <1>1. inst \in Instances /\ file \in Files /\ h \in Handle /\ client \in File \cup {None}
    BY DEF TypeOK, Instances, Files
  <1>2. /\ inst' \in Instances
        /\ inst'[h] = Closed
        /\ \A x \in Handle : x # h => inst'[x] = inst[x]
    BY <1>1, CloseOne, PipeAssumption
  <1>3. \A f \in File : file[f].h # None /\ ~file[f].shut => file[f].h # h
    BY DEF HeldOK, HandlesOwned
  <1>4. FilesOK'
    BY <1>1, <1>2, <1>3, PipeAssumption DEF HeldOK, FilesOK
  <1>5. InstancesOK'
    <2>1. Closed.peer = None /\ ~Closed.open
      BY DEF Closed
    <2> QED
      BY <1>1, <1>2, <2>1 DEF HeldOK, InstancesOK
  <1>6. ClientOK'
    <2>1. client # None => file[client].h \in Handle /\ file[client].h # h
      BY <1>1, <1>3, PipeAssumption DEF HeldOK, FilesOK, ClientOK, ClientIsCurrent, NoFile
    <2> QED
      BY <1>1, <1>2, <2>1 DEF HeldOK, ClientOK, ClientIsCurrent, OnlyClientPublishes
  <1>7. HandlesOwned'
    <2>1. ~inst'[h].open
      BY <1>2 DEF Closed
    <2>2. \A f \in File : ~file[f].shut => file[f].h # h
      BY <1>1, <1>3, PipeAssumption
    <2>3. ASSUME NEW x \in Handle
          PROVE  inst'[x].open <=> \E f \in File : file[f].h = x /\ ~file[f].shut
      BY <1>2, <2>1, <2>2 DEF HeldOK, HandlesOwned
    <2> QED
      BY <1>1, <2>3, PipeAssumption DEF HeldOK, HandlesOwned
  <1> QED
    BY <1>2, <1>4, <1>5, <1>6, <1>7 DEF HeldOK

LEMMA CloseSteps ==
  ASSUME IInv, ServeDiscard \/ ServeAdoptDirty \/ ServeClose
  PROVE  IInv'
  <1> USE DEF ServeDiscard, ServeAdoptDirty, ServeClose, pipeState
  <1>1. HeldOK' /\ inst' \in Instances /\ h' = None
    BY DropInstanceKeeps DEF IInv, HeldOK, ServeOK
  <1>2. TypeOK'
    BY <1>1 DEF IInv, TypeOK, Instances
  <1>3. ServeOK' /\ FreshOK'
    BY <1>1 DEF IInv, ServeOK, FreshOK
  <1> QED
    BY <1>1, <1>2, <1>3 DEF IInv, HeldOK

-----------------------------------------------------------------------------
(* A new instance, a watcher that connects, a watcher that leaves.            *)

LEMMA CreateStep == IInv /\ ServeCreate => IInv'
  <1> SUFFICES ASSUME IInv, ServeCreate PROVE IInv'
    OBVIOUS
  <1> USE DEF ServeCreate, pipeState
  <1>1. PICK x \in Handle : /\ ~inst[x].open
                            /\ inst' = [inst EXCEPT ![x] = Created(acl)]
                            /\ h' = x
    OBVIOUS
  <1>2. inst \in Instances /\ file \in Files /\ acl \in User \cup {None} /\ client \in File \cup {None}
    BY DEF IInv, TypeOK, Instances, Files
  <1>3. /\ inst' \in Instances
        /\ inst'[x] = Created(acl)
        /\ \A y \in Handle : y # x => inst'[y] = inst[y]
    BY <1>1, <1>2 DEF Instances, Created
  <1>4. TypeOK'
    BY <1>1, <1>3 DEF IInv, TypeOK, Instances
  <1>5. h = None
    BY DEF IInv, ServeOK
  <1>6. \A f \in File : ~file[f].shut => file[f].h # x
    BY <1>1 DEF IInv, HandlesOwned
  <1>7. FilesOK'
    BY <1>1, <1>2, <1>3, <1>6 DEF IInv, FilesOK
  <1>8. InstancesOK'
    BY <1>1, <1>3 DEF IInv, InstancesOK, Created
  <1>9. ServeOK'
    BY <1>1, <1>3, PipeAssumption DEF IInv, ServeOK, Created, TypeOK
  <1>10. FreshOK'
    BY <1>1, <1>3 DEF IInv, FreshOK, Created
  <1>11. ClientOK'
    <2>1. client # None => file[client].h \in Handle /\ file[client].h # x
      BY <1>2, <1>6, PipeAssumption DEF IInv, FilesOK, ClientOK, ClientIsCurrent, NoFile
    <2> QED
      BY <1>2, <1>3, <2>1 DEF IInv, ClientOK, ClientIsCurrent, OnlyClientPublishes
  <1>12. HandlesOwned'
    <2>1. ASSUME NEW y \in Handle
          PROVE  inst'[y].open <=> y = x \/ \E f \in File : file[f].h = y /\ ~file[f].shut
      BY <1>1, <1>3, <1>5, PipeAssumption DEF IInv, HandlesOwned, Created
    <2> QED
      BY <1>1, <1>6, <2>1 DEF IInv, HandlesOwned
  <1> QED
    BY <1>4, <1>7, <1>8, <1>9, <1>10, <1>11, <1>12 DEF IInv

\* A change of an open instance's other end alone, to one its descriptor admits.
LEMMA EndChanges ==
  ASSUME IInv, NEW x \in Handle, inst' \in Instances,
         \A y \in Handle : /\ inst'[y].open = inst[y].open
                           /\ inst'[y].acl = inst[y].acl
                           /\ y # x => inst'[y] = inst[y],
         inst'[x].peer = inst[x].peer \/ inst[x].peer = None,
         inst[x].open,
         inst'[x].peer # None => inst[x].acl = Owner[inst'[x].peer],
         UNCHANGED <<pipeState, file, serveVars, cg, result, evict, replaced, cancelled>>,
         hangups' \in 0..MaxHangUps
  PROVE  IInv'
  <1> USE DEF pipeState, serveVars
  <1>1. file \in Files /\ h \in Handle \cup {None} /\ client \in File \cup {None}
    BY DEF IInv, TypeOK, Files
  <1>2. TypeOK'
    BY DEF IInv, TypeOK, Instances
  <1>3. \A y \in Handle : inst[y].peer # None => inst'[y].peer = inst[y].peer
    OBVIOUS
  <1>4. FilesOK'
    BY <1>3, PipeAssumption DEF IInv, FilesOK
  <1>5. InstancesOK'
    BY DEF IInv, InstancesOK
  <1>6. ServeOK'
    BY <1>1, <1>3 DEF IInv, ServeOK
  <1>7. FreshOK'
    BY <1>1 DEF IInv, FreshOK, ServeOK
  <1>8. ClientOK'
    <2>1. client # None => file[client].h \in Handle /\ file[client].peer # None
      BY <1>1, PipeAssumption DEF IInv, FilesOK, ClientOK, ClientIsCurrent, NoFile
    <2> QED
      BY <1>1, <1>3, <2>1 DEF IInv, ClientOK, ClientIsCurrent, OnlyClientPublishes
  <1>9. HandlesOwned'
    BY DEF IInv, HandlesOwned
  <1> QED
    BY <1>2, <1>4, <1>5, <1>6, <1>7, <1>8, <1>9 DEF IInv

LEMMA WatcherSteps ==
  ASSUME IInv, NEW w \in Watcher, Dial(w) \/ HangUp(w)
  PROVE  IInv'
  <1>1. inst \in Instances /\ hangups \in 0..MaxHangUps
    BY DEF IInv, TypeOK, Instances
  <1>2. CASE Dial(w)
    <2>1. PICK x \in Handle : /\ inst[x].open /\ inst[x].peer = None /\ inst[x].acl = Owner[w]
                              /\ inst' = [inst EXCEPT ![x].peer = w]
      BY <1>2 DEF Dial
    <2>2. inst' \in Instances /\ inst'[x].peer = w
      BY <1>1, <2>1 DEF Instances
    <2>3. \A y \in Handle : /\ inst'[y].open = inst[y].open
                            /\ inst'[y].acl = inst[y].acl
                            /\ y # x => inst'[y] = inst[y]
      BY <1>1, <2>1 DEF Instances
    <2>4. /\ inst'[x].peer = inst[x].peer \/ inst[x].peer = None
          /\ inst'[x].peer # None => inst[x].acl = Owner[inst'[x].peer]
      BY <2>1, <2>2
    <2>5. /\ UNCHANGED <<pipeState, file, serveVars, cg, result, evict, replaced, cancelled>>
          /\ hangups' \in 0..MaxHangUps
      BY <1>1, <1>2 DEF Dial
    <2> QED
      BY <2>1, <2>2, <2>3, <2>4, <2>5, EndChanges
  <1>3. CASE HangUp(w)
    <2>1. PICK x \in Handle : /\ inst[x].peer = w /\ ~inst[x].gone
                              /\ inst' = [inst EXCEPT ![x].gone = TRUE]
      BY <1>3 DEF HangUp
    <2>2. inst' \in Instances /\ inst'[x].peer = w
      BY <1>1, <2>1 DEF Instances
    <2>3. \A y \in Handle : /\ inst'[y].open = inst[y].open
                            /\ inst'[y].acl = inst[y].acl
                            /\ y # x => inst'[y] = inst[y]
      BY <1>1, <2>1 DEF Instances
    <2>4. inst[x].open /\ inst[x].acl = Owner[w]
      BY <2>1, PipeAssumption DEF IInv, InstancesOK, Closed
    <2>5. hangups' \in 0..MaxHangUps
      BY <1>1, <1>3, PipeAssumption DEF HangUp
    <2>6. /\ inst'[x].peer = inst[x].peer \/ inst[x].peer = None
          /\ inst'[x].peer # None => inst[x].acl = Owner[inst'[x].peer]
      BY <2>1, <2>2, <2>4
    <2>7. UNCHANGED <<pipeState, file, serveVars, cg, result, evict, replaced, cancelled>>
      BY <1>3 DEF HangUp
    <2> QED
      BY <2>2, <2>3, <2>4, <2>5, <2>6, <2>7, EndChanges
  <1> QED
    BY <1>2, <1>3

-----------------------------------------------------------------------------
(* The client is closed: by a grant and by Serve's cleanup.                  *)

LEMMA DropClientKeeps ==
  ASSUME TypeOK, HeldOK, DropClient, UNCHANGED h
  PROVE  /\ HeldOK' /\ inst' \in Instances /\ file' \in Files
         /\ client' = None /\ connected' \in BOOLEAN
         /\ h # None => inst'[h] = inst[h]
  <1> USE DEF DropClient, ShutClient, CloseHandle
  <1>1. inst \in Instances /\ file \in Files /\ h \in Handle \cup {None} /\ client \in File \cup {None}
    BY DEF TypeOK, Instances, Files
  <1>2. Closed.peer = None /\ ~Closed.open
    BY DEF Closed
  <1>3. connected' \in BOOLEAN
    OBVIOUS
  <1>4. CASE client = None
    <2>1. ClientOK'
      BY <1>1, <1>4 DEF HeldOK, ClientOK, ClientIsCurrent, OnlyClientPublishes
    <2>2. FilesOK' /\ InstancesOK' /\ HandlesOwned'
      BY <1>4 DEF HeldOK, FilesOK, InstancesOK, HandlesOwned
    <2> QED
      BY <1>1, <1>3, <1>4, <2>1, <2>2 DEF HeldOK
  <1>5. CASE client # None
    <2> DEFINE x == file[client].h
    <2>1. client \in File /\ file[client].st = "reading" /\ ~file[client].shut
      BY <1>1, <1>5 DEF HeldOK, ClientOK, ClientIsCurrent
    <2>2. x \in Handle /\ h # x
      BY <2>1, PipeAssumption DEF HeldOK, FilesOK, HandlesOwned, NoFile
    <2>3. /\ inst' \in Instances /\ inst'[x] = Closed
          /\ \A y \in Handle : y # x => inst'[y] = inst[y]
      <3>1. inst' = [inst EXCEPT ![x] = Closed]
        BY <1>5
      <3> QED
        BY <1>1, <2>2, <3>1, CloseOne
    <2>4. /\ file' \in Files
          /\ \A f \in File \ {client} : file'[f] = file[f]
          /\ file'[client].shut /\ file'[client].st = file[client].st
          /\ file'[client].h = x /\ file'[client].peer = file[client].peer
      <3>1. file' = [file EXCEPT ![client].shut = TRUE]
        BY <1>5
      <3> HIDE DEF DropClient, ShutClient, CloseHandle
      <3> QED
        BY <1>1, <2>1, <3>1 DEF Files
    <2>5. \A f \in File \ {client} : ~file[f].shut => file[f].h # x
      BY <2>1, <2>2, PipeAssumption DEF HeldOK, HandlesOwned
    <2>6. FilesOK'
      <3>1. ASSUME NEW f \in File \ {client}
            PROVE  \/ file'[f] = NoFile
                   \/ /\ file'[f].st \in {"reading", "closing"}
                      /\ file'[f].h \in Handle /\ file'[f].peer \in Watcher
                      /\ ~file'[f].shut => /\ inst'[file'[f].h].open
                                           /\ inst'[file'[f].h].peer = file'[f].peer
        BY <2>3, <2>4, <2>5 DEF HeldOK, FilesOK
      <3>2. file[client].peer \in Watcher
        BY <2>1 DEF HeldOK, FilesOK, NoFile
      <3> QED
        BY <2>1, <2>2, <2>4, <3>1, <3>2 DEF FilesOK
    <2>7. InstancesOK'
      BY <1>2, <2>2, <2>3 DEF HeldOK, InstancesOK
    <2>8. ClientOK'
      BY <1>5, <2>1, <2>4 DEF HeldOK, ClientOK, ClientIsCurrent, OnlyClientPublishes
    <2>9. HandlesOwned'
      <3>1. ASSUME NEW y \in Handle
            PROVE  inst'[y].open <=> h = y \/ \E f \in File : file'[f].h = y /\ ~file'[f].shut
        BY <1>2, <2>1, <2>2, <2>3, <2>4, <2>5 DEF HeldOK, HandlesOwned
      <3>2. ASSUME NEW f \in File, file'[f].h # None, ~file'[f].shut
            PROVE  /\ h # file'[f].h
                   /\ \A g \in File \ {f} : file'[g].h = file'[f].h => file'[g].shut
        BY <2>1, <2>4, <3>2 DEF HeldOK, HandlesOwned
      <3> QED
        BY <3>1, <3>2 DEF HandlesOwned
    <2>10. h # None => inst'[h] = inst[h]
      BY <1>1, <2>2, <2>3
    <2> QED
      BY <1>3, <2>3, <2>4, <2>6, <2>7, <2>8, <2>9, <2>10 DEF HeldOK
  <1> QED
    BY <1>4, <1>5

LEMMA GrantStep ==
  ASSUME IInv, NEW u \in User, EnsureSDDL(u)
  PROVE  IInv'
  <1> USE DEF EnsureSDDL, serveVars
  <1>1. /\ HeldOK' /\ inst' \in Instances /\ file' \in Files
        /\ client' = None /\ connected' \in BOOLEAN
        /\ h # None => inst'[h] = inst[h]
    BY DropClientKeeps DEF IInv, HeldOK
  <1>2. dirty' \in BOOLEAN /\ evict' \in BOOLEAN /\ replaced' \in BOOLEAN
    BY DEF IInv, TypeOK
  <1>3. /\ cg' \in {"none", "start", "issued"} /\ result' \in {"none", "ok", "err"}
        /\ cg' # "none" => cg # "none"
        /\ result' # result => pending # None /\ result' = "err" /\ cg' = "none"
    BY DEF CancelConnect, IInv, TypeOK
  <1>4. TypeOK'
    BY <1>1, <1>2, <1>3 DEF IInv, TypeOK, Instances, Files
  <1>5. ServeOK'
    BY <1>1, <1>3 DEF IInv, ServeOK
  <1>6. FreshOK'
    BY DEF IInv, ServeOK, FreshOK
  <1> QED
    BY <1>1, <1>4, <1>5, <1>6 DEF IInv, HeldOK

LEMMA CleanupStep == IInv /\ ServeCleanup => IInv'
  <1> SUFFICES ASSUME IInv, ServeCleanup PROVE IInv'
    OBVIOUS
  <1> USE DEF ServeCleanup
  <1>1. /\ HeldOK' /\ inst' \in Instances /\ file' \in Files
        /\ client' = None /\ connected' \in BOOLEAN
        /\ h # None => inst'[h] = inst[h]
    BY DropClientKeeps DEF IInv, HeldOK
  <1>2. TypeOK'
    BY <1>1 DEF IInv, TypeOK, Instances, Files
  <1>3. ServeOK' /\ FreshOK'
    BY <1>1 DEF IInv, ServeOK, FreshOK
  <1> QED
    BY <1>1, <1>2, <1>3 DEF IInv, HeldOK

-----------------------------------------------------------------------------
(* The readers.                                                             *)

LEMMA ReaderEndsStep ==
  ASSUME IInv, NEW f \in File, ReaderEnds(f)
  PROVE  IInv'
  <1> USE DEF ReaderEnds, Detaches, serveVars
  <1>1. inst \in Instances /\ file \in Files /\ client \in File \cup {None} /\ h \in Handle \cup {None}
    BY DEF IInv, TypeOK, Instances, Files
  <1>2. /\ file' \in Files
        /\ \A g \in File \ {f} : file'[g] = file[g]
        /\ file'[f].st = "closing" /\ file'[f].shut = file[f].shut
        /\ file'[f].h = file[f].h /\ file'[f].peer = file[f].peer
    BY <1>1 DEF Files
  <1>3. connected' \in BOOLEAN /\ client' \in File \cup {None}
    BY DEF IInv, TypeOK
  <1>4. TypeOK'
    BY <1>2, <1>3 DEF IInv, TypeOK, Files
  <1>5. FilesOK'
    <2>1. file[f] # NoFile
      BY DEF NoFile
    <2> QED
      BY <1>2, <2>1 DEF IInv, FilesOK
  <1>6. InstancesOK' /\ ServeOK' /\ FreshOK'
    BY DEF IInv, InstancesOK, ServeOK, FreshOK
  <1>7. ClientOK'
    BY <1>1, <1>2, PipeAssumption DEF IInv, ClientOK, ClientIsCurrent, OnlyClientPublishes
  <1>8. HandlesOwned'
    BY <1>2 DEF IInv, HandlesOwned
  <1> QED
    BY <1>4, <1>5, <1>6, <1>7, <1>8 DEF IInv

LEMMA ReaderClosesStep ==
  ASSUME IInv, NEW f \in File, ReaderCloses(f)
  PROVE  IInv'
  <1> USE DEF ReaderCloses, CloseHandle, serveVars, pipeState
  <1> DEFINE x == file[f].h
  <1>1. inst \in Instances /\ file \in Files /\ client \in File \cup {None} /\ h \in Handle \cup {None}
    BY DEF IInv, TypeOK, Instances, Files
  <1>2. Closed.peer = None /\ ~Closed.open
    BY DEF Closed
  <1>3. x \in Handle
    BY DEF IInv, FilesOK, NoFile
  <1>4. /\ file' \in Files
        /\ \A g \in File \ {f} : file'[g] = file[g]
        /\ file'[f] = NoFile
    BY <1>1, PipeAssumption DEF Files, NoFile
  <1>5. /\ inst' \in Instances
        /\ ~file[f].shut => inst'[x] = Closed
        /\ \A y \in Handle : y # x \/ file[f].shut => inst'[y] = inst[y]
    <2>1. CASE file[f].shut
      BY <1>1, <2>1
    <2>2. CASE ~file[f].shut
      <3>1. inst' = [inst EXCEPT ![x] = Closed]
        BY <2>2
      <3> QED
        BY <1>1, <1>3, <2>2, <3>1, CloseOne
    <2> QED
      BY <2>1, <2>2
  <1>6. /\ ~file[f].shut => h # x
        /\ ~file[f].shut => \A g \in File \ {f} : ~file[g].shut => file[g].h # x
    BY <1>3, PipeAssumption DEF IInv, HandlesOwned
  <1>7. client # f
    BY PipeAssumption DEF IInv, ClientOK, ClientIsCurrent
  <1>8. TypeOK'
    BY <1>4, <1>5 DEF IInv, TypeOK, Instances, Files
  <1>9. FilesOK'
    BY <1>4, <1>5, <1>6 DEF IInv, FilesOK
  <1>10. InstancesOK'
    BY <1>2, <1>3, <1>5 DEF IInv, InstancesOK
  <1>11. h # None => inst'[h] = inst[h]
    BY <1>1, <1>5, <1>6
  <1>12. ServeOK' /\ FreshOK'
    BY <1>11 DEF IInv, ServeOK, FreshOK
  <1>13. ClientOK'
    <2>1. ClientIsCurrent'
      <3>1. client # None => /\ file'[client] = file[client]
                             /\ file[client].h \in Handle
                             /\ inst'[file[client].h] = inst[file[client].h]
        BY <1>1, <1>4, <1>5, <1>6, <1>7 DEF IInv, FilesOK, ClientOK, ClientIsCurrent, NoFile
      <3> QED
        BY <3>1 DEF IInv, ClientOK, ClientIsCurrent
    <2>2. OnlyClientPublishes'
      BY <1>4 DEF IInv, ClientOK, OnlyClientPublishes, NoFile
    <2> QED
      BY <2>1, <2>2 DEF ClientOK
  <1>14. HandlesOwned'
    <2>1. file'[f].h = None
      BY <1>4 DEF NoFile
    <2>2. ASSUME NEW y \in Handle
          PROVE  inst'[y].open <=> h = y \/ \E g \in File : file'[g].h = y /\ ~file'[g].shut
      BY <1>2, <1>3, <1>4, <1>5, <1>6, <2>1, PipeAssumption DEF IInv, HandlesOwned
    <2>3. ASSUME NEW g \in File, file'[g].h # None, ~file'[g].shut
          PROVE  /\ h # file'[g].h
                 /\ \A k \in File \ {g} : file'[k].h = file'[g].h => file'[k].shut
      BY <1>4, <2>1, <2>3 DEF IInv, HandlesOwned
    <2> QED
      BY <2>2, <2>3 DEF HandlesOwned
  <1> QED
    BY <1>8, <1>9, <1>10, <1>12, <1>13, <1>14 DEF IInv

-----------------------------------------------------------------------------
(* The instance becomes the client's.                                        *)

LEMMA AdoptStep == IInv /\ ServeAdopt => IInv'
  <1> SUFFICES ASSUME IInv, ServeAdopt PROVE IInv'
    OBVIOUS
  <1> USE DEF ServeAdopt, Stale
  <1>1. /\ inst \in Instances /\ file \in Files /\ client \in File \cup {None}
        /\ h \in Handle /\ inst[h].open /\ inst[h].peer \in Watcher
    BY DEF IInv, TypeOK, Instances, Files, ServeOK
  <1>2. PICK f \in File :
          /\ file[f].st = "free"
          /\ file' = [x \in File |->
                        IF x = f THEN [st |-> "reading", h |-> h, shut |-> FALSE,
                                       peer |-> inst[h].peer]
                        ELSE IF x = client THEN [file[x] EXCEPT !.shut = TRUE]
                        ELSE file[x]]
          /\ client' = f
    OBVIOUS
  <1>3. file[f] = NoFile /\ client # f /\ file[f].h = None
    <2>1. file[f] = NoFile
      BY <1>2 DEF IInv, FilesOK
    <2>2. client # f
      BY <1>2, PipeAssumption DEF IInv, ClientOK, ClientIsCurrent
    <2> QED
      BY <2>1, <2>2 DEF NoFile
  <1>4. /\ file' \in Files
        /\ file'[f].st = "reading" /\ file'[f].h = h /\ ~file'[f].shut
        /\ file'[f].peer = inst[h].peer
        /\ \A g \in File \ {f, client} : file'[g] = file[g]
    <2> DEFINE new == [st |-> "reading", h |-> h, shut |-> FALSE, peer |-> inst[h].peer]
               rec == [st : {"free", "reading", "closing"}, h : Handle \cup {None},
                       shut : BOOLEAN, peer : Watcher \cup {None}]
    <2>1. new \in rec
      BY <1>1
    <2>2. \A g \in File : file[g] \in rec /\ [file[g] EXCEPT !.shut = TRUE] \in rec
      <3>1. \A g \in File : file[g] \in rec
        BY <1>1 DEF Files
      <3>2. \A r \in rec : [r EXCEPT !.shut = TRUE] \in rec
        OBVIOUS
      <3> QED
        BY <3>1, <3>2
    <2>3. file' \in Files
      BY <1>2, <2>1, <2>2 DEF Files
    <2>4. file'[f] = new /\ \A g \in File \ {f, client} : file'[g] = file[g]
      BY <1>2
    <2> QED
      BY <2>3, <2>4
  <1>5. client # None => /\ client \in File
                         /\ file'[client].shut /\ file'[client].st = file[client].st
                         /\ file'[client].h = file[client].h
                         /\ file'[client].peer = file[client].peer
    BY <1>1, <1>2, <1>3 DEF Files
  <1>6. client # None => /\ file[client].st = "reading" /\ ~file[client].shut
                         /\ file[client].h \in Handle /\ file[client].h # h
                         /\ file[client].peer \in Watcher
    BY <1>5, PipeAssumption DEF IInv, ClientOK, ClientIsCurrent, FilesOK, HandlesOwned, NoFile
  <1>7. /\ inst' \in Instances
        /\ client # None => inst'[file[client].h] = Closed
        /\ \A y \in Handle : client = None \/ y # file[client].h => inst'[y] = inst[y]
    <2>1. CASE client = None
      BY <1>1, <2>1
    <2>2. CASE client # None
      <3>1. inst' = [inst EXCEPT ![file[client].h] = Closed]
        BY <2>2
      <3> QED
        BY <1>1, <1>6, <2>2, <3>1, CloseOne
    <2> QED
      BY <2>1, <2>2
  <1>8. Closed.peer = None /\ ~Closed.open
    BY DEF Closed
  <1>9. \A g \in File \ {client} : client # None /\ ~file[g].shut => file[g].h # file[client].h
    BY <1>5, <1>6, PipeAssumption DEF IInv, HandlesOwned
  <1>10. inst'[h] = inst[h]
    BY <1>1, <1>6, <1>7
  <1>11. TypeOK'
    <2>1. connected' \in BOOLEAN
      OBVIOUS
    <2> QED
      BY <1>2, <1>4, <1>7, <2>1 DEF IInv, TypeOK, Instances, Files
  <1>12. FilesOK'
    <2>1. ASSUME NEW g \in File \ {f, client}
          PROVE  \/ file'[g] = NoFile
                 \/ /\ file'[g].st \in {"reading", "closing"}
                    /\ file'[g].h \in Handle /\ file'[g].peer \in Watcher
                    /\ ~file'[g].shut => /\ inst'[file'[g].h].open
                                         /\ inst'[file'[g].h].peer = file'[g].peer
      BY <1>4, <1>7, <1>9 DEF IInv, FilesOK
    <2> HIDE DEF ServeAdopt
    <2>2. /\ file'[f].st = "reading" /\ file'[f].h \in Handle /\ file'[f].peer \in Watcher
          /\ inst'[file'[f].h].open /\ inst'[file'[f].h].peer = file'[f].peer
      BY <1>1, <1>4, <1>10
    <2>3. client # None => /\ file'[client].st = "reading" /\ file'[client].shut
                           /\ file'[client].h \in Handle /\ file'[client].peer \in Watcher
      BY <1>5, <1>6
    <2>4. ASSUME NEW g \in File PROVE g = f \/ g = client \/ g \in File \ {f, client}
      OBVIOUS
    <2>5. client \in File => client # None
      BY PipeAssumption
    <2> QED
      BY <2>1, <2>2, <2>3, <2>4, <2>5 DEF FilesOK
  <1>13. InstancesOK'
    BY <1>6, <1>7, <1>8 DEF IInv, InstancesOK
  <1>14. ServeOK'
    BY PipeAssumption DEF IInv, ServeOK
  <1>15. FreshOK'
    BY DEF IInv, FreshOK
  <1>16. ClientOK'
    <2>1. Owner[inst[h].peer] = sddl
      BY <1>1, PipeAssumption DEF IInv, FreshOK, InstancesOK
    <2>2. ClientIsCurrent'
      BY <1>1, <1>2, <1>4, <1>10, <2>1, PipeAssumption DEF ClientIsCurrent
    <2>3. OnlyClientPublishes'
      BY <1>1, <1>2, <1>4, <1>5 DEF IInv, ClientOK, OnlyClientPublishes
    <2> QED
      BY <2>2, <2>3 DEF ClientOK
  <1>17. HandlesOwned'
    <2>1. \A g \in File : ~file[g].shut => file[g].h # h
      BY <1>1, PipeAssumption DEF IInv, HandlesOwned
    <2>2. ASSUME NEW y \in Handle
          PROVE  inst'[y].open <=> \E g \in File : file'[g].h = y /\ ~file'[g].shut
      <3>1. CASE y = h
        BY <1>1, <1>4, <1>10, <3>1
      <3>2. CASE client # None /\ y = file[client].h
        BY <1>4, <1>5, <1>6, <1>7, <1>8, <1>9, <3>2
      <3>3. CASE y # h /\ (client = None \/ y # file[client].h)
        <4>1. inst'[y].open <=> \E g \in File : file[g].h = y /\ ~file[g].shut
          BY <1>7, <3>3 DEF IInv, HandlesOwned
        <4> HIDE DEF ServeAdopt
        <4>2. ASSUME NEW g \in File
              PROVE  file'[g].h = y /\ ~file'[g].shut <=> file[g].h = y /\ ~file[g].shut
          <5>1. CASE g = f
            BY <1>1, <1>3, <1>4, <3>3, <5>1, PipeAssumption
          <5>2. CASE g = client
            BY <1>5, <1>6, <3>3, <5>2, PipeAssumption
          <5>3. CASE g \in File \ {f, client}
            BY <1>4, <5>3
          <5> QED
            BY <5>1, <5>2, <5>3
        <4> QED
          BY <4>1, <4>2
      <3> QED
        BY <3>1, <3>2, <3>3
    <2>3. ASSUME NEW g \in File, file'[g].h # None, ~file'[g].shut
          PROVE  \A k \in File \ {g} : file'[k].h = file'[g].h => file'[k].shut
      <3>1. CASE g = f
        BY <1>4, <1>5, <2>1, <3>1
      <3>2. CASE g # f
        <4>1. g # client /\ file'[g] = file[g]
          BY <1>4, <1>5, <2>3, <3>2, PipeAssumption
        <4>2. file[g].h # h
          BY <2>1, <2>3, <4>1
        <4> QED
          BY <1>4, <1>5, <2>3, <4>1, <4>2 DEF IInv, HandlesOwned
      <3> QED
        BY <3>1, <3>2
    <2> QED
      BY <2>2, <2>3, PipeAssumption DEF HandlesOwned
  <1> QED
    BY <1>11, <1>12, <1>13, <1>14, <1>15, <1>16, <1>17 DEF IInv

-----------------------------------------------------------------------------
(* The invariant and what follows from it.                                    *)

LEMMA IInvNext == IInv /\ [Next]_vars => IInv'
  <1> SUFFICES ASSUME IInv, [Next]_vars PROVE IInv'
    OBVIOUS
  <1>1. CASE Serve
    BY <1>1, LoopSteps, CloseSteps, CreateStep, AdoptStep, CleanupStep DEF Serve
  <1>2. CASE Connect
    BY <1>2, ConnectSteps
  <1>3. CASE Evict \/ Stop
    BY <1>3, EvictSteps
  <1>4. CASE \E u \in User : EnsureSDDL(u)
    BY <1>4, GrantStep
  <1>5. CASE \E f \in File : ReaderEnds(f) \/ ReaderCloses(f)
    BY <1>5, ReaderEndsStep, ReaderClosesStep
  <1>6. CASE \E w \in Watcher : Dial(w) \/ HangUp(w)
    BY <1>6, WatcherSteps
  <1>7. CASE UNCHANGED vars
    <2>1. HeldOK'
      BY <1>7, HeldSame DEF vars, pipeState, serveVars, IInv, HeldOK
    <2>2. TypeOK' /\ ServeOK' /\ FreshOK'
      BY <1>7 DEF vars, pipeState, serveVars, IInv, TypeOK, ServeOK, FreshOK
    <2> QED
      BY <2>1, <2>2 DEF IInv, HeldOK
  <1> QED
    BY <1>1, <1>2, <1>3, <1>4, <1>5, <1>6, <1>7 DEF Next

\* The invariant holds throughout every run, whatever grants, faults and handle reuse
\* interleave (pipe_windows.go:58-263).
THEOREM InvAlways == Spec => []IInv
  <1>1. Init => IInv
    BY IInvInit
  <1>2. IInv /\ [Next]_vars => IInv'
    BY IInvNext
  <1> QED
    BY <1>1, <1>2, PTL DEF Spec

\* The variables keep their types.
THEOREM TypeCorrect == Spec => []TypeOK
  <1>1. IInv => TypeOK
    BY DEF IInv
  <1> QED
    BY <1>1, InvAlways, PTL

\* The client is the granted account's, its handle is its own, and Connected tells
\* whether there is one (pipe_windows.go:62-82, 228-243).
THEOREM ClientCurrent == Spec => []ClientIsCurrent
  <1>1. IInv => ClientIsCurrent
    BY DEF IInv, ClientOK
  <1> QED
    BY <1>1, InvAlways, PTL

\* A reader that was replaced or evicted is cut off (pipe_windows.go:72-78, 237-243).
THEOREM OneReader == Spec => []OnlyClientPublishes
  <1>1. IInv => OnlyClientPublishes
    BY DEF IInv, ClientOK
  <1> QED
    BY <1>1, InvAlways, PTL

\* The pending handle names an open instance while Serve waits, and nothing else: a
\* cancel never reaches a handle closed or reused (pipe_windows.go:84-120).
THEOREM PendingAwaited == Spec => []PendingIsAwaited
  <1>1. IInv => PendingIsAwaited
    BY DEF IInv, ServeOK, PendingIsAwaited
  <1> QED
    BY <1>1, InvAlways, PTL

\* Every open handle has one holder, however handles are reused
\* (pipe_windows.go:194-250).
THEOREM OneHolder == Spec => []HandlesOwned
  <1>1. IInv => HandlesOwned
    BY DEF IInv
  <1> QED
    BY <1>1, InvAlways, PTL

\* As long as evictions do not give up, Serve waits on an instance of another account
\* only while it is being evicted (pipe_windows.go:84-120).
THEOREM WaitsFresh == ~GiveUp => (Spec => []NoStaleWait)
  <1> SUFFICES ASSUME ~GiveUp PROVE Spec => []NoStaleWait
    OBVIOUS
  <1>1. IInv => NoStaleWait
    BY DEF IInv, FreshOK, NoStaleWait
  <1> QED
    BY <1>1, InvAlways, PTL

-----------------------------------------------------------------------------
(* The pipe implements SamplePipe.                                           *)

\* Every step is a grant, an attachment, a detachment or a stutter.
LEMMA StepsArePipeSteps == IInv /\ [Next]_vars => [Promise!PipeNext]_(Promise!pipeVars)
  <1> SUFFICES ASSUME IInv, Next
               PROVE  Promise!PipeNext \/ UNCHANGED Promise!pipeVars
    BY DEF vars, pipeState, Promise!pipeVars
  <1> DEFINE Who == IF client = None THEN None ELSE file[client].peer
  <1> USE DEF pipeState, serveVars
  <1>1. client \in File \cup {None} /\ file \in Files /\ h \in Handle \cup {None}
    BY DEF IInv, TypeOK, Files
  <1>2. client # None => file[client].peer \in Watcher
    BY <1>1, PipeAssumption DEF IInv, FilesOK, ClientOK, ClientIsCurrent, NoFile
  <1>3. CASE Serve
    <2>1. CASE ServeAdopt
      <3>1. inst[h].peer \in Watcher /\ Owner[inst[h].peer] = sddl
        BY <2>1, PipeAssumption
           DEF ServeAdopt, Stale, IInv, TypeOK, ServeOK, FreshOK, InstancesOK
      <3>2. client' \in File /\ file'[client'].peer = inst[h].peer
        BY <2>1 DEF ServeAdopt
      <3>3. Promise!Attach(inst[h].peer)
        BY <2>1, <3>1, <3>2, PipeAssumption DEF ServeAdopt, Promise!Attach
      <3> QED
        BY <3>1, <3>3 DEF Promise!PipeNext
    <2>2. CASE ServeCleanup
      BY <1>2, <2>2, PipeAssumption
         DEF ServeCleanup, DropClient, Promise!PipeNext, Promise!Detach, Promise!pipeVars
    <2>3. CASE ~ServeAdopt /\ ~ServeCleanup
      BY <1>3, <2>3 DEF Serve, ServeTop, ServeCreate, ServeCreateFails, ServeStore, ServeResult,
                        ServeDiscard, ServeAdoptDirty, ServeCancelled, ServeClose, ServeReturns,
                        Promise!pipeVars
    <2> QED
      BY <2>1, <2>2, <2>3
  <1>4. CASE Connect
    BY <1>4 DEF Connect, ConnectFails, ConnectIssue, ConnectCompletes, Promise!pipeVars
  <1>5. CASE Evict \/ Stop
    BY <1>5 DEF Evict, EvictDone, EvictAgain, EvictGivesUp, Stop, Promise!pipeVars
  <1>6. ASSUME NEW u \in User, EnsureSDDL(u) PROVE Promise!PipeNext
    BY <1>6 DEF EnsureSDDL, DropClient, Promise!PipeNext, Promise!Grant
  <1>7. ASSUME NEW f \in File, ReaderEnds(f)
        PROVE  Promise!PipeNext \/ UNCHANGED Promise!pipeVars
    <2>1. CASE client = f
      BY <1>2, <1>7, <2>1, PipeAssumption
         DEF ReaderEnds, Detaches, Promise!PipeNext, Promise!Detach
    <2>2. CASE client # f
      BY <1>1, <1>7, <2>2 DEF ReaderEnds, Detaches, Promise!pipeVars
    <2> QED
      BY <2>1, <2>2
  <1>8. ASSUME NEW f \in File, ReaderCloses(f) PROVE UNCHANGED Promise!pipeVars
    <2>1. client # f
      BY <1>8, PipeAssumption DEF ReaderCloses, IInv, ClientOK, ClientIsCurrent
    <2> QED
      BY <1>1, <1>8, <2>1 DEF ReaderCloses, Promise!pipeVars
  <1>9. CASE \E w \in Watcher : Dial(w) \/ HangUp(w)
    BY <1>9 DEF Dial, HangUp, Promise!pipeVars
  <1> QED
    BY <1>3, <1>4, <1>5, <1>6, <1>7, <1>8, <1>9 DEF Next

\* Granted to one account at a time, with a watcher of that account attached or
\* none, whatever the schedule (pipe_windows.go:58-263).
THEOREM PipeKeepsPromise == Spec => ImplementsSamplePipe
  <1>1. Init => Promise!PipeInit
    BY DEF Init, Promise!PipeInit
  <1>2. IInv /\ [Next]_vars => [Promise!PipeNext]_(Promise!pipeVars)
    BY StepsArePipeSteps
  <1> QED
    BY <1>1, <1>2, InvAlways, PTL DEF Spec, ImplementsSamplePipe, Promise!PipeSpec
=============================================================================
