----------------------------- MODULE Enrollment -----------------------------
(***************************************************************************)
(* Devices and their heartbeats on the server: enrolment, revocation and     *)
(* deletion (store.go, admin_api.go) against ingest requests that resolve    *)
(* their token first and insert later (ingest.go).                           *)
(*                                                                         *)
(* A transaction or a single statement is one action: SQLite serialises      *)
(* writers and fails a write that follows a stale read.  A device stands for *)
(* its random ID and its token, which are never used twice.  A heartbeat's   *)
(* ID is its client's UUID; the client may be enrolled anew and send it with *)
(* another token.                                                            *)
(***************************************************************************)
EXTENDS FiniteSets

CONSTANTS Device, Heartbeat, Request, None

ASSUME EnrollmentAssumption == None \notin Device

VARIABLES
    devices,     \* "none", "active", "revoked", "deleted"
    heartbeats,  \* the table: each row's device_id, or None
    lastSeen,    \* devices with a last_seen
    req,         \* the requests being served
    purged       \* history: heartbeats removed with their device and not sent again

vars == <<devices, heartbeats, lastSeen, req, purged>>

\* Where a request is; late when its device was revoked before it came.
NoRequest == [pc |-> "idle", device |-> None, batch |-> {}, late |-> FALSE]

Enrolled(d) == devices[d] \in {"active", "revoked"}
RowsOf(d) == {b \in Heartbeat : heartbeats[b] = d}

Init ==
    /\ devices = [d \in Device |-> "none"]
    /\ heartbeats = [b \in Heartbeat |-> None]
    /\ lastSeen = {}
    /\ req = [r \in Request |-> NoRequest]
    /\ purged = {}

-----------------------------------------------------------------------------
(* The admin API.                                                          *)

CreateDevice(d) ==
    /\ devices[d] = "none"
    /\ devices' = [devices EXCEPT ![d] = "active"]
    /\ UNCHANGED <<heartbeats, lastSeen, req, purged>>

\* Revoking again only moves revoked_at; an unknown ID changes nothing.
RevokeDevice(d) ==
    /\ Enrolled(d)
    /\ devices' = [devices EXCEPT ![d] = "revoked"]
    /\ UNCHANGED <<heartbeats, lastSeen, req, purged>>

\* Mutated form: no look at revoked_at.
DeletableIfKnown(d) == Enrolled(d)

\* Otherwise ErrUnknownDevice or ErrNotRevoked, and nothing changes.
Deletable(d) == devices[d] = "revoked"

DeleteDevice(d) ==
    /\ Deletable(d)
    /\ devices' = [devices EXCEPT ![d] = "deleted"]
    /\ heartbeats' = [b \in Heartbeat |-> IF heartbeats[b] = d THEN None ELSE heartbeats[b]]
    /\ purged' = purged \cup RowsOf(d)
    /\ lastSeen' = lastSeen \ {d}
    /\ UNCHANGED req

-----------------------------------------------------------------------------
(* Ingest.                                                                 *)

\* A request arrives with the token of a device and a batch.
Arrive(r) ==
    /\ req[r].pc \in {"idle", "ok", "refused"}
    /\ \E d \in Device, B \in SUBSET Heartbeat :
          /\ devices[d] # "none"
          /\ req' = [req EXCEPT ![r] = [pc |-> "auth", device |-> d, batch |-> B,
                                        late |-> devices[d] # "active"]]
    /\ UNCHANGED <<devices, heartbeats, lastSeen, purged>>

\* Mutated form: revoked_at is not read.
KnownToken(d) == Enrolled(d)

ValidToken(d) == devices[d] = "active"

Answer(r, a) == req' = [req EXCEPT ![r].pc = a]

DeviceIDByToken(r) ==
    /\ req[r].pc = "auth"
    /\ Answer(r, IF ValidToken(req[r].device) THEN "insert" ELSE "refused")
    /\ UNCHANGED <<devices, heartbeats, lastSeen, purged>>

\* The body: malformed, too long or of another schema version; or a storage error.
Refuse(r) ==
    /\ req[r].pc \in {"auth", "insert"}
    /\ Answer(r, "refused")
    /\ UNCHANGED <<devices, heartbeats, lastSeen, purged>>

NewIn(r) == {b \in req[r].batch : heartbeats[b] = None}

\* Mutated form: the references are not enforced (no foreign_keys pragma).
AnyReference(r) == TRUE

\* INSERT OR IGNORE skips known IDs; a new row needs its device.
ReferencesHold(r) == NewIn(r) = {} \/ Enrolled(req[r].device)

\* Mutated form: one known ID and the batch is rolled back.
InsertAllNew(r) ==
    heartbeats' = [b \in Heartbeat |->
                     IF b \in NewIn(r) /\ NewIn(r) = req[r].batch
                     THEN req[r].device ELSE heartbeats[b]]

InsertRows(r) ==
    heartbeats' = [b \in Heartbeat |->
                     IF b \in NewIn(r) THEN req[r].device ELSE heartbeats[b]]

\* Mutated form: last_seen before the rows, outside the transaction.
SeenAlways(r) == lastSeen' = lastSeen \cup {req[r].device}

\* The UPDATE finds no row once the device is deleted.
Seen(r) ==
    lastSeen' = IF Enrolled(req[r].device) THEN lastSeen \cup {req[r].device} ELSE lastSeen

InsertHeartbeats(r) ==
    /\ req[r].pc = "insert"
    /\ ReferencesHold(r)
    /\ InsertRows(r)
    /\ Seen(r)
    /\ purged' = purged \ NewIn(r)
    /\ Answer(r, "ok")
    /\ UNCHANGED devices

Next ==
    \/ \E d \in Device : CreateDevice(d) \/ RevokeDevice(d) \/ DeleteDevice(d)
    \/ \E r \in Request :
          \/ Arrive(r) \/ DeviceIDByToken(r) \/ Refuse(r) \/ InsertHeartbeats(r)

Spec == Init /\ [][Next]_vars

-----------------------------------------------------------------------------
\* Every variable keeps its type; only enrolled devices have a last_seen.
TypeOK ==
    /\ devices \in [Device -> {"none", "active", "revoked", "deleted"}]
    /\ heartbeats \in [Heartbeat -> Device \cup {None}]
    /\ lastSeen \subseteq {d \in Device : Enrolled(d)}
    /\ req \in [Request -> [pc : {"idle", "auth", "insert", "ok", "refused"},
                            device : Device \cup {None}, batch : SUBSET Heartbeat,
                            late : BOOLEAN]]
    /\ purged \subseteq Heartbeat

\* Every row's device is enrolled: a request that resolved its token before the
\* device was revoked and deleted brings none of its history back
\* (ingest.go:30, 54; store.go:182-210).
DeletedForGood == \A b \in Heartbeat : heartbeats[b] # None => Enrolled(heartbeats[b])

\* A request that came with a revoked token is answered with an error, and so
\* writes nothing, whatever was revoked or deleted meanwhile (store.go:158).
RevokedIsRefused == \A r \in Request : req[r].late => req[r].pc \in {"auth", "refused"}

\* A request answered 200 has its heartbeats in the table, but for those removed
\* with a device (store.go:81-83, buffer.go:72).
OKMeansStored ==
    \A r \in Request : req[r].pc = "ok" =>
        \A b \in req[r].batch : heartbeats[b] # None \/ b \in purged

\* A row stays with the device that first stored it until that device, revoked,
\* is deleted (store.go:179-181).
RowsStay ==
    [][\A b \in Heartbeat : heartbeats[b] # None /\ heartbeats'[b] # heartbeats[b] =>
          heartbeats'[b] = None /\ devices[heartbeats[b]] = "revoked"]_vars
=============================================================================
