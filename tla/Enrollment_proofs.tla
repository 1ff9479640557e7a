------------------------- MODULE Enrollment_proofs -------------------------
(* Proofs about Enrollment, for every set of devices, heartbeats and requests. *)
EXTENDS Enrollment, TLAPS

\* A request that is past the token check names a device that was enrolled.
KnownDevice ==
    \A r \in Request : req[r].pc \in {"auth", "insert", "ok"} =>
        req[r].device \in Device /\ devices[req[r].device] # "none"

\* A device that was revoked is never active again.
LateIsRevoked ==
    \A r \in Request : req[r].late =>
        req[r].device \in Device /\ devices[req[r].device] \in {"revoked", "deleted"}

Inv == TypeOK /\ KnownDevice /\ LateIsRevoked /\ DeletedForGood /\ RevokedIsRefused /\ OKMeansStored

\* The invariant holds initially.
LEMMA InvInit == Init => Inv
  BY EnrollmentAssumption
  DEF Init, NoRequest, Inv, TypeOK, KnownDevice, LateIsRevoked, DeletedForGood,
      RevokedIsRefused, OKMeansStored

\* The three handlers of the admin API keep the invariant.
LEMMA AdminStep ==
    ASSUME Inv, NEW d \in Device, CreateDevice(d) \/ RevokeDevice(d) \/ DeleteDevice(d)
    PROVE  Inv'
  <1> USE EnrollmentAssumption DEF Inv
  <1>1. CASE CreateDevice(d)
    <2> USE <1>1 DEF CreateDevice
    <2>1. TypeOK'
      BY DEF TypeOK, Enrolled
    <2>2. KnownDevice' /\ LateIsRevoked' /\ RevokedIsRefused' /\ OKMeansStored'
      BY DEF TypeOK, KnownDevice, LateIsRevoked, RevokedIsRefused, OKMeansStored
    <2>3. DeletedForGood'
      BY DEF TypeOK, DeletedForGood, Enrolled
    <2> QED
      BY <2>1, <2>2, <2>3
  <1>2. CASE RevokeDevice(d)
    <2> USE <1>2 DEF RevokeDevice
    <2>1. TypeOK'
      BY DEF TypeOK, Enrolled
    <2>2. KnownDevice' /\ LateIsRevoked' /\ RevokedIsRefused' /\ OKMeansStored'
      BY DEF TypeOK, KnownDevice, LateIsRevoked, RevokedIsRefused, OKMeansStored
    <2>3. DeletedForGood'
      BY DEF TypeOK, DeletedForGood, Enrolled
    <2> QED
      BY <2>1, <2>2, <2>3
  <1>3. CASE DeleteDevice(d)
    <2> USE <1>3 DEF DeleteDevice
    <2>1. TypeOK'
      BY DEF TypeOK, Enrolled, RowsOf, Deletable
    <2>2. KnownDevice' /\ LateIsRevoked' /\ RevokedIsRefused'
      BY DEF TypeOK, KnownDevice, LateIsRevoked, RevokedIsRefused, Deletable
    <2>3. OKMeansStored'
      BY DEF TypeOK, OKMeansStored, RowsOf
    <2>4. DeletedForGood'
      BY DEF TypeOK, DeletedForGood, Enrolled
    <2> QED
      BY <2>1, <2>2, <2>3, <2>4
  <1> QED
    BY <1>1, <1>2, <1>3

\* Changing one request's record keeps the requests' type.
LEMMA RequestType ==
    ASSUME TypeOK, NEW r \in Request,
           NEW a \in {"idle", "auth", "insert", "ok", "refused"}, Answer(r, a)
    PROVE  /\ req' \in [Request -> [pc : {"idle", "auth", "insert", "ok", "refused"},
                            device : Device \cup {None}, batch : SUBSET Heartbeat,
                            late : BOOLEAN]]
           /\ req'[r].pc = a /\ req'[r].device = req[r].device
           /\ req'[r].batch = req[r].batch /\ req'[r].late = req[r].late
           /\ \A q \in Request \ {r} : req'[q] = req[q]
  BY DEF TypeOK, Answer

\* A request's arrival keeps the invariant.
LEMMA ArriveStep ==
    ASSUME Inv, NEW r \in Request, Arrive(r)
    PROVE  Inv'
  <1> USE DEF Inv
  <1>1. PICK d \in Device, B \in SUBSET Heartbeat, late \in BOOLEAN :
          /\ devices[d] # "none"
          /\ late <=> devices[d] # "active"
          /\ req' = [req EXCEPT ![r] = [pc |-> "auth", device |-> d, batch |-> B,
                                        late |-> late]]
    BY DEF Arrive
  <1>2. UNCHANGED <<devices, heartbeats, lastSeen, purged>>
    BY DEF Arrive
  <1>3. /\ req'[r] = [pc |-> "auth", device |-> d, batch |-> B, late |-> late]
        /\ \A q \in Request \ {r} : req'[q] = req[q]
    BY <1>1 DEF TypeOK
  <1>4. TypeOK'
    BY <1>1, <1>2 DEF TypeOK, Enrolled
  <1>5. KnownDevice' /\ LateIsRevoked' /\ RevokedIsRefused' /\ OKMeansStored'
    <2>1. devices[d] \in {"none", "active", "revoked", "deleted"}
      BY DEF TypeOK
    <2>2. KnownDevice'
      BY <1>1, <1>2, <1>3 DEF KnownDevice
    <2>3. LateIsRevoked'
      <3> HIDE DEF Inv
      <3>1. req'[r].device = d /\ (req'[r].late => devices[d] \in {"revoked", "deleted"})
        BY <1>1, <1>3, <2>1
      <3>2. LateIsRevoked
        BY DEF Inv
      <3> QED
        BY <1>2, <1>3, <3>1, <3>2 DEF LateIsRevoked
    <2>4. RevokedIsRefused'
      BY <1>3 DEF RevokedIsRefused
    <2>5. OKMeansStored'
      BY <1>2, <1>3 DEF OKMeansStored
    <2> QED
      BY <2>2, <2>3, <2>4, <2>5
  <1>6. DeletedForGood'
    BY <1>2 DEF DeletedForGood, Enrolled
  <1> QED
    BY <1>4, <1>5, <1>6

\* The token check and the error returns: a request that came late is refused.
LEMMA CheckStep ==
    ASSUME Inv, NEW r \in Request, DeviceIDByToken(r) \/ Refuse(r)
    PROVE  Inv'
  <1> USE DEF Inv
  <1>1. PICK a \in {"insert", "refused"} :
          Answer(r, a) /\ (a = "insert" => req[r].pc = "auth" /\ ValidToken(req[r].device))
    BY DEF DeviceIDByToken, Refuse
  <1>2. UNCHANGED <<devices, heartbeats, lastSeen, purged>>
    BY DEF DeviceIDByToken, Refuse
  <1>3. /\ req' \in [Request -> [pc : {"idle", "auth", "insert", "ok", "refused"},
                            device : Device \cup {None}, batch : SUBSET Heartbeat,
                            late : BOOLEAN]]
        /\ req'[r].pc = a /\ req'[r].device = req[r].device
        /\ req'[r].batch = req[r].batch /\ req'[r].late = req[r].late
        /\ \A q \in Request \ {r} : req'[q] = req[q]
    BY <1>1, RequestType
  <1>4. TypeOK'
    BY <1>2, <1>3 DEF TypeOK, Enrolled
  <1>5. KnownDevice' /\ LateIsRevoked' /\ OKMeansStored'
    BY <1>1, <1>2, <1>3 DEF KnownDevice, LateIsRevoked, OKMeansStored
  <1>6. RevokedIsRefused'
    BY <1>1, <1>2, <1>3 DEF RevokedIsRefused, LateIsRevoked, ValidToken
  <1>7. DeletedForGood'
    BY <1>2 DEF DeletedForGood, Enrolled
  <1> QED
    BY <1>4, <1>5, <1>6, <1>7

\* The insert: its new rows name a device that is still enrolled.
LEMMA InsertStep ==
    ASSUME Inv, NEW r \in Request, InsertHeartbeats(r)
    PROVE  Inv'
  <1> USE EnrollmentAssumption DEF Inv
  <1>1. /\ Answer(r, "ok") /\ req[r].pc = "insert" /\ UNCHANGED devices
        /\ ReferencesHold(r) /\ InsertRows(r) /\ Seen(r) /\ purged' = purged \ NewIn(r)
    BY DEF InsertHeartbeats
  <1>2. req[r].device \in Device /\ ~req[r].late
    BY <1>1 DEF KnownDevice, RevokedIsRefused
  <1>3. /\ req' \in [Request -> [pc : {"idle", "auth", "insert", "ok", "refused"},
                            device : Device \cup {None}, batch : SUBSET Heartbeat,
                            late : BOOLEAN]]
        /\ req'[r].pc = "ok" /\ req'[r].device = req[r].device
        /\ req'[r].batch = req[r].batch /\ req'[r].late = req[r].late
        /\ \A q \in Request \ {r} : req'[q] = req[q]
    BY <1>1, RequestType
  <1>4. \A b \in Heartbeat :
          heartbeats'[b] = IF b \in NewIn(r) THEN req[r].device ELSE heartbeats[b]
    BY <1>1 DEF InsertRows
  <1>5. TypeOK'
    <2>1. heartbeats' \in [Heartbeat -> Device \cup {None}]
      BY <1>1, <1>2 DEF InsertRows, TypeOK
    <2>2. lastSeen' \subseteq {d \in Device : Enrolled(d)}'
      BY <1>1, <1>2 DEF Seen, TypeOK, Enrolled
    <2> QED
      BY <1>1, <1>3, <2>1, <2>2 DEF TypeOK
  <1>6. KnownDevice' /\ LateIsRevoked' /\ RevokedIsRefused'
    BY <1>1, <1>2, <1>3 DEF KnownDevice, LateIsRevoked, RevokedIsRefused
  <1>7. OKMeansStored'
    <2> SUFFICES ASSUME NEW q \in Request, req'[q].pc = "ok", NEW b \in Heartbeat,
                        b \in req'[q].batch, heartbeats'[b] = None
                 PROVE  b \in purged'
      BY <1>3 DEF OKMeansStored, TypeOK
    <2>1. b \notin NewIn(r) /\ heartbeats[b] = None
      BY <1>2, <1>4
    <2>2. q # r
      BY <2>1, <1>3 DEF NewIn
    <2> QED
      BY <1>1, <1>3, <2>1, <2>2 DEF OKMeansStored
  <1>8. DeletedForGood'
    <2> SUFFICES ASSUME NEW b \in Heartbeat, heartbeats'[b] # None
                 PROVE  devices'[heartbeats'[b]] \in {"active", "revoked"}
      BY DEF DeletedForGood, Enrolled
    <2>1. CASE b \in NewIn(r)
      BY <2>1, <1>1, <1>4 DEF ReferencesHold, Enrolled
    <2>2. CASE b \notin NewIn(r)
      BY <2>2, <1>1, <1>4 DEF DeletedForGood, Enrolled
    <2> QED
      BY <2>1, <2>2
  <1> QED
    BY <1>5, <1>6, <1>7, <1>8

\* Inv is an invariant.
THEOREM Invariance == Spec => []Inv
  <1>1. Inv /\ [Next]_vars => Inv'
    <2> SUFFICES ASSUME Inv, [Next]_vars PROVE Inv'
      OBVIOUS
    <2>1. CASE UNCHANGED vars
      BY <2>1 DEF vars, Inv, TypeOK, KnownDevice, LateIsRevoked, DeletedForGood,
                  RevokedIsRefused, OKMeansStored, Enrolled
    <2>2. CASE Next
      BY <2>2, AdminStep, ArriveStep, CheckStep, InsertStep DEF Next
    <2> QED
      BY <2>1, <2>2
  <1> QED
    BY InvInit, <1>1, PTL DEF Spec

\* The types, for every instance.
THEOREM TypeCorrect == Spec => []TypeOK
  <1>1. Inv => TypeOK
    BY DEF Inv
  <1> QED
    BY <1>1, Invariance, PTL

\* No interleaving of ingest with revocation and deletion (ingest.go:30, 54)
\* leaves a row without its device.
THEOREM NoRevenants == Spec => []DeletedForGood
  <1>1. Inv => DeletedForGood
    BY DEF Inv
  <1> QED
    BY <1>1, Invariance, PTL

\* A request that comes after the revocation of its token writes nothing
\* (store.go:158).
THEOREM RevocationHolds == Spec => []RevokedIsRefused
  <1>1. Inv => RevokedIsRefused
    BY DEF Inv
  <1> QED
    BY <1>1, Invariance, PTL

\* A 200 means the batch is in the table, or was purged with its device
\* (store.go:81-83).
THEOREM AnswersAreTrue == Spec => []OKMeansStored
  <1>1. Inv => OKMeansStored
    BY DEF Inv
  <1> QED
    BY <1>1, Invariance, PTL

\* Rows leave the table with a revoked device only, and never change owner
\* (store.go:179-181).
THEOREM RowsAreKept == Spec => RowsStay
  <1>1. ASSUME Inv, [Next]_vars
        PROVE  [\A b \in Heartbeat : heartbeats[b] # None /\ heartbeats'[b] # heartbeats[b] =>
                  heartbeats'[b] = None /\ devices[heartbeats[b]] = "revoked"]_vars
    <2> SUFFICES ASSUME Next, NEW b \in Heartbeat, heartbeats[b] # None,
                        heartbeats'[b] # heartbeats[b]
                 PROVE  heartbeats'[b] = None /\ devices[heartbeats[b]] = "revoked"
      BY <1>1
    <2>1. ASSUME NEW d \in Device, DeleteDevice(d)
          PROVE  heartbeats'[b] = None /\ devices[heartbeats[b]] = "revoked"
      BY <2>1 DEF DeleteDevice, Deletable
    <2>2. ASSUME NEW r \in Request, InsertHeartbeats(r)
          PROVE  FALSE
      BY <2>2 DEF InsertHeartbeats, InsertRows, NewIn
    <2>3. ASSUME UNCHANGED heartbeats
          PROVE  FALSE
      BY <2>3
    <2> QED
      BY <2>1, <2>2, <2>3 DEF Next, CreateDevice, RevokeDevice, Arrive, DeviceIDByToken, Refuse
  <1> QED
    BY <1>1, Invariance, PTL DEF Spec, RowsStay
=============================================================================
