-------------------------- MODULE AdminPage_proofs --------------------------
(* Proofs about AdminPage. *)
EXTENDS AdminPage, TLAPS

DeviceRow == {Absent, Row("deleted", None)} \cup [status : {"active", "revoked"}, name : Name]
DeviceTable == [Device -> DeviceRow]

\* The device is revoked in table D, or was when it was deleted.
Gone(D, d) == D[d].status \in {"revoked", "deleted"}

Lasts(D, E) == \A d \in Device : Gone(D, d) => Gone(E, d)

\* What a list of devices may show while the server's table is D: a device it
\* shows as revoked is not active again.
ListOK(s, D) == s \in DeviceTable /\ \A d \in Device : Gone(s, d) => Gone(D, d)

Fields == {"op", "item", "value", "apply", "edit", "cookie", "at", "status", "data",
           "heard"}

IsRequest(r) == DOMAIN r = Fields /\ r = [x \in DOMAIN r |-> r[x]]

\* What a request of an operation asks for.
AskOK(r, D) ==
    /\ r.op = "enroll" => r.value \in Name
    /\ r.op = "rename" => r.value \in Name /\ (r.heard => r.edit \in 1..MaxClicks)
    /\ r.op = "saveRule" => r.item \in Pattern /\ r.value \in Category
    /\ r.op \in {"revoke", "rename", "delete"} => r.item \in Device
    /\ r.op = "delete" /\ r.heard => Gone(D, r.item)

\* What its answer may be.
DataOK(op, data, D) ==
    /\ op = "login" => data \in Token
    /\ op = "enroll" => data \in Device
    /\ op = "createKey" => data \in Key
    /\ op = "loadDevices" => ListOK(data, D)

RequestOK(r, D) ==
    /\ IsRequest(r) /\ r.heard \in BOOLEAN
    /\ AskOK(r, D)
    /\ r.at = "half" => r.op = "saveRule"
    /\ r.at = "answered" /\ r.status = "ok" => DataOK(r.op, r.data, D)
    /\ r.op = "delete" /\ r.heard => r.status # "conflict"

StoreOK ==
    /\ devices \in DeviceTable
    /\ rules \in [Pattern -> Category \cup {None}]
    /\ keys \in [Key -> {"none", "live", "revoked"}]
    /\ sessions \subseteq minted /\ minted \subseteq Token

\* Those the page awaits, and those it does not.
AskedOK(r, D) == r.heard /\ RequestOK(r, D)
AwaitedOK == \A r \in BagToSet(reqs) : AskedOK(r, devices)
UnheardOK == \A r \in BagToSet(unheard) : ~r.heard /\ r.at # "answered" /\ RequestOK(r, devices)
RequestsOK == AwaitedOK /\ UnheardOK

PageOK ==
    /\ cookie \in Token \cup {None} /\ view \in {"login", "app"} /\ panel \in Panels
    /\ modal \in Device \cup Key \cup {None}
    /\ options \subseteq Device /\ device \in options \cup {None} /\ range \in Range
    /\ edits \in [Device -> 0..MaxClicks] /\ finished \subseteq 1..MaxClicks
    /\ clicks \in 0..MaxClicks

ShownOK == /\ shown = [t \in Tables |-> shown[t]]
           /\ shown["devices"] # None => ListOK(shown["devices"], devices)

\* A list of devices, on its way or on the screen, shows as revoked only devices
\* that are and stay revoked or deleted: what a Delete click relies on.
Inv == StoreOK /\ RequestsOK /\ PageOK /\ ShownOK

-----------------------------------------------------------------------------
(* Bags of requests.                                                       *)

\* What is added is all that is new.
LEMMA BagAdd == ASSUME NEW B, NEW S PROVE BagToSet(B (+) SetToBag(S)) = BagToSet(B) \cup S
  BY DEF BagToSet, SetToBag, (+)

\* A replacement brings nothing but what replaces.
LEMMA BagSwapped ==
  ASSUME NEW B, NEW r, NEW R
  PROVE  BagToSet(Swap(B, r, R)) \subseteq BagToSet(B) \cup R
  BY DEF BagToSet, SetToBag, (+), (-), Swap

\* A request stays well formed as devices are revoked and deleted.
LEMMA RequestLasts ==
  ASSUME NEW r, NEW D, NEW E, RequestOK(r, D), Lasts(D, E)
  PROVE  RequestOK(r, E)
  BY DEF RequestOK, AskOK, DataOK, ListOK, Lasts

\* The requests after a step that replaces one.
LEMMA ReplaceKeeps ==
  ASSUME NEW r, NEW R, Replace(r, R), RequestsOK, Lasts(devices, devices'),
         \A s \in R : /\ s.heard = r.heard
                      /\ r.heard \/ s.at # "answered" => RequestOK(s, devices')
  PROVE  RequestsOK'
  <1>1. \A s : s \in BagToSet(reqs) => s.heard /\ RequestOK(s, devices')
    BY RequestLasts DEF RequestsOK, AwaitedOK, AskedOK
  <1>2. \A s : s \in BagToSet(unheard) => ~s.heard /\ s.at # "answered" /\ RequestOK(s, devices')
    BY RequestLasts DEF RequestsOK, UnheardOK
  <1>3. CASE r.heard
    <2>1. \A s \in BagToSet(reqs') : s \in BagToSet(reqs) \/ s \in R
      BY <1>3, BagSwapped DEF Replace
    <2>2. unheard' = unheard
      BY <1>3 DEF Replace
    <2> QED
      BY <1>1, <1>2, <1>3, <2>1, <2>2 DEF RequestsOK, AwaitedOK, AskedOK, UnheardOK
  <1>4. CASE ~r.heard
    <2> DEFINE Q == {s \in R : s.at # "answered"}
    <2>1. unheard' = Swap(unheard, r, Q) /\ reqs' = reqs
      BY <1>4 DEF Replace
    <2> HIDE DEF Q
    <2>2. \A s \in BagToSet(unheard') : s \in BagToSet(unheard) \/ s \in Q
      BY <2>1, BagSwapped
    <2>3. \A s \in Q : ~s.heard /\ s.at # "answered" /\ RequestOK(s, devices')
      BY <1>4 DEF Q
    <2> QED
      BY <1>1, <1>2, <2>1, <2>2, <2>3 DEF RequestsOK, AwaitedOK, AskedOK, UnheardOK
  <1> QED
    BY <1>3, <1>4

\* A request as it is answered.
LEMMA AnsweredIs ==
  ASSUME NEW r, IsRequest(r), NEW status, NEW data
  PROVE  LET s == Answered(r, status, data)
         IN  /\ IsRequest(s) /\ s.at = "answered" /\ s.status = status /\ s.data = data
             /\ s.op = r.op /\ s.item = r.item /\ s.value = r.value /\ s.apply = r.apply
             /\ s.edit = r.edit /\ s.cookie = r.cookie /\ s.heard = r.heard
  BY DEF IsRequest, Fields, Answered

LEMMA AnsweredOK ==
  ASSUME NEW r, NEW D, NEW E, RequestOK(r, D), Lasts(D, E), NEW status, NEW data,
         status = "ok" => DataOK(r.op, data, E),
         r.op = "delete" /\ r.heard => status # "conflict"
  PROVE  RequestOK(Answered(r, status, data), E)
  <1> DEFINE s == Answered(r, status, data)
  <1>1. IsRequest(r)
    BY DEF RequestOK
  <1>2. /\ IsRequest(s) /\ s.at = "answered" /\ s.status = status /\ s.data = data
        /\ s.op = r.op /\ s.item = r.item /\ s.value = r.value
        /\ s.edit = r.edit /\ s.heard = r.heard
    BY <1>1, AnsweredIs
  <1> HIDE DEF s
  <1>3. AskOK(s, E)
    BY <1>2 DEF RequestOK, AskOK, Lasts
  <1>4. RequestOK(s, E)
    BY <1>2, <1>3 DEF RequestOK
  <1> QED
    BY <1>4 DEF s

\* The requests after an answer, heard or not.
LEMMA AnswerKeeps ==
  ASSUME NEW r, RequestOK(r, devices), NEW status, NEW data, Answer(r, status, data),
         RequestsOK, Lasts(devices, devices'),
         r.heard /\ status = "ok" => DataOK(r.op, data, devices'),
         r.heard /\ r.op = "delete" => status # "conflict"
  PROVE  RequestsOK'
  <1> DEFINE s == Answered(r, status, data)
  <1>1. s.heard = r.heard /\ s.at = "answered"
    BY AnsweredIs DEF RequestOK
  <1>2. r.heard => RequestOK(s, devices')
    BY AnsweredOK
  <1>3. Replace(r, {s})
    BY DEF Answer
  <1> HIDE DEF s
  <1> QED
    BY <1>1, <1>2, <1>3, ReplaceKeeps

\* Requests as they are sent.
LEMMA AskIsOK ==
  ASSUME NEW D, NEW op, NEW item, NEW value,
         op \notin {"rename", "saveRule"},
         op = "enroll" => value \in Name,
         op = "revoke" => item \in Device,
         op = "delete" => item \in Device /\ Gone(D, item)
  PROVE  AskedOK(Ask(op, item, value), D)
  BY DEF AskedOK, RequestOK, IsRequest, Fields, AskOK, DataOK, Request, Ask

LEMMA RenameOK ==
  ASSUME NEW D, NEW d \in Device, NEW n \in Name, NEW e \in 1..MaxClicks
  PROVE  AskedOK(Request("rename", d, n, FALSE, e, cookie), D)
  BY DEF AskedOK, RequestOK, IsRequest, Fields, AskOK, DataOK, Request

LEMMA SaveRuleOK ==
  ASSUME NEW D, NEW p \in Pattern, NEW c \in Category, NEW apply
  PROVE  AskedOK(Request("saveRule", p, c, apply, 0, cookie), D)
  BY DEF AskedOK, RequestOK, IsRequest, Fields, AskOK, DataOK, Request

LEMMA LoadDevicesOK ==
  ASSUME NEW D, NEW c
  PROVE  AskedOK(Request("loadDevices", None, None, FALSE, 0, c), D)
  BY DEF AskedOK, RequestOK, IsRequest, Fields, AskOK, DataOK, Request

LEMMA ReloadOK == ASSUME NEW D, NEW p \in Panels PROVE AskedOK(Reload(p), D)
  <1>1. Load[p] \in {"loadDevices", "loadRules", "loadKeys", "loadDashboards"}
    BY DEF Load, Panels, Tables
  <1> QED
    BY <1>1, AskIsOK DEF Reload

-----------------------------------------------------------------------------
(* The server.                                                             *)

\* What a table of devices may become.
LEMMA DevicesLast ==
  ASSUME NEW D \in DeviceTable, NEW d \in Device, NEW row \in DeviceRow,
         Gone(D, d) => row.status \in {"revoked", "deleted"}
  PROVE  [D EXCEPT ![d] = row] \in DeviceTable /\ Lasts(D, [D EXCEPT ![d] = row])
  BY DEF DeviceTable, Lasts, Gone

LEMMA EnrolledRow ==
  ASSUME devices \in DeviceTable, NEW d \in Device, Enrolled(d)
  PROVE  devices[d] \in [status : {"active", "revoked"}, name : Name]
  BY DEF DeviceTable, DeviceRow, Enrolled, Absent, Row

LEMMA RevokedLasts ==
  ASSUME devices \in DeviceTable, NEW d \in Device
  PROVE  Revoked(d) \in DeviceTable /\ Lasts(devices, Revoked(d))
  <1>1. CASE Enrolled(d)
    <2> DEFINE row == [devices[d] EXCEPT !.status = "revoked"]
    <2>1. row \in DeviceRow /\ row.status = "revoked"
      BY <1>1, EnrolledRow DEF DeviceRow
    <2>2. Revoked(d) = [devices EXCEPT ![d] = row]
      BY <1>1 DEF Revoked
    <2> HIDE DEF row
    <2>3. Gone(devices, d) => row.status \in {"revoked", "deleted"}
      BY <2>1
    <2>4. [devices EXCEPT ![d] = row] \in DeviceTable /\ Lasts(devices, [devices EXCEPT ![d] = row])
      BY <2>1, <2>3, DevicesLast
    <2> QED
      BY <2>2, <2>4
  <1>2. CASE ~Enrolled(d)
    BY <1>2 DEF Revoked, Lasts
  <1> QED
    BY <1>1, <1>2

LEMMA DeletedLasts ==
  ASSUME devices \in DeviceTable, NEW d \in Device
  PROVE  LET E == [devices EXCEPT ![d] = Row("deleted", None)]
         IN  E \in DeviceTable /\ Lasts(devices, E)
  <1>1. Row("deleted", None) \in DeviceRow /\ Row("deleted", None).status = "deleted"
    BY DEF DeviceRow, Row
  <1> QED
    BY <1>1, DevicesLast

\* What the page shows after a step that leaves it alone.
LEMMA ShownKeeps ==
  ASSUME ShownOK, shown' = shown, Lasts(devices, devices'), devices' \in DeviceTable
  PROVE  ShownOK'
  BY DEF ShownOK, ListOK, Lasts

ServerKept == StoreOK' /\ RequestsOK' /\ Lasts(devices, devices')

LEMMA Unchanging == ASSUME devices' = devices PROVE Lasts(devices, devices')
  BY DEF Lasts

LEMMA SessionHandlers ==
  ASSUME StoreOK, RequestsOK, NEW r, RequestOK(r, devices),
         Login(r) \/ Logout(r) \/ Unauthorized(r)
  PROVE  ServerKept
  <1>1. CASE Login(r)
    <2>1. CASE \E t \in Token \ minted :
                  /\ sessions' = sessions \cup {t}
                  /\ minted' = minted \cup {t}
                  /\ Answer(r, "ok", t)
                  /\ UNCHANGED storeVars
      <3>1. PICK t \in Token \ minted :
                  /\ sessions' = sessions \cup {t}
                  /\ minted' = minted \cup {t}
                  /\ Answer(r, "ok", t)
                  /\ UNCHANGED storeVars
        BY <2>1
      <3>2. StoreOK'
        BY <3>1 DEF StoreOK, storeVars
      <3>3. Lasts(devices, devices')
        BY <3>1, Unchanging DEF storeVars
      <3>4. r.op = "login"
        BY <1>1 DEF Login
      <3>5. RequestsOK'
        BY <3>1, <3>3, <3>4, AnswerKeeps DEF DataOK
      <3> QED
        BY <3>2, <3>3, <3>5 DEF ServerKept
    <2>2. CASE Answer(r, "401", None) /\ UNCHANGED <<storeVars, sessions, minted>>
      <3>1. Lasts(devices, devices')
        BY <2>2, Unchanging DEF storeVars
      <3>2. RequestsOK'
        BY <2>2, <3>1, AnswerKeeps
      <3> QED
        BY <2>2, <3>1, <3>2 DEF ServerKept, StoreOK, storeVars
    <2> QED
      BY <1>1, <2>1, <2>2 DEF Login
  <1>2. CASE Logout(r)
    <2>1. Lasts(devices, devices')
      BY <1>2, Unchanging DEF Logout, storeVars
    <2>2. RequestsOK'
      BY <1>2, <2>1, AnswerKeeps DEF Logout, DataOK
    <2> QED
      BY <1>2, <2>1, <2>2 DEF ServerKept, StoreOK, storeVars, Logout
  <1>3. CASE Unauthorized(r)
    <2>1. Lasts(devices, devices')
      BY <1>3, Unchanging DEF Unauthorized, storeVars
    <2>2. RequestsOK'
      BY <1>3, <2>1, AnswerKeeps DEF Unauthorized
    <2> QED
      BY <1>3, <2>1, <2>2 DEF ServerKept, StoreOK, storeVars, Unauthorized
  <1> QED
    BY <1>1, <1>2, <1>3

LEMMA DeviceHandlers ==
  ASSUME StoreOK, RequestsOK, NEW r, RequestOK(r, devices),
         \/ HandleDevices(r) \/ HandleDeviceEnroll(r) \/ HandleDeviceRevoke(r)
         \/ HandleDeviceRename(r) \/ HandleDeviceDelete(r)
  PROVE  ServerKept
  <1> USE DEF AdminCall
  <1>0. devices \in DeviceTable /\ AskOK(r, devices)
    BY DEF StoreOK, RequestOK
  <1>1. CASE HandleDevices(r)
    <2>1. Lasts(devices, devices')
      BY <1>1, Unchanging DEF HandleDevices, storeVars
    <2>2. ListOK(devices, devices')
      BY <1>0, <2>1 DEF ListOK, Lasts
    <2>3. Answer(r, "ok", devices) /\ r.op \notin {"login", "enroll", "createKey", "delete"}
      BY <1>1 DEF HandleDevices, DeviceList
    <2>4. RequestsOK'
      BY <2>1, <2>2, <2>3, AnswerKeeps DEF DataOK
    <2> QED
      BY <1>1, <2>1, <2>4 DEF ServerKept, StoreOK, storeVars, HandleDevices
  <1>2. CASE HandleDeviceEnroll(r)
    <2>1. PICK d \in Device :
             /\ devices[d] = Absent
             /\ devices' = [devices EXCEPT ![d] = Row("active", r.value)]
             /\ Answer(r, "ok", d)
      BY <1>2 DEF HandleDeviceEnroll
    <2>2. r.op = "enroll" /\ r.value \in Name
      BY <1>0, <1>2 DEF HandleDeviceEnroll, AskOK
    <2>3. Row("active", r.value) \in DeviceRow /\ ~Gone(devices, d)
      BY <2>1, <2>2 DEF DeviceRow, Row, Gone, Absent
    <2>4. devices' \in DeviceTable /\ Lasts(devices, devices')
      BY <1>0, <2>1, <2>3, DevicesLast
    <2>5. RequestsOK'
      BY <2>1, <2>2, <2>4, AnswerKeeps DEF DataOK
    <2> QED
      BY <1>2, <2>4, <2>5 DEF ServerKept, StoreOK, HandleDeviceEnroll
  <1>3. CASE HandleDeviceRevoke(r)
    <2>1. r.op = "revoke" /\ r.item \in Device
      BY <1>0, <1>3 DEF HandleDeviceRevoke, AskOK
    <2>2. devices' \in DeviceTable /\ Lasts(devices, devices')
      BY <1>0, <1>3, <2>1, RevokedLasts DEF HandleDeviceRevoke
    <2>3. RequestsOK'
      BY <1>3, <2>1, <2>2, AnswerKeeps DEF DataOK, HandleDeviceRevoke
    <2> QED
      BY <1>3, <2>2, <2>3 DEF ServerKept, StoreOK, HandleDeviceRevoke
  <1>4. CASE HandleDeviceRename(r)
    <2>1. r.op = "rename" /\ r.item \in Device /\ r.value \in Name
      BY <1>0, <1>4 DEF HandleDeviceRename, AskOK
    <2>2. CASE Enrolled(r.item)
      <3> DEFINE row == [devices[r.item] EXCEPT !.name = r.value]
      <3>1. devices[r.item] \in [status : {"active", "revoked"}, name : Name]
        BY <1>0, <2>1, <2>2, EnrolledRow
      <3>2. row \in DeviceRow /\ row.status = devices[r.item].status
        BY <2>1, <3>1 DEF DeviceRow
      <3>3. devices' = [devices EXCEPT ![r.item] = row] /\ Answer(r, "ok", None)
        BY <1>4, <2>2 DEF HandleDeviceRename
      <3>4. Gone(devices, r.item) => row.status \in {"revoked", "deleted"}
        BY <3>2 DEF Gone
      <3> HIDE DEF row
      <3>5. devices' \in DeviceTable /\ Lasts(devices, devices')
        BY <1>0, <2>1, <3>2, <3>3, <3>4, DevicesLast
      <3>6. RequestsOK'
        BY <2>1, <3>3, <3>5, AnswerKeeps DEF DataOK
      <3> QED
        BY <1>4, <3>5, <3>6 DEF ServerKept, StoreOK, HandleDeviceRename
    <2>3. CASE ~Enrolled(r.item)
      <3>1. Answer(r, "error", None) /\ devices' = devices
        BY <1>4, <2>3 DEF HandleDeviceRename
      <3>2. Lasts(devices, devices')
        BY <3>1, Unchanging
      <3>3. RequestsOK'
        BY <2>1, <3>1, <3>2, AnswerKeeps
      <3> QED
        BY <1>4, <3>1, <3>2, <3>3 DEF ServerKept, StoreOK, HandleDeviceRename
    <2> QED
      BY <2>2, <2>3
  <1>5. CASE HandleDeviceDelete(r)
    <2>1. r.op = "delete" /\ r.item \in Device /\ (r.heard => Gone(devices, r.item))
      BY <1>0, <1>5 DEF HandleDeviceDelete, AskOK
    <2>2. CASE devices[r.item].status = "revoked"
      <3>1. /\ devices' = [devices EXCEPT ![r.item] = Row("deleted", None)]
            /\ Answer(r, "ok", None)
        BY <1>5, <2>2 DEF HandleDeviceDelete
      <3>2. devices' \in DeviceTable /\ Lasts(devices, devices')
        BY <1>0, <2>1, <3>1, DeletedLasts
      <3>3. RequestsOK'
        BY <2>1, <3>1, <3>2, AnswerKeeps DEF DataOK
      <3> QED
        BY <1>5, <3>2, <3>3 DEF ServerKept, StoreOK, HandleDeviceDelete
    <2>3. CASE devices[r.item].status # "revoked"
      <3> DEFINE status == IF Enrolled(r.item) THEN "conflict" ELSE "error"
      <3>1. status # "ok" /\ (r.heard => status # "conflict")
        BY <2>1, <2>3 DEF Gone, Enrolled
      <3>2. Answer(r, status, None) /\ devices' = devices
        BY <1>5, <2>3 DEF HandleDeviceDelete
      <3> HIDE DEF status
      <3>3. Lasts(devices, devices')
        BY <3>2, Unchanging
      <3>4. RequestsOK'
        BY <3>1, <3>2, <3>3, AnswerKeeps
      <3> QED
        BY <1>5, <3>2, <3>3, <3>4 DEF ServerKept, StoreOK, HandleDeviceDelete
    <2> QED
      BY <2>2, <2>3
  <1> QED
    BY <1>1, <1>2, <1>3, <1>4, <1>5

\* Handlers that leave the devices alone.
LEMMA RuleHandlers ==
  ASSUME StoreOK, RequestsOK, NEW r, RequestOK(r, devices),
         \/ HandleRulesList(r) \/ HandleRuleUpsert(r) \/ HandleRuleDelete(r)
  PROVE  ServerKept
  <1> USE DEF AdminCall
  <1>1. Lasts(devices, devices') /\ r.op \in {"loadRules", "saveRule", "deleteRule"}
    BY Unchanging DEF HandleRulesList, HandleRuleUpsert, HandleRuleDelete, storeVars
  <1>2. AskOK(r, devices) /\ IsRequest(r) /\ r.heard \in BOOLEAN
    BY DEF RequestOK
  <1>3. CASE HandleRulesList(r)
    <2>1. RequestsOK'
      BY <1>1, <1>3, AnswerKeeps DEF HandleRulesList, DataOK
    <2> QED
      BY <1>1, <1>3, <2>1 DEF ServerKept, StoreOK, storeVars, HandleRulesList
  <1>4. CASE HandleRuleUpsert(r)
    <2>1. r.op = "saveRule" /\ r.item \in Pattern /\ r.value \in Category
      BY <1>2, <1>4 DEF HandleRuleUpsert, AskOK
    <2>2. StoreOK'
      BY <1>4, <2>1 DEF StoreOK, HandleRuleUpsert, UpsertRule
    <2>3. CASE r.apply
      <3> DEFINE s == [r EXCEPT !.at = "half"]
      <3>1. /\ IsRequest(s) /\ s.op = r.op /\ s.item = r.item /\ s.value = r.value
            /\ s.at = "half" /\ s.heard = r.heard
        BY <1>2 DEF IsRequest, Fields
      <3> HIDE DEF s
      <3>2. RequestOK(s, devices')
        BY <1>2, <2>1, <3>1 DEF RequestOK, AskOK
      <3>3. Replace(r, {s})
        BY <1>4, <2>3 DEF HandleRuleUpsert, s
      <3>4. RequestsOK'
        BY <1>1, <3>1, <3>2, <3>3, ReplaceKeeps
      <3> QED
        BY <1>1, <2>2, <3>4 DEF ServerKept
    <2>4. CASE ~r.apply
      <3>1. RequestsOK'
        BY <1>1, <1>4, <2>1, <2>4, AnswerKeeps DEF HandleRuleUpsert, DataOK
      <3> QED
        BY <1>1, <2>2, <3>1 DEF ServerKept
    <2> QED
      BY <2>3, <2>4
  <1>5. CASE HandleRuleDelete(r)
    <2>1. RequestsOK'
      BY <1>1, <1>5, AnswerKeeps DEF HandleRuleDelete, DataOK
    <2> QED
      BY <1>1, <1>5, <2>1 DEF ServerKept, StoreOK, HandleRuleDelete
  <1> QED
    BY <1>3, <1>4, <1>5

LEMMA KeyHandlers ==
  ASSUME StoreOK, RequestsOK, NEW r, RequestOK(r, devices),
         HandleKeyList(r) \/ HandleKeyCreate(r) \/ HandleKeyRevoke(r) \/ HandleReport(r)
  PROVE  ServerKept
  <1> USE DEF AdminCall
  <1>1. Lasts(devices, devices') /\ r.op \in {"loadKeys", "createKey", "revokeKey", "report"}
    BY Unchanging DEF HandleKeyList, HandleKeyCreate, HandleKeyRevoke, HandleReport, storeVars
  <1>2. RequestsOK'
    <2>1. CASE HandleKeyCreate(r)
      <3>1. PICK k \in Key : Answer(r, "ok", k)
        BY <2>1 DEF HandleKeyCreate
      <3>2. r.op = "createKey"
        BY <2>1 DEF HandleKeyCreate
      <3> QED
        BY <1>1, <3>1, <3>2, AnswerKeeps DEF DataOK
    <2>2. CASE HandleKeyList(r)
      BY <1>1, <2>2, AnswerKeeps DEF DataOK, HandleKeyList
    <2>3. CASE HandleKeyRevoke(r)
      BY <1>1, <2>3, AnswerKeeps DEF DataOK, HandleKeyRevoke
    <2>4. CASE HandleReport(r)
      BY <1>1, <2>4, AnswerKeeps DEF DataOK, HandleReport
    <2> QED
      BY <2>1, <2>2, <2>3, <2>4
  <1>3. keys' \in [Key -> {"none", "live", "revoked"}]
    BY DEF StoreOK, HandleKeyList, HandleKeyCreate, HandleKeyRevoke, HandleReport, storeVars
  <1>4. UNCHANGED <<devices, rules, sessions, minted>>
    BY DEF HandleKeyList, HandleKeyCreate, HandleKeyRevoke, HandleReport, storeVars
  <1> QED
    BY <1>1, <1>2, <1>3, <1>4 DEF ServerKept, StoreOK

LEMMA HandlerKeeps ==
  ASSUME StoreOK, RequestsOK, NEW r, RequestOK(r, devices), Handler(r)
  PROVE  ServerKept
  BY SessionHandlers, DeviceHandlers, RuleHandlers, KeyHandlers DEF Handler

\* What the server may be at work on.
LEMMA AtServerOK ==
  ASSUME RequestsOK, NEW at, NEW r \in AtServer(at)
  PROVE  r.at = at /\ RequestOK(r, devices)
  BY DEF RequestsOK, AwaitedOK, AskedOK, UnheardOK, AtServer, InFlight

LEMMA ErrorsKeep ==
  ASSUME StoreOK, RequestsOK, NEW r \in BagToSet(reqs), StorageError(r) \/ NetworkError(r)
  PROVE  ServerKept
  <1>1. Lasts(devices, devices')
    BY Unchanging DEF StorageError, NetworkError, storeVars
  <1>2. r.heard /\ RequestOK(r, devices)
    BY DEF RequestsOK, AwaitedOK, AskedOK
  <1>3. RequestsOK'
    <2>1. CASE StorageError(r)
      <3>1. CASE Answer(r, "error", None)
        BY <1>1, <1>2, <3>1, AnswerKeeps
      <3>2. CASE r.op = "report" /\ Answer(r, "ok", "partial")
        BY <1>1, <1>2, <3>2, AnswerKeeps DEF DataOK
      <3> QED
        BY <2>1, <3>1, <3>2 DEF StorageError
    <2>2. CASE NetworkError(r)
      <3> DEFINE s == Answered(r, "error", None)
                 U == {Unheard(t) : t \in {q \in {r} : q.at # "answered" /\ q.op \notin Reads}}
      <3>1. reqs' = Swap(reqs, r, {s}) /\ unheard' = unheard (+) SetToBag(U)
        BY <2>2 DEF NetworkError
      <3>2. s.heard /\ RequestOK(s, devices')
        BY <1>1, <1>2, AnsweredOK, AnsweredIs DEF RequestOK
      <3>3. \A t \in U : ~t.heard /\ t.at # "answered" /\ RequestOK(t, devices')
        <4> SUFFICES ASSUME r.at # "answered"
                     PROVE  LET t == Unheard(r)
                            IN  ~t.heard /\ t.at # "answered" /\ RequestOK(t, devices')
          OBVIOUS
        <4> DEFINE t == Unheard(r)
        <4>1. IsRequest(r)
          BY <1>2 DEF RequestOK
        <4>2. /\ IsRequest(t) /\ t.heard = FALSE /\ t.at = r.at /\ t.op = r.op /\ t.item = r.item
              /\ t.value = r.value
          BY <4>1 DEF IsRequest, Fields, Unheard
        <4> HIDE DEF t
        <4>3. RequestOK(t, devices')
          BY <1>2, <4>2 DEF RequestOK, AskOK
        <4> QED
          BY <4>2, <4>3 DEF t
      <3> HIDE DEF s, U
      <3>4. \A t \in BagToSet(reqs') : t \in BagToSet(reqs) \/ t = s
        BY <3>1, BagSwapped
      <3>5. BagToSet(unheard') = BagToSet(unheard) \cup U
        BY <3>1, BagAdd
      <3>6. devices' = devices
        BY <2>2 DEF NetworkError, storeVars
      <3> QED
        BY <3>2, <3>3, <3>4, <3>5, <3>6 DEF RequestsOK, AwaitedOK, AskedOK, UnheardOK
    <2> QED
      BY <2>1, <2>2
  <1> QED
    BY <1>1, <1>3 DEF ServerKept, StoreOK, storeVars, StorageError, NetworkError

LEMMA ServerKeeps ==
  ASSUME StoreOK, RequestsOK, ServerStep
  PROVE  ServerKept
  <1>1. CASE \E r \in AtServer("sent") : Handler(r)
    BY <1>1, AtServerOK, HandlerKeeps
  <1>2. CASE \E r \in AtServer("half") : Recategorize(r)
    <2>1. PICK r \in AtServer("half") : Recategorize(r)
      BY <1>2
    <2>2. r.at = "half" /\ RequestOK(r, devices)
      BY AtServerOK
    <2>3. Lasts(devices, devices')
      BY <2>1, Unchanging DEF Recategorize
    <2>4. r.op = "saveRule"
      BY <2>2 DEF RequestOK
    <2>5. RequestsOK'
      BY <2>1, <2>2, <2>3, <2>4, AnswerKeeps DEF Recategorize, DataOK
    <2> QED
      BY <2>1, <2>3, <2>5 DEF ServerKept, StoreOK, Recategorize
  <1>3. CASE \E r \in BagToSet(reqs) : StorageError(r) \/ NetworkError(r)
    BY <1>3, ErrorsKeep
  <1> QED
    BY <1>1, <1>2, <1>3 DEF ServerStep, InFlight

\* What another admin asks for.
LEMMA OtherRequestIs ==
  ASSUME NEW op, NEW item, NEW value, NEW apply, NEW r, r = OtherRequest(op, item, value, apply)
  PROVE  /\ IsRequest(r) /\ r.op = op /\ r.item = item /\ r.value = value
         /\ r.cookie = Other /\ r.at = "sent" /\ r.heard \in BOOLEAN /\ ~r.heard
  BY DEF OtherRequest, Request, Unheard, IsRequest, Fields

LEMMA OtherRequestOK ==
  ASSUME NEW op, NEW item, NEW value, NEW apply, NEW D, NEW r,
         r = OtherRequest(op, item, value, apply),
         op \in {"enroll", "rename"} => value \in Name,
         op = "saveRule" => item \in Pattern /\ value \in Category,
         op \in {"revoke", "rename", "delete"} => item \in Device
  PROVE  RequestOK(r, D)
  <1>1. /\ IsRequest(r) /\ r.op = op /\ r.item = item /\ r.value = value
        /\ r.at = "sent" /\ r.heard \in BOOLEAN /\ ~r.heard
    BY OtherRequestIs
  <1> QED
    BY <1>1 DEF RequestOK, AskOK

\* One request of another admin is served.
OtherServed ==
    \E op, item, value, apply, r :
        /\ op \in {"enroll", "revoke", "delete", "rename", "saveRule", "deleteRule",
                  "createKey", "revokeKey"}
        /\ op \in {"enroll", "rename"} => value \in Name
        /\ op = "saveRule" => item \in Pattern /\ value \in Category
        /\ op \in {"revoke", "rename", "delete"} => item \in Device
        /\ r = OtherRequest(op, item, value, apply)
        /\ Handler(r)

LEMMA ServedForOther ==
  ASSUME NEW op \in {"enroll", "revoke", "delete", "rename", "saveRule", "deleteRule",
                     "createKey", "revokeKey"},
         NEW item, NEW value, NEW apply,
         op \in {"enroll", "rename"} => value \in Name,
         op = "saveRule" => item \in Pattern /\ value \in Category,
         op \in {"revoke", "rename", "delete"} => item \in Device,
         Handler(OtherRequest(op, item, value, apply))
  PROVE  OtherServed
  BY DEF OtherServed

LEMMA OtherAdminServed == OtherAdmin => OtherServed
  <1> SUFFICES ASSUME OtherAdmin PROVE OtherServed
    OBVIOUS
  <1>1. CASE \/ \E n \in Name : Handler(OtherRequest("enroll", None, n, FALSE))
             \/ Handler(OtherRequest("createKey", None, None, FALSE))
             \/ \E k \in Key : Handler(OtherRequest("revokeKey", k, None, FALSE))
    BY <1>1, ServedForOther
  <1>2. CASE \E d \in Device : \/ Handler(OtherRequest("revoke", d, None, FALSE))
                               \/ Handler(OtherRequest("delete", d, None, FALSE))
    BY <1>2, ServedForOther
  <1>3. CASE \E d \in Device, n \in Name : Handler(OtherRequest("rename", d, n, FALSE))
    BY <1>3, ServedForOther
  <1>4. CASE \E p \in Pattern, c \in Category, apply \in BOOLEAN :
                 Handler(OtherRequest("saveRule", p, c, apply))
    BY <1>4, ServedForOther
  <1>5. CASE \E p \in Pattern : Handler(OtherRequest("deleteRule", p, None, FALSE))
    BY <1>5, ServedForOther
  <1> QED
    BY <1>1, <1>2, <1>3, <1>4, <1>5 DEF OtherAdmin

\* Other admins, batches and the end of sessions.
LEMMA ElsewhereKeeps ==
  ASSUME StoreOK, RequestsOK, Elsewhere
  PROVE  ServerKept
  <1>1. CASE OtherAdmin
    BY <1>1, OtherAdminServed, OtherRequestOK, HandlerKeeps DEF OtherServed
  <1>2. CASE SessionsEnd \/ Batch
    <2>1. UNCHANGED <<devices, rules, keys, minted, reqs, unheard>> /\ sessions' \in {sessions, {}}
      BY <1>2 DEF SessionsEnd, Batch, storeVars
    <2>2. Lasts(devices, devices')
      BY <2>1, Unchanging
    <2>3. RequestsOK'
      BY <2>1 DEF RequestsOK, AwaitedOK, AskedOK, UnheardOK
    <2> QED
      BY <2>1, <2>2, <2>3 DEF ServerKept, StoreOK
  <1> QED
    BY <1>1, <1>2 DEF Elsewhere

-----------------------------------------------------------------------------
(* The admin's clicks.                                                     *)

\* What a click that sends these requests keeps.
LEMMA ClickKeeps ==
  ASSUME Inv, NEW sent, Click(sent), \A s \in sent : AskedOK(s, devices)
  PROVE  StoreOK' /\ RequestsOK' /\ clicks' \in 0..MaxClicks /\ Lasts(devices, devices')
  <1>1. UNCHANGED <<devices, rules, keys, sessions, minted>>
    BY DEF Click, serverVars, storeVars
  <1>2. BagToSet(reqs') = BagToSet(reqs) \cup sent
    BY BagAdd DEF Click
  <1>3. StoreOK'
    BY <1>1 DEF Inv, StoreOK
  <1>5. AwaitedOK' /\ UnheardOK'
    BY <1>1, <1>2 DEF Inv, RequestsOK, AwaitedOK, UnheardOK, Click
  <1>4. clicks' \in 0..MaxClicks
    BY AdminPageAssumption DEF Click, Inv, PageOK
  <1> QED
    BY <1>1, <1>3, <1>4, <1>5, Unchanging DEF RequestsOK

\* A click in a panel that leaves the rows' renames alone.
LEMMA ClickInKeeps ==
  ASSUME Inv, NEW p, NEW sent, ClickIn(p, sent), \A s \in sent : AskedOK(s, devices),
         shown' = shown, edits' \in [Device -> 0..MaxClicks], finished' \subseteq 1..MaxClicks,
         options' = options, device' \in options \cup {None}, range' \in Range
  PROVE  Inv'
  <1>1. Click(sent) /\ panel' = panel /\ modal' = modal
    BY DEF ClickIn
  <1>2. StoreOK' /\ RequestsOK' /\ clicks' \in 0..MaxClicks /\ Lasts(devices, devices')
    BY <1>1, ClickKeeps
  <1>3. ShownOK'
    BY <1>2, ShownKeeps DEF Inv, StoreOK
  <1>4. PageOK'
    BY <1>1, <1>2 DEF Inv, PageOK, Click
  <1> QED
    BY <1>2, <1>3, <1>4 DEF Inv

LEMMA SessionClicks ==
  ASSUME Inv, DoLogin \/ DoLogout \/ HideModal \/ \E p \in Panels : SwitchPanel(p)
  PROVE  Inv'
  <1>1. PICK sent : Click(sent) /\ \A s \in sent : AskedOK(s, devices)
    <2>1. CASE DoLogin \/ DoLogout
      BY <2>1, AskIsOK DEF DoLogin, DoLogout
    <2>2. CASE HideModal
      BY <2>2 DEF HideModal
    <2>3. CASE \E p \in Panels : SwitchPanel(p)
      BY <2>3, ReloadOK DEF SwitchPanel
    <2> QED
      BY <2>1, <2>2, <2>3
  <1>2. StoreOK' /\ RequestsOK' /\ clicks' \in 0..MaxClicks /\ Lasts(devices, devices')
    BY <1>1, ClickKeeps
  <1>3. /\ panel' \in Panels /\ modal' \in Device \cup Key \cup {None}
        /\ UNCHANGED <<tableVars, chartVars>>
    BY DEF Inv, PageOK, DoLogin, DoLogout, HideModal, SwitchPanel
  <1>4. PageOK'
    BY <1>1, <1>2, <1>3 DEF Inv, PageOK, tableVars, chartVars, Click
  <1>5. ShownOK'
    BY <1>2, <1>3, ShownKeeps DEF Inv, StoreOK, tableVars
  <1> QED
    BY <1>2, <1>4, <1>5 DEF Inv

\* A Delete is clicked in a row that shows a device that is revoked for good.
LEMMA DeviceClicks ==
  ASSUME Inv, NEW d \in Device,
         \/ RevokeDevice(d) \/ DeleteDevice(d)
         \/ StartRename(d) \/ FinishRename(d) \/ \E n \in Name : SubmitRename(d, n)
  PROVE  Inv'
  <1>0. /\ device \in options \cup {None} /\ range \in Range
        /\ edits \in [Device -> 0..MaxClicks] /\ finished \subseteq 1..MaxClicks
    BY DEF Inv, PageOK
  <1>1. CASE RevokeDevice(d)
    <2>1. AskedOK(Ask("revoke", d, None), devices)
      BY AskIsOK
    <2> QED
      BY <1>0, <1>1, <2>1, ClickInKeeps DEF RevokeDevice, tableVars, chartVars
  <1>2. CASE DeleteDevice(d)
    <2>1. Gone(devices, d)
      BY <1>2 DEF DeleteDevice, DeleteButton, Listed, Inv, ShownOK, ListOK, Gone
    <2>2. AskedOK(Ask("delete", d, None), devices)
      BY <2>1, AskIsOK
    <2> QED
      BY <1>0, <1>2, <2>2, ClickInKeeps DEF DeleteDevice, tableVars, chartVars
  <1>3. CASE StartRename(d)
    <2>1. clicks + 1 \in 0..MaxClicks
      BY <1>3, AdminPageAssumption DEF StartRename, ClickIn, Click, Inv, PageOK
    <2>2. edits' \in [Device -> 0..MaxClicks]
      BY <1>0, <1>3, <2>1 DEF StartRename
    <2> QED
      BY <1>0, <1>3, <2>2, ClickInKeeps DEF StartRename, chartVars
  <1>4. CASE FinishRename(d)
    <2>1. \A s \in Finish(edits[d]) : AskedOK(s, devices)
      BY ReloadOK DEF Finish, Panels, Tables
    <2>2. finished' \subseteq 1..MaxClicks
      BY <1>0, <1>4, AdminPageAssumption DEF FinishRename
    <2> QED
      BY <1>0, <1>4, <2>1, <2>2, ClickInKeeps DEF FinishRename, chartVars
  <1>5. ASSUME NEW n \in Name, SubmitRename(d, n) PROVE Inv'
    <2>1. edits[d] \in 1..MaxClicks
      BY <1>0, <1>5, AdminPageAssumption DEF SubmitRename
    <2>2. AskedOK(Request("rename", d, n, FALSE, edits[d], cookie), devices)
      BY <2>1, RenameOK
    <2> QED
      BY <1>0, <1>5, <2>2, ClickInKeeps DEF SubmitRename, tableVars, chartVars
  <1> QED
    BY <1>1, <1>2, <1>3, <1>4, <1>5

LEMMA OtherClicks ==
  ASSUME Inv,
         \/ \E p \in Pattern :
              \/ DeleteRule(p)
              \/ \E c \in Category, apply \in BOOLEAN : SaveRule(p, c, apply)
         \/ CreateKey
         \/ \E k \in Key : RevokeKey(k)
         \/ RenderDashboards
         \/ EnrollDevice
  PROVE  Inv'
  <1>0. /\ device \in options \cup {None} /\ range \in Range
        /\ edits \in [Device -> 0..MaxClicks] /\ finished \subseteq 1..MaxClicks
    BY DEF Inv, PageOK
  <1>1. ASSUME NEW p \in Pattern, DeleteRule(p) PROVE Inv'
    <2>1. AskedOK(Ask("deleteRule", p, None), devices)
      BY AskIsOK
    <2> QED
      BY <1>0, <1>1, <2>1, ClickInKeeps DEF DeleteRule, tableVars, chartVars
  <1>2. ASSUME NEW p \in Pattern, NEW c \in Category, NEW apply \in BOOLEAN,
               SaveRule(p, c, apply)
        PROVE  Inv'
    <2>1. AskedOK(Request("saveRule", p, c, apply, 0, cookie), devices)
      BY SaveRuleOK
    <2> QED
      BY <1>0, <1>2, <2>1, ClickInKeeps DEF SaveRule, tableVars, chartVars
  <1>3. CASE CreateKey
    <2>1. AskedOK(Ask("createKey", None, None), devices)
      BY AskIsOK
    <2> QED
      BY <1>0, <1>3, <2>1, ClickInKeeps DEF CreateKey, tableVars, chartVars
  <1>4. ASSUME NEW k \in Key, RevokeKey(k) PROVE Inv'
    <2>1. AskedOK(Ask("revokeKey", k, None), devices)
      BY AskIsOK
    <2> QED
      BY <1>0, <1>4, <2>1, ClickInKeeps DEF RevokeKey, tableVars, chartVars
  <1>5. CASE RenderDashboards
    <2>1. AskedOK(Report(DeviceValue, range'), devices)
      BY AskIsOK DEF Report
    <2> QED
      BY <1>0, <1>5, <2>1, ClickInKeeps DEF RenderDashboards, tableVars
  <1>6. CASE EnrollDevice
    <2>1. PICK n \in Name : ClickIn("devices", {Ask("enroll", None, n)})
      BY <1>6 DEF EnrollDevice
    <2>2. AskedOK(Ask("enroll", None, n), devices)
      BY AskIsOK
    <2> QED
      BY <1>0, <1>6, <2>1, <2>2, ClickInKeeps DEF EnrollDevice, tableVars, chartVars
  <1> QED
    BY <1>1, <1>2, <1>3, <1>4, <1>5, <1>6

-----------------------------------------------------------------------------
(* The callbacks.                                                          *)

\* What a callback that sends these requests keeps.
LEMMA CallbackKeeps ==
  ASSUME Inv, NEW r \in BagToSet(reqs), NEW sent, Callback(r, sent),
         \A s \in sent : AskedOK(s, devices),
         cookie' \in Token \cup {None}, view' \in {"login", "app"},
         edits' \in [Device -> 0..MaxClicks], finished' \subseteq 1..MaxClicks,
         modal' \in Device \cup Key \cup {None},
         options' \subseteq Device, device' \in options' \cup {None}, range' = range,
         ShownOK'
  PROVE  Inv'
  <1>1. UNCHANGED <<devices, rules, keys, sessions, minted, panel, clicks>>
    BY DEF Callback, serverVars, storeVars
  <1>2. Replace(r, sent)
    BY DEF Callback
  <1>3. RequestsOK'
    <2>1. \A s \in sent : s.heard = r.heard /\ RequestOK(s, devices')
      BY <1>1 DEF Inv, RequestsOK, AwaitedOK, AskedOK, RequestOK
    <2>2. Lasts(devices, devices')
      BY <1>1, Unchanging
    <2> QED
      BY <1>2, <2>1, <2>2, ReplaceKeeps DEF Inv
  <1>4. StoreOK' /\ PageOK'
    BY <1>1 DEF Inv, StoreOK, PageOK
  <1> QED
    BY <1>3, <1>4 DEF Inv

\* One that only moves between the views or the requests.
LEMMA PlainCallback ==
  ASSUME Inv, NEW r \in BagToSet(reqs), NEW sent, Callback(r, sent),
         \A s \in sent : AskedOK(s, devices),
         cookie' \in Token \cup {None}, view' \in {"login", "app"},
         shown' = shown, edits' = edits, finished' \subseteq 1..MaxClicks,
         modal' \in Device \cup Key \cup {None}, UNCHANGED chartVars
  PROVE  Inv'
  <1>1. devices' = devices
    BY DEF Callback, serverVars, storeVars
  <1>2. ShownOK'
    BY <1>1, ShownKeeps, Unchanging DEF Inv, StoreOK
  <1>3. /\ edits' \in [Device -> 0..MaxClicks] /\ options' \subseteq Device
        /\ device' \in options' \cup {None} /\ range' = range
    BY DEF Inv, PageOK, chartVars
  <1> QED
    BY <1>2, <1>3, CallbackKeeps

LEMMA SessionCallbacks ==
  ASSUME Inv, NEW r \in BagToSet(reqs), r.at = "answered",
         OnFailure(r) \/ OnBootstrap(r) \/ OnLogin(r) \/ OnLogout(r)
  PROVE  Inv'
  <1>0. /\ cookie \in Token \cup {None} /\ view \in {"login", "app"}
        /\ finished \subseteq 1..MaxClicks /\ modal \in Device \cup Key \cup {None}
    BY DEF Inv, PageOK
  <1> USE DEF tableVars, ShowLogin, ShowApp
  <1>1. CASE OnFailure(r)
    BY <1>0, <1>1, PlainCallback DEF OnFailure, ViewOnFailure
  <1>2. CASE OnBootstrap(r)
    <2>1. AskedOK(Reload("devices"), devices)
      BY ReloadOK DEF Panels, Tables
    <2> QED
      BY <1>0, <1>2, <2>1, PlainCallback DEF OnBootstrap
  <1>3. CASE OnLogin(r)
    <2>1. CASE r.status = "ok"
      <3>1. r.data \in Token
        BY <1>3, <2>1 DEF OnLogin, Inv, RequestsOK, AwaitedOK, AskedOK, RequestOK, DataOK
      <3>2. AskedOK(Request("loadDevices", None, None, FALSE, 0, r.data), devices)
        BY LoadDevicesOK
      <3>3. /\ Callback(r, {Request("loadDevices", None, None, FALSE, 0, r.data)})
            /\ cookie' = r.data /\ view' = "app"
        BY <1>3, <2>1 DEF OnLogin
      <3> QED
        BY <1>0, <1>3, <3>1, <3>2, <3>3, PlainCallback DEF OnLogin
    <2>2. CASE r.status # "ok"
      BY <1>0, <1>3, <2>2, PlainCallback DEF OnLogin
    <2> QED
      BY <2>1, <2>2
  <1>4. CASE OnLogout(r)
    BY <1>0, <1>4, PlainCallback DEF OnLogout
  <1> QED
    BY <1>1, <1>2, <1>3, <1>4

LEMMA TableCallbacks ==
  ASSUME Inv, NEW r \in BagToSet(reqs), r.at = "answered",
         DrawDevices(r) \/ DrawRules(r) \/ DrawKeys(r)
  PROVE  Inv'
  <1>1. PICK t \in Tables : Draw(r, t) /\ (t = "devices" <=> DrawDevices(r))
    BY DEF DrawDevices, DrawRules, DrawKeys, Draw, Succeeded, Tables, Load
  <1>2. shown' = [shown EXCEPT ![t] = r.data] /\ devices' = devices
    BY <1>1 DEF Draw, Callback, serverVars, storeVars
  <1>3. t = "devices" => ListOK(r.data, devices)
    BY <1>1 DEF Draw, Succeeded, Load, Inv, RequestsOK, AwaitedOK, AskedOK, RequestOK, DataOK
  <1>4. ShownOK'
    BY <1>1, <1>2, <1>3 DEF Inv, ShownOK, Tables
  <1>5. edits' \in [Device -> 0..MaxClicks]
    BY AdminPageAssumption DEF DrawDevices, DrawRules, DrawKeys, Inv, PageOK
  <1>6. /\ cookie' = cookie /\ view' = view /\ finished' = finished /\ modal' = modal
        /\ UNCHANGED chartVars /\ Callback(r, {})
    BY <1>1 DEF Draw, Succeeded
  <1> QED
    BY <1>4, <1>5, <1>6, CallbackKeeps DEF Inv, PageOK, chartVars

LEMMA ChangeCallbacks ==
  ASSUME Inv, NEW r \in BagToSet(reqs), r.at = "answered",
         \/ OnRevoke(r) \/ OnDelete(r) \/ OnRename(r) \/ OnEnroll(r)
         \/ OnSaveRule(r) \/ OnDeleteRule(r) \/ OnCreateKey(r) \/ OnRevokeKey(r)
  PROVE  Inv'
  <1>0. /\ cookie \in Token \cup {None} /\ view \in {"login", "app"}
        /\ finished \subseteq 1..MaxClicks /\ modal \in Device \cup Key \cup {None}
    BY DEF Inv, PageOK
  <1> USE DEF tableVars, Succeeded
  <1>1. \A p \in Panels : \A s \in Reloaded(p) : AskedOK(s, devices)
    BY ReloadOK DEF Reloaded
  <1>2. {"devices", "rules", "keys"} \subseteq Panels
    BY DEF Panels, Tables
  <1>3. CASE OnRevoke(r) \/ OnDelete(r) \/ OnSaveRule(r) \/ OnDeleteRule(r) \/ OnRevokeKey(r)
    BY <1>0, <1>1, <1>2, <1>3, PlainCallback
       DEF OnRevoke, OnDelete, OnSaveRule, OnDeleteRule, OnRevokeKey, OnChange
  <1>4. CASE OnRename(r)
    <2>1. r.edit \in 1..MaxClicks
      BY <1>4 DEF OnRename, Inv, RequestsOK, AwaitedOK, AskedOK, RequestOK, AskOK
    <2>2. \A s \in Finish(r.edit) : AskedOK(s, devices)
      BY <1>2, ReloadOK DEF Finish
    <2> QED
      BY <1>0, <1>4, <2>1, <2>2, PlainCallback DEF OnRename
  <1>5. CASE OnEnroll(r)
    <2>1. r.data \in Device
      BY <1>5 DEF OnEnroll, OnCreate, OnChange, Inv, RequestsOK, AwaitedOK, AskedOK, RequestOK, DataOK
    <2> QED
      BY <1>0, <1>1, <1>2, <1>5, <2>1, PlainCallback DEF OnEnroll, OnCreate, OnChange, ShowSecret
  <1>6. CASE OnCreateKey(r)
    <2>1. r.data \in Key
      BY <1>6 DEF OnCreateKey, OnCreate, OnChange, Inv, RequestsOK, AwaitedOK, AskedOK, RequestOK, DataOK
    <2> QED
      BY <1>0, <1>1, <1>2, <1>6, <2>1, PlainCallback
         DEF OnCreateKey, OnCreate, OnChange, ShowSecret
  <1> QED
    BY <1>3, <1>4, <1>5, <1>6

LEMMA ChartCallbacks ==
  ASSUME Inv, NEW r \in BagToSet(reqs), OnLoadDashboards(r) \/ OnReport(r)
  PROVE  Inv'
  <1>1. PICK sent : Callback(r, sent) /\ \A s \in sent : AskedOK(s, devices)
    <2>1. AskedOK(Report(DeviceValue, range), devices)
      BY AskIsOK DEF Report
    <2> QED
      BY <2>1 DEF OnLoadDashboards, OnReport
  <1>2. devices' = devices /\ UNCHANGED <<cookie, view, tableVars, modal, range>>
    BY <1>1 DEF OnLoadDashboards, OnReport, Succeeded, Callback, serverVars, storeVars
  <1>3. options' \subseteq Device /\ device' \in options' \cup {None}
    BY DEF OnLoadDashboards, PopulateDeviceSelect, Kept, OnReport, Inv, PageOK
  <1>4. ShownOK'
    BY <1>2, ShownKeeps, Unchanging DEF Inv, StoreOK, tableVars
  <1> QED
    BY <1>1, <1>2, <1>3, <1>4, CallbackKeeps DEF Inv, PageOK, tableVars

-----------------------------------------------------------------------------
(* The invariant.                                                          *)

LEMMA InvInit == Init => Inv
  <1> SUFFICES ASSUME Init PROVE Inv
    OBVIOUS
  <1>1. devices \in DeviceTable
    BY DEF Init, DeviceTable, DeviceRow, Row
  <1>2. StoreOK
    <2>1. sessions \subseteq minted /\ minted \subseteq Token
      BY AdminAPIAssumption DEF Init
    <2> QED
      BY <1>1, <2>1 DEF Init, StoreOK
  <1>3. RequestsOK
    <2>1. AskedOK(Ask("bootstrap", None, None), devices)
      BY AskIsOK
    <2>2. BagToSet(reqs) = {Ask("bootstrap", None, None)}
      BY DEF Init, BagToSet, SetToBag
    <2>3. BagToSet(unheard) = {}
      BY DEF Init, EmptyBag, SetToBag, BagToSet
    <2> QED
      BY <2>1, <2>2, <2>3 DEF RequestsOK, AwaitedOK, UnheardOK
  <1>4. PageOK /\ ShownOK
    BY AdminPageAssumption DEF Init, PageOK, ShownOK, Panels, Tables
  <1> QED
    BY <1>2, <1>3, <1>4 DEF Inv

LEMMA InvNext == Inv /\ [Next]_vars => Inv'
  <1> SUFFICES ASSUME Inv, [Next]_vars PROVE Inv'
    OBVIOUS
  <1>1. CASE Clicks
    <2>1. CASE \E d \in Device :
                  \/ RevokeDevice(d) \/ DeleteDevice(d) \/ StartRename(d) \/ FinishRename(d)
                  \/ \E n \in Name : SubmitRename(d, n)
      BY <2>1, DeviceClicks
    <2>2. CASE DoLogin \/ DoLogout \/ HideModal \/ \E p \in Panels : SwitchPanel(p)
      BY <2>2, SessionClicks
    <2> QED
      BY <1>1, <2>1, <2>2, OtherClicks DEF Clicks
  <1>2. CASE Callbacks
    <2>1. InFlight("answered") = {r \in BagToSet(reqs) : r.at = "answered"}
      BY DEF InFlight
    <2> QED
      BY <1>2, <2>1, SessionCallbacks, TableCallbacks, ChangeCallbacks, ChartCallbacks
         DEF Callbacks
  <1>3. CASE ServerSteps \/ ElsewhereSteps
    <2>1. ServerKept
      BY <1>3, ServerKeeps, ElsewhereKeeps DEF ServerSteps, ElsewhereSteps, Inv
    <2>2. UNCHANGED <<viewVars, tableVars, secretVars, chartVars, clicks>>
      BY <1>3 DEF ServerSteps, ElsewhereSteps
    <2>3. PageOK'
      BY <2>2 DEF Inv, PageOK, viewVars, tableVars, secretVars, chartVars
    <2>4. ShownOK'
      BY <2>1, <2>2, ShownKeeps DEF Inv, ServerKept, StoreOK, tableVars
    <2> QED
      BY <2>1, <2>3, <2>4 DEF Inv, ServerKept
  <1>4. CASE UNCHANGED vars
    BY <1>4 DEF vars, apiVars, pageVars, storeVars, viewVars, tableVars, secretVars, chartVars,
                Inv, StoreOK, RequestsOK, AwaitedOK, UnheardOK, PageOK, ShownOK
  <1> QED
    BY <1>1, <1>2, <1>3, <1>4 DEF Next

\* Whatever is clicked, answered and lost, requests are well formed and every list of
\* devices shows as revoked only what stays revoked (app.js:153-204, admin_api.go).
THEOREM InvAlways == Spec => []Inv
  BY InvInit, InvNext, PTL DEF Spec

\* The page's state and the store it works on stay well formed (app.js, admin_api.go).
THEOREM TypeCorrect == Spec => []TypeOK
  <1>1. Inv => TypeOK
    BY DEF Inv, StoreOK, PageOK, TypeOK, DeviceTable, DeviceRow
  <1> QED
    BY <1>1, InvAlways, PTL

\* However many devices, pages and late answers: a Delete is never refused because
\* its device is not revoked (app.js:196-204, admin_api.go).
THEOREM DeleteIsTaken == Spec => []DeleteNeverRefused
  <1>1. Inv => DeleteNeverRefused
    BY DEF Inv, RequestsOK, AwaitedOK, AskedOK, RequestOK, DeleteNeverRefused
  <1> QED
    BY <1>1, InvAlways, PTL
=============================================================================
