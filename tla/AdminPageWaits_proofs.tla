----------------------- MODULE AdminPageWaits_proofs -----------------------
(***************************************************************************)
(* Proofs about AdminPage, for any number of devices, rules, keys, clicks   *)
(* and mishaps: what the page shows an admin who waits for answers, and the  *)
(* secrets it shows one who waits or not.                                    *)
(***************************************************************************)
EXTENDS AdminPage_proofs

\* One request at most is under way.
Alone == reqs = EmptyBag \/ \E r : reqs = SetToBag({r})

\* A rule that is saved and to be applied is the one that was asked for, and so is
\* the history once it is.
RuleOK ==
    "history" \notin behind =>
        \A r \in BagToSet(reqs) :
            /\ r.at = "half" => rules[r.item] = r.value
            /\ r.op = "saveRule" /\ r.apply /\ r.at = "answered" /\ r.status = "ok" =>
                  /\ rules[r.item] = r.value
                  /\ \A a \in Matches[r.item] : history[a] \subseteq {r.value}

ChartsOK ==
    /\ \A r \in BagToSet(reqs) : r.op = "report" => r.item = device /\ r.value = range
    /\ "charts" \notin behind /\ charts # None /\ (\A r \in BagToSet(reqs) : r.op # "report") =>
          charts.device = device /\ charts.range = range

\* A rename that is done is in a row that is being redrawn.
EditsOK ==
    /\ finished \subseteq 1..clicks
    /\ edits \in [Device -> 0..clicks]
    /\ \A r \in BagToSet(reqs) : r.op = "rename" => r.edit \in 1..clicks
    /\ "devices" \notin behind =>
          /\ (\A r \in BagToSet(reqs) : r.op # "loadDevices") => \A d \in Device : edits[d] \notin finished
          /\ \A r \in BagToSet(reqs) : r.op = "rename" => r.edit \notin finished

Stored == [t \in Tables |-> CASE t = "devices" -> devices [] t = "rules" -> rules
                              [] t = "keys" -> keys]

\* The operations that write what a table shows.
Writes == [t \in Tables |-> CASE t = "devices" -> {"enroll", "revoke", "rename", "delete"}
                              [] t = "rules" -> {"saveRule", "deleteRule"}
                              [] t = "keys" -> {"createKey", "revokeKey"}]

\* A table shows what is stored, but from a write until it is drawn again.
TableOK(t) ==
    /\ shown[t] # None
       /\ (\A r \in BagToSet(reqs) : r.op # Load[t] /\ (r.op \in Writes[t] => r.at = "sent")) =>
          shown[t] = Stored[t]
    /\ \A r \in BagToSet(reqs) :
          r.op = Load[t] /\ r.at = "answered" /\ r.status = "ok" => r.data = Stored[t]

TablesOK == \A t \in Tables \ behind : TableOK(t)

HasSession == cookie \in sessions

SessionOps == {"bootstrap", "login", "logout"}

\* What each request under way tells of the session.
SessionOK ==
    /\ cookie \in minted \cup {None}
    /\ \A r \in BagToSet(reqs) :
          /\ r.op # "login" => r.cookie = cookie
          /\ r.op = "login" /\ r.at = "answered" /\ r.status = "ok" =>
                r.data \in minted /\ (r.data \in sessions \/ "session" \in behind)
          /\ r.op \notin {"login", "logout"} /\ r.at = "answered" /\ r.status = "401" => ~HasSession
    /\ "session" \notin behind =>
          /\ reqs = EmptyBag => (view = "app" <=> HasSession)
          /\ \A r \in BagToSet(reqs) :
                /\ r.op = "login" /\ (r.at = "sent" \/ r.status = "401") => view = "login" /\ ~HasSession
                /\ r.op = "bootstrap" /\ r.at = "answered" /\ r.status = "ok" => HasSession
                /\ r.op \notin SessionOps => view = "app" /\ HasSession

\* A logout given up and not yet served can end the session only of a page that says
\* so, or is about to leave that session.
LogoutsOK ==
    \A u \in BagToSet(unheard) : u.op = "logout" =>
        /\ u.cookie \in minted \cup {None}
        /\ \A q \in BagToSet(reqs) :
              q.op = "login" /\ q.at = "answered" /\ q.status = "ok" => q.data # u.cookie
        /\ u.cookie = cookie /\ HasSession /\ "session" \notin behind =>
              \E q \in BagToSet(reqs) :
                  q.at = "answered" /\ (q.op = "logout" \/ (q.op = "login" /\ q.status # "401"))

\* The inductive invariant, next to Inv.
Waiting == Alone /\ RuleOK /\ ChartsOK /\ EditsOK /\ TablesOK /\ SessionOK /\ LogoutsOK
Waits == ~overlapped => Waiting

-----------------------------------------------------------------------------
(* Bags of one request.                                                      *)

LEMMA BagOfSet == ASSUME NEW S PROVE BagToSet(SetToBag(S)) = S
  BY DEF BagToSet, SetToBag

LEMMA BagFromEmpty == ASSUME NEW S PROVE EmptyBag (+) SetToBag(S) = SetToBag(S)
  BY DEF EmptyBag, SetToBag, (+)

LEMMA BagSwap ==
  ASSUME NEW r, NEW R
  PROVE  Swap(SetToBag({r}), r, R) = SetToBag(R)
  <1>1. SetToBag({r}) (-) SetToBag({r}) = EmptyBag
    BY DEF EmptyBag, SetToBag, (-)
  <1> QED
    BY <1>1, BagFromEmpty DEF Swap

LEMMA EmptyHasNone == BagToSet(EmptyBag) = {}
  BY DEF EmptyBag, SetToBag, BagToSet

\* A click of an admin who waits finds nothing under way.
LEMMA ClickShape ==
  ASSUME NEW sent, Click(sent), ~overlapped'
  PROVE  /\ ~overlapped
         /\ reqs = EmptyBag /\ BagToSet(reqs) = {}
         /\ reqs' = SetToBag(sent) /\ BagToSet(reqs') = sent
  <1>1. ~overlapped /\ reqs = EmptyBag
    BY DEF Click
  <1>2. reqs' = SetToBag(sent)
    BY <1>1, BagFromEmpty DEF Click
  <1> QED
    BY <1>1, <1>2, EmptyHasNone, BagOfSet

\* What replaces a request is then alone.
LEMMA SwapShape ==
  ASSUME Alone, NEW r \in BagToSet(reqs), NEW R, reqs' = Swap(reqs, r, R)
  PROVE  /\ BagToSet(reqs) = {r}
         /\ reqs' = SetToBag(R) /\ BagToSet(reqs') = R
  <1>1. PICK q : reqs = SetToBag({q})
    BY EmptyHasNone DEF Alone
  <1>2. q = r
    BY <1>1, BagOfSet
  <1>3. reqs' = SetToBag(R)
    BY <1>1, <1>2, BagSwap
  <1> QED
    BY <1>1, <1>2, <1>3, BagOfSet

-----------------------------------------------------------------------------
(* The server's steps: a request r, heard or not, becomes s.                 *)

SameAsk(r, s) ==
    /\ s.op = r.op /\ s.item = r.item /\ s.value = r.value
    /\ s.apply = r.apply /\ s.edit = r.edit /\ s.cookie = r.cookie

StoreMoves(r, at, status, data) ==
    /\ at = "answered" \/ (at = "half" /\ r.op = "saveRule")
    /\ devices' = devices \/ r.op \in {"enroll", "revoke", "rename", "delete"}
    /\ rules' = rules \/ (r.op \in {"saveRule", "deleteRule"} /\ r.at # "half")
    /\ keys' = keys \/ r.op \in {"createKey", "revokeKey"}
    /\ at = "half" => rules' = UpsertRule(r.item, r.value)
    /\ at = "answered" /\ status = "ok" /\ r.op = "saveRule" /\ r.apply =>
          r.at = "half" /\ history' = Remapped(r.item, r.value)
    /\ at = "answered" /\ status = "ok" =>
          /\ r.op = "loadDevices" => data = devices'
          /\ r.op = "loadRules" => data = rules'
          /\ r.op = "loadKeys" => data = keys'

SessionMoves(r, at, status, data) ==
    /\ \/ /\ r.op = "login" /\ status = "ok" /\ data \in Token \ minted
          /\ sessions' = sessions \cup {data} /\ minted' = minted \cup {data}
       \/ r.op = "logout" /\ sessions' = sessions \ {r.cookie} /\ minted' = minted
       \/ /\ sessions' = sessions /\ minted' = minted
          /\ r.op = "login" => status # "ok"
    /\ status = "401" => r.at = "sent" \/ at # "answered"
    /\ at = "answered" /\ status = "401" /\ r.op \notin {"login", "logout"} =>
          r.cookie \notin sessions
    /\ at = "answered" /\ status = "ok" /\ r.op = "bootstrap" => r.cookie \in sessions

Moves(r, s) ==
    /\ SameAsk(r, s)
    /\ StoreMoves(r, s.at, s.status, s.data)
    /\ SessionMoves(r, s.at, s.status, s.data)

\* r is awaited, or its answer is lost; what is left of it unheard asks for the same.
Serves(r, s) ==
    /\ IF r.heard THEN reqs' = Swap(reqs, r, {s}) ELSE reqs' = reqs
    /\ \A u \in BagToSet(unheard') : u \in BagToSet(unheard) \/ SameAsk(r, u)

ServesSome(r) == \E s : Serves(r, s) /\ Moves(r, s)

LEMMA ReplaceServes ==
  ASSUME NEW r, NEW s, Replace(r, {s}), SameAsk(r, s)
  PROVE  Serves(r, s)
  <1>1. CASE r.heard
    BY <1>1 DEF Replace, Serves
  <1>2. CASE ~r.heard
    <2> DEFINE Q == {t \in {s} : t.at # "answered"}
    <2>1. unheard' = Swap(unheard, r, Q) /\ reqs' = reqs
      BY <1>2 DEF Replace
    <2>2. \A t \in Q : t = s
      OBVIOUS
    <2> HIDE DEF Q
    <2>3. \A u \in BagToSet(unheard') : u \in BagToSet(unheard) \/ u \in Q
      BY <2>1, BagSwapped
    <2> QED
      BY <1>2, <2>1, <2>2, <2>3 DEF Serves
  <1> QED
    BY <1>1, <1>2

LEMMA AnswerMoves ==
  ASSUME NEW r, IsRequest(r), NEW status, NEW data, Answer(r, status, data),
         StoreMoves(r, "answered", status, data), SessionMoves(r, "answered", status, data)
  PROVE  ServesSome(r)
  <1> DEFINE s == Answered(r, status, data)
  <1>1. SameAsk(r, s) /\ s.at = "answered" /\ s.status = status /\ s.data = data
    BY AnsweredIs DEF SameAsk
  <1>2. Replace(r, {s})
    BY DEF Answer
  <1> HIDE DEF s
  <1>3. Moves(r, s)
    BY <1>1 DEF Moves
  <1>4. Serves(r, s)
    BY <1>1, <1>2, ReplaceServes
  <1> QED
    BY <1>3, <1>4 DEF ServesSome

LEMMA HandlerMoves ==
  ASSUME NEW r, IsRequest(r), r.at = "sent", Handler(r)
  PROVE  ServesSome(r)
  <1> USE DEF storeVars
  <1>1. CASE Login(r)
    <2>1. CASE \E t \in Token \ minted :
                  /\ sessions' = sessions \cup {t}
                  /\ minted' = minted \cup {t}
                  /\ Answer(r, "ok", t)
                  /\ UNCHANGED storeVars
      <3>1. PICK t \in Token \ minted :
                  /\ sessions' = sessions \cup {t}
                  /\ minted' = minted \cup {t}
                  /\ Answer(r, "ok", t)
                  /\ UNCHANGED storeVars
        BY <2>1
      <3>2. r.op = "login"
        BY <1>1 DEF Login
      <3>3. StoreMoves(r, "answered", "ok", t)
        BY <3>1, <3>2 DEF StoreMoves
      <3>4. SessionMoves(r, "answered", "ok", t)
        BY <3>1, <3>2 DEF SessionMoves
      <3> QED
        BY <3>1, <3>3, <3>4, AnswerMoves
    <2>2. CASE Answer(r, "401", None) /\ UNCHANGED <<storeVars, sessions, minted>>
      <3>1. r.op = "login"
        BY <1>1 DEF Login
      <3>2. StoreMoves(r, "answered", "401", None)
        BY <2>2, <3>1 DEF StoreMoves
      <3>3. SessionMoves(r, "answered", "401", None)
        BY <2>2, <3>1 DEF SessionMoves
      <3> QED
        BY <2>2, <3>2, <3>3, AnswerMoves
    <2> QED
      BY <1>1, <2>1, <2>2 DEF Login
  <1>2. CASE Logout(r)
    <2>1. Answer(r, "ok", None)
      BY <1>2 DEF Logout
    <2>2. StoreMoves(r, "answered", "ok", None)
      BY <1>2 DEF Logout, StoreMoves
    <2>3. SessionMoves(r, "answered", "ok", None)
      BY <1>2 DEF Logout, SessionMoves
    <2> QED
      BY <2>1, <2>2, <2>3, AnswerMoves
  <1>3. CASE Unauthorized(r)
    <2>1. Answer(r, "401", None)
      BY <1>3 DEF Unauthorized, RequireAdmin
    <2>2. StoreMoves(r, "answered", "401", None)
      BY <1>3 DEF Unauthorized, RequireAdmin, StoreMoves
    <2>3. SessionMoves(r, "answered", "401", None)
      BY <1>3 DEF Unauthorized, RequireAdmin, SessionMoves
    <2> QED
      BY <2>1, <2>2, <2>3, AnswerMoves
  <1>4. CASE HandleDevices(r)
    <2>1. Answer(r, "ok", devices)
      BY <1>4 DEF HandleDevices, DeviceList, AdminCall, RequireAdmin
    <2>2. StoreMoves(r, "answered", "ok", devices)
      BY <1>4 DEF HandleDevices, DeviceList, AdminCall, RequireAdmin, StoreMoves
    <2>3. SessionMoves(r, "answered", "ok", devices)
      BY <1>4 DEF HandleDevices, DeviceList, AdminCall, RequireAdmin, SessionMoves
    <2> QED
      BY <2>1, <2>2, <2>3, AnswerMoves
  <1>5. CASE HandleDeviceEnroll(r)
    <2>1. PICK d : Answer(r, "ok", d)
      BY <1>5 DEF HandleDeviceEnroll
    <2>2. StoreMoves(r, "answered", "ok", d)
      BY <1>5 DEF HandleDeviceEnroll, AdminCall, StoreMoves
    <2>3. SessionMoves(r, "answered", "ok", d)
      BY <1>5 DEF HandleDeviceEnroll, AdminCall, SessionMoves
    <2> QED
      BY <2>1, <2>2, <2>3, AnswerMoves
  <1>6. CASE HandleDeviceRevoke(r)
    <2>1. Answer(r, "ok", None)
      BY <1>6 DEF HandleDeviceRevoke, AdminCall
    <2>2. StoreMoves(r, "answered", "ok", None)
      BY <1>6 DEF HandleDeviceRevoke, AdminCall, StoreMoves
    <2>3. SessionMoves(r, "answered", "ok", None)
      BY <1>6 DEF HandleDeviceRevoke, AdminCall, SessionMoves
    <2> QED
      BY <2>1, <2>2, <2>3, AnswerMoves
  <1>7. CASE HandleDeviceRename(r)
    <2>1. PICK status \in {"ok", "error"} : Answer(r, status, None)
      BY <1>7 DEF HandleDeviceRename
    <2>2. StoreMoves(r, "answered", status, None)
      BY <1>7 DEF HandleDeviceRename, AdminCall, StoreMoves
    <2>3. SessionMoves(r, "answered", status, None)
      BY <1>7, <2>1 DEF HandleDeviceRename, AdminCall, SessionMoves
    <2> QED
      BY <2>1, <2>2, <2>3, AnswerMoves
  <1>8. CASE HandleDeviceDelete(r)
    <2>1. PICK status \in {"ok", "conflict", "error"} : Answer(r, status, None)
      BY <1>8 DEF HandleDeviceDelete
    <2>2. StoreMoves(r, "answered", status, None)
      BY <1>8 DEF HandleDeviceDelete, AdminCall, StoreMoves
    <2>3. SessionMoves(r, "answered", status, None)
      BY <1>8, <2>1 DEF HandleDeviceDelete, AdminCall, SessionMoves
    <2> QED
      BY <2>1, <2>2, <2>3, AnswerMoves
  <1>9. CASE HandleRulesList(r)
    <2>1. Answer(r, "ok", rules)
      BY <1>9 DEF HandleRulesList, AdminCall
    <2>2. StoreMoves(r, "answered", "ok", rules)
      BY <1>9 DEF HandleRulesList, AdminCall, StoreMoves
    <2>3. SessionMoves(r, "answered", "ok", rules)
      BY <1>9 DEF HandleRulesList, AdminCall, SessionMoves
    <2> QED
      BY <2>1, <2>2, <2>3, AnswerMoves
  <1>10. CASE HandleRuleUpsert(r)
    <2>1. /\ r.op = "saveRule" /\ rules' = UpsertRule(r.item, r.value)
          /\ UNCHANGED <<sessions, minted, devices, history, keys>>
      BY <1>10 DEF HandleRuleUpsert, AdminCall
    <2>2. CASE r.apply
      <3> DEFINE s == [r EXCEPT !.at = "half"]
      <3>1. Replace(r, {s})
        BY <1>10, <2>2 DEF HandleRuleUpsert
      <3>2. SameAsk(r, s) /\ s.at = "half"
        BY DEF IsRequest, Fields, SameAsk
      <3> HIDE DEF s
      <3>3. StoreMoves(r, s.at, s.status, s.data)
        BY <2>1, <3>2 DEF StoreMoves
      <3>4. SessionMoves(r, s.at, s.status, s.data)
        BY <2>1, <3>2 DEF SessionMoves
      <3>5. Serves(r, s)
        BY <3>1, <3>2, ReplaceServes
      <3> QED
        BY <3>2, <3>3, <3>4, <3>5 DEF ServesSome, Moves
    <2>3. CASE ~r.apply
      <3>1. Answer(r, "ok", None)
        BY <1>10, <2>3 DEF HandleRuleUpsert
      <3>2. StoreMoves(r, "answered", "ok", None)
        BY <2>1, <2>3 DEF StoreMoves
      <3>3. SessionMoves(r, "answered", "ok", None)
        BY <2>1 DEF SessionMoves
      <3> QED
        BY <3>1, <3>2, <3>3, AnswerMoves
    <2> QED
      BY <2>2, <2>3
  <1>11. CASE HandleRuleDelete(r)
    <2>1. Answer(r, "ok", None)
      BY <1>11 DEF HandleRuleDelete, AdminCall
    <2>2. StoreMoves(r, "answered", "ok", None)
      BY <1>11 DEF HandleRuleDelete, AdminCall, StoreMoves
    <2>3. SessionMoves(r, "answered", "ok", None)
      BY <1>11 DEF HandleRuleDelete, AdminCall, SessionMoves
    <2> QED
      BY <2>1, <2>2, <2>3, AnswerMoves
  <1>12. CASE HandleKeyList(r)
    <2>1. Answer(r, "ok", keys)
      BY <1>12 DEF HandleKeyList, AdminCall
    <2>2. StoreMoves(r, "answered", "ok", keys)
      BY <1>12 DEF HandleKeyList, AdminCall, StoreMoves
    <2>3. SessionMoves(r, "answered", "ok", keys)
      BY <1>12 DEF HandleKeyList, AdminCall, SessionMoves
    <2> QED
      BY <2>1, <2>2, <2>3, AnswerMoves
  <1>13. CASE HandleKeyCreate(r)
    <2>1. PICK k : Answer(r, "ok", k)
      BY <1>13 DEF HandleKeyCreate
    <2>2. StoreMoves(r, "answered", "ok", k)
      BY <1>13 DEF HandleKeyCreate, AdminCall, StoreMoves
    <2>3. SessionMoves(r, "answered", "ok", k)
      BY <1>13 DEF HandleKeyCreate, AdminCall, SessionMoves
    <2> QED
      BY <2>1, <2>2, <2>3, AnswerMoves
  <1>14. CASE HandleKeyRevoke(r)
    <2>1. Answer(r, "ok", None)
      BY <1>14 DEF HandleKeyRevoke, AdminCall
    <2>2. StoreMoves(r, "answered", "ok", None)
      BY <1>14 DEF HandleKeyRevoke, AdminCall, StoreMoves
    <2>3. SessionMoves(r, "answered", "ok", None)
      BY <1>14 DEF HandleKeyRevoke, AdminCall, SessionMoves
    <2> QED
      BY <2>1, <2>2, <2>3, AnswerMoves
  <1>15. CASE HandleReport(r)
    <2>1. Answer(r, "ok", "whole")
      BY <1>15 DEF HandleReport
    <2>2. StoreMoves(r, "answered", "ok", "whole")
      BY <1>15 DEF HandleReport, AdminCall, StoreMoves
    <2>3. SessionMoves(r, "answered", "ok", "whole")
      BY <1>15 DEF HandleReport, AdminCall, SessionMoves
    <2> QED
      BY <2>1, <2>2, <2>3, AnswerMoves
  <1> QED
    BY <1>1, <1>2, <1>3, <1>4, <1>5, <1>6, <1>7, <1>8, <1>9, <1>10, <1>11, <1>12, <1>13,
       <1>14, <1>15 DEF Handler

LEMMA RecategorizeMoves ==
  ASSUME NEW r, IsRequest(r), r.at = "half", r.op = "saveRule", Recategorize(r)
  PROVE  ServesSome(r)
  <1>1. Answer(r, "ok", None)
    BY DEF Recategorize
  <1>2. StoreMoves(r, "answered", "ok", None)
    BY DEF Recategorize, StoreMoves
  <1>3. SessionMoves(r, "answered", "ok", None)
    BY DEF Recategorize, SessionMoves
  <1> QED
    BY <1>1, <1>2, <1>3, AnswerMoves

LEMMA ErrorMoves ==
  ASSUME NEW r, IsRequest(r), r.heard, StorageError(r) \/ NetworkError(r)
  PROVE  ServesSome(r)
  <1> USE DEF storeVars
  <1>0. UNCHANGED <<storeVars, sessions, minted>>
    BY DEF StorageError, NetworkError
  <1>1. StoreMoves(r, "answered", "error", None)
    BY <1>0 DEF StoreMoves
  <1>2. SessionMoves(r, "answered", "error", None)
    BY <1>0 DEF SessionMoves
  <1>3. CASE StorageError(r)
    <2>1. CASE Answer(r, "error", None)
      BY <1>1, <1>2, <2>1, AnswerMoves
    <2>2. CASE r.op = "report" /\ Answer(r, "ok", "partial")
      <3>1. StoreMoves(r, "answered", "ok", "partial")
        BY <1>0, <2>2 DEF StoreMoves
      <3>2. SessionMoves(r, "answered", "ok", "partial")
        BY <1>0, <2>2 DEF SessionMoves
      <3> QED
        BY <2>2, <3>1, <3>2, AnswerMoves
    <2> QED
      BY <1>3, <2>1, <2>2 DEF StorageError
  <1>4. CASE NetworkError(r)
    <2> DEFINE s == Answered(r, "error", None)
               U == {Unheard(t) : t \in {q \in {r} : q.at # "answered" /\ q.op \notin Reads}}
    <2>1. reqs' = Swap(reqs, r, {s}) /\ unheard' = unheard (+) SetToBag(U)
      BY <1>4 DEF NetworkError
    <2>2. SameAsk(r, s) /\ s.at = "answered" /\ s.status = "error" /\ s.data = None
      BY AnsweredIs DEF SameAsk
    <2>3. \A u \in U : SameAsk(r, u)
      <3>1. SameAsk(r, Unheard(r))
        BY DEF IsRequest, Fields, Unheard, SameAsk
      <3> QED
        BY <3>1
    <2> HIDE DEF s, U
    <2>4. BagToSet(unheard') = BagToSet(unheard) \cup U
      BY <2>1, BagAdd
    <2>5. Serves(r, s)
      BY <2>1, <2>3, <2>4 DEF Serves
    <2>6. Moves(r, s)
      BY <1>1, <1>2, <2>2 DEF Moves
    <2> QED
      BY <2>5, <2>6 DEF ServesSome
  <1> QED
    BY <1>3, <1>4

\* A request under way is served, or one nobody waits for.
LEMMA ServerMoves ==
  ASSUME RequestsOK, ServerStep
  PROVE  \E r \in BagToSet(reqs) \cup BagToSet(unheard) :
            (r.heard <=> r \in BagToSet(reqs)) /\ ServesSome(r)
  <1>1. \A r \in BagToSet(reqs) \cup BagToSet(unheard) :
           (r.heard <=> r \in BagToSet(reqs)) /\ RequestOK(r, devices)
    BY DEF RequestsOK, AwaitedOK, AskedOK, UnheardOK
  <1>2. \A at : \A r \in AtServer(at) : r \in BagToSet(reqs) \cup BagToSet(unheard) /\ r.at = at
    BY DEF AtServer, InFlight
  <1>3. CASE \E r \in AtServer("sent") : Handler(r)
    BY <1>1, <1>2, <1>3, HandlerMoves DEF RequestOK
  <1>4. CASE \E r \in AtServer("half") : Recategorize(r)
    BY <1>1, <1>2, <1>4, RecategorizeMoves DEF RequestOK
  <1>5. CASE \E r \in BagToSet(reqs) : StorageError(r) \/ NetworkError(r)
    BY <1>1, <1>5, ErrorMoves DEF RequestOK
  <1> QED
    BY <1>3, <1>4, <1>5 DEF ServerStep, InFlight

-----------------------------------------------------------------------------
(* The steps of the server and of others.                                    *)

LEMMA LoadIs == /\ Load["devices"] = "loadDevices" /\ Load["rules"] = "loadRules"
                /\ Load["keys"] = "loadKeys" /\ Load["dashboards"] = "loadDashboards"
  BY DEF Load

LEMMA WritesIs == /\ Writes["devices"] = {"enroll", "revoke", "rename", "delete"}
                  /\ Writes["rules"] = {"saveRule", "deleteRule"}
                  /\ Writes["keys"] = {"createKey", "revokeKey"}
  BY DEF Writes, Tables

LEMMA StoredIs == Stored["devices"] = devices /\ Stored["rules"] = rules /\ Stored["keys"] = keys
  BY DEF Stored, Tables

LEMMA StoredIsNext ==
  Stored'["devices"] = devices' /\ Stored'["rules"] = rules' /\ Stored'["keys"] = keys'
  BY DEF Stored, Tables

\* Only what a request under way refreshes catches up.
LEMMA ServerBehind ==
  ASSUME ServerSteps, NEW s, BagToSet(reqs') = {s}
  PROVE  \A b \in behind \ behind' :
            \/ b = "history" /\ s.at = "half"
            \/ /\ s.at = "answered" /\ s.status = "ok"
               /\ \/ b = "session" /\ s.op = "login"
                  \/ b \in Tables /\ s.op = Load[b]
  BY DEF ServerSteps, Refreshes, Tables

\* A request the page waits for is served.
LEMMA AwaitedWaits ==
  ASSUME Inv, Waiting, ServerSteps, NEW r \in BagToSet(reqs), r.heard, ServesSome(r)
  PROVE  Waiting'
  <1> USE DEF viewVars, tableVars, secretVars, chartVars, Tables
  <1>1. PICK s : Serves(r, s) /\ Moves(r, s)
    BY DEF ServesSome
  <1>2. /\ BagToSet(reqs) = {r} /\ reqs' = SetToBag({s}) /\ BagToSet(reqs') = {s}
        /\ \A u \in BagToSet(unheard') : u \in BagToSet(unheard) \/ SameAsk(r, u)
    BY <1>1, SwapShape DEF Serves, Waiting
  <1>3. UNCHANGED <<cookie, view, shown, edits, finished, modal, created, seen, options, device,
                    range, charts, clicks>>
    BY DEF ServerSteps
  <1>4. \A b \in behind \ behind' :
            \/ b = "history" /\ s.at = "half"
            \/ /\ s.at = "answered" /\ s.status = "ok"
               /\ \/ b = "session" /\ s.op = "login"
                  \/ b \in Tables /\ s.op = Load[b]
    BY <1>2, ServerBehind
  <1>5. Alone'
    BY <1>2 DEF Alone
  <1>6. RequestOK(r, devices) /\ rules \in [Pattern -> Category \cup {None}]
    BY DEF Inv, StoreOK, RequestsOK, AwaitedOK, AskedOK
  <1>7. RuleOK'
    <2> SUFFICES ASSUME "history" \notin behind'
                 PROVE  /\ s.at = "half" => rules'[s.item] = s.value
                        /\ s.op = "saveRule" /\ s.apply /\ s.at = "answered" /\ s.status = "ok" =>
                              /\ rules'[s.item] = s.value
                              /\ \A a \in Matches[s.item] : history'[a] \subseteq {s.value}
      BY <1>2 DEF RuleOK
    <2>1. s.at = "half" => rules'[s.item] = s.value
      BY <1>1, <1>6 DEF Moves, SameAsk, StoreMoves, UpsertRule, RequestOK, AskOK
    <2>2. ASSUME s.op = "saveRule", s.apply, s.at = "answered", s.status = "ok"
          PROVE  /\ rules'[s.item] = s.value
                 /\ \A a \in Matches[s.item] : history'[a] \subseteq {s.value}
      <3>1. r.op = "saveRule" /\ r.apply /\ s.item = r.item /\ s.value = r.value
        BY <1>1, <2>2 DEF Moves, SameAsk
      <3>2. r.at = "half" /\ history' = Remapped(r.item, r.value) /\ rules' = rules
        BY <1>1, <2>2, <3>1 DEF Moves, StoreMoves
      <3>3. "history" \notin behind
        BY <1>4, <2>2
      <3>4. rules[r.item] = r.value
        BY <3>2, <3>3 DEF Waiting, RuleOK
      <3>5. Matches[r.item] \subseteq App
        BY <1>6, <3>1, AdminAPIAssumption DEF RequestOK, AskOK
      <3>6. \A a \in Matches[r.item] : history'[a] \subseteq {r.value}
        BY <3>2, <3>5 DEF Remapped
      <3> QED
        BY <3>1, <3>2, <3>4, <3>6
    <2> QED
      BY <2>1, <2>2
  <1>8. ChartsOK'
    <2>1. "charts" \in behind => "charts" \in behind'
      BY <1>4
    <2> QED
      BY <1>1, <1>2, <1>3, <2>1 DEF Waiting, ChartsOK, Moves, SameAsk
  <1>9. EditsOK'
    <2>1. "devices" \in behind \ behind' => s.op = "loadDevices"
      BY <1>4, LoadIs
    <2> QED
      BY <1>1, <1>2, <1>3, <2>1 DEF Waiting, EditsOK, Moves, SameAsk
  <1>10. TablesOK'
    <2> SUFFICES ASSUME NEW t \in Tables, t \notin behind' PROVE TableOK(t)'
      BY DEF TablesOK
    <2>1. t \notin behind => TableOK(t)
      BY DEF Waiting, TablesOK
    <2>2. s.op = Load[t] /\ s.at = "answered" /\ s.status = "ok" => s.data = Stored'[t]
      BY <1>1, LoadIs, StoredIsNext DEF Moves, SameAsk, StoreMoves
    <2>3. s.op # Load[t] => t \notin behind
      BY <1>4
    <2>4. s.op \notin Writes[t] => Stored'[t] = Stored[t]
      BY <1>1, StoredIs, StoredIsNext, WritesIs DEF Moves, SameAsk, StoreMoves
    <2>5. s.op = r.op /\ s.at # "sent"
      BY <1>1 DEF Moves, SameAsk, StoreMoves
    <2> QED
      BY <1>2, <1>3, <2>1, <2>2, <2>3, <2>4, <2>5 DEF TableOK
  <1>11. SessionOK'
    <2>1. sessions \subseteq minted
      BY DEF Inv, StoreOK
    <2>2. "session" \in behind \ behind' => s.op = "login" /\ s.at = "answered" /\ s.status = "ok"
      BY <1>4
    <2>3. cookie' \in minted' \cup {None}
      BY <1>1, <1>2, <1>3 DEF Waiting, SessionOK, Moves, SessionMoves
    <2>4. reqs' # EmptyBag
      BY <1>2, EmptyHasNone
    <2>5. /\ s.op # "login" => s.cookie = cookie'
          /\ s.op = "login" /\ s.at = "answered" /\ s.status = "ok" =>
                s.data \in minted' /\ s.data \in sessions'
          /\ s.op \notin {"login", "logout"} /\ s.at = "answered" /\ s.status = "401" => ~HasSession'
      BY <1>1, <1>2, <1>3 DEF Waiting, SessionOK, Moves, SameAsk, SessionMoves, StoreMoves, HasSession
    <2>6. ASSUME "session" \notin behind'
          PROVE  /\ s.op = "login" /\ (s.at = "sent" \/ s.status = "401") => view' = "login" /\ ~HasSession'
                 /\ s.op = "bootstrap" /\ s.at = "answered" /\ s.status = "ok" => HasSession'
                 /\ s.op \notin SessionOps => view' = "app" /\ HasSession'
      <3>1. CASE s.op = "login"
        BY <1>1, <1>2, <1>3, <2>2, <2>6, <3>1
           DEF Waiting, SessionOK, Moves, SameAsk, SessionMoves, StoreMoves, HasSession, SessionOps
      <3>2. CASE s.op = "bootstrap"
        BY <1>1, <1>2, <1>3, <3>2
           DEF Waiting, SessionOK, Moves, SameAsk, SessionMoves, StoreMoves, HasSession, SessionOps
      <3>3. CASE s.op \notin SessionOps
        BY <1>1, <1>2, <1>3, <2>2, <2>6, <3>3
           DEF Waiting, SessionOK, Moves, SameAsk, SessionMoves, StoreMoves, HasSession, SessionOps
      <3> QED
        BY <3>1, <3>2, <3>3 DEF SessionOps
    <2> QED
      BY <1>2, <2>3, <2>4, <2>5, <2>6 DEF SessionOK
  <1>12. LogoutsOK'
    <2> SUFFICES ASSUME NEW u \in BagToSet(unheard'), u.op = "logout"
                 PROVE  /\ u.cookie \in minted' \cup {None}
                        /\ s.op = "login" /\ s.at = "answered" /\ s.status = "ok" => s.data # u.cookie
                        /\ u.cookie = cookie /\ HasSession' /\ "session" \notin behind' =>
                              s.at = "answered" /\ (s.op = "logout" \/ (s.op = "login" /\ s.status # "401"))
      BY <1>2, <1>3 DEF LogoutsOK
    <2>0. cookie \in minted \cup {None} /\ None \notin Token
      BY AdminAPIAssumption DEF Waiting, SessionOK
    <2>1. CASE SameAsk(r, u)
      <3>1. r.op = "logout" /\ s.op = "logout" /\ u.cookie = r.cookie /\ s.at = "answered"
        BY <1>1, <2>1 DEF SameAsk, Moves, StoreMoves
      <3>2. u.cookie \in minted \cup {None} /\ minted' = minted
        BY <1>1, <1>2, <2>0, <3>1 DEF Waiting, SessionOK, Moves, SessionMoves
      <3> QED
        BY <3>1, <3>2
    <2>2. CASE u \in BagToSet(unheard)
      <3>1. /\ u.cookie \in minted \cup {None}
            /\ u.cookie = cookie /\ HasSession /\ "session" \notin behind =>
                  r.at = "answered" /\ (r.op = "logout" \/ (r.op = "login" /\ r.status # "401"))
        BY <1>2, <2>2 DEF Waiting, LogoutsOK
      <3>2. u.cookie \in minted' \cup {None}
        BY <1>1, <3>1 DEF Moves, SessionMoves
      <3>3. s.op = "login" /\ s.at = "answered" /\ s.status = "ok" => s.data # u.cookie
        BY <1>1, <2>0, <3>1 DEF Moves, SameAsk, SessionMoves
      <3>4. ASSUME u.cookie = cookie, HasSession', "session" \notin behind'
            PROVE  s.at = "answered" /\ (s.op = "logout" \/ (s.op = "login" /\ s.status # "401"))
        <4>1. s.op = r.op /\ (s.at = "answered" \/ (s.at = "half" /\ s.op = "saveRule"))
          BY <1>1 DEF Moves, SameAsk, StoreMoves
        <4>2. CASE r.op = "logout"
          BY <4>1, <4>2
        <4>3. CASE r.op = "login"
          <5>1. s.status # "401"
            <6> SUFFICES ASSUME s.status = "401" PROVE FALSE
              OBVIOUS
            <6>1. r.at = "sent" /\ sessions' = sessions
              BY <1>1, <4>1, <4>3 DEF Moves, SessionMoves
            <6>2. "session" \notin behind
              BY <1>4, <3>4
            <6> QED
              BY <1>3, <3>1, <3>4, <6>1, <6>2 DEF HasSession
          <5> QED
            BY <4>1, <4>3, <5>1
        <4>4. CASE r.op \notin {"login", "logout"}
          <5>1. sessions' = sessions /\ "session" \notin behind
            BY <1>1, <1>4, <3>4, <4>1, <4>4 DEF Moves, SessionMoves
          <5> QED
            BY <1>3, <3>1, <3>4, <4>4, <5>1 DEF HasSession
        <4> QED
          BY <4>2, <4>3, <4>4
      <3> QED
        BY <3>2, <3>3, <3>4
    <2> QED
      BY <1>2, <2>1, <2>2
  <1> QED
    BY <1>5, <1>7, <1>8, <1>9, <1>10, <1>11, <1>12 DEF Waiting

\* What a step does to the sessions that is not the page's own.
OthersSessions ==
    \/ \E t \in Token \ minted : sessions' = sessions \cup {t} /\ minted' = minted \cup {t}
    \/ /\ \E u \in BagToSet(unheard) : u.op = "logout" /\ sessions' = sessions \ {u.cookie}
       /\ minted' = minted
    \/ UNCHANGED <<sessions, minted>>
    \/ sessions' = {} /\ minted' = minted /\ "session" \in behind'

\* A step of others: nothing of the page but what lags.
LEMMA OthersWait ==
  ASSUME Inv, Waiting,
         UNCHANGED <<cookie, view, shown, edits, finished, device, range, charts, clicks, reqs>>,
         behind \cup Changed \subseteq behind', OthersSessions,
         \A u \in BagToSet(unheard') : u.op = "logout" =>
            \E v \in BagToSet(unheard) : v.op = "logout" /\ v.cookie = u.cookie
  PROVE  Waiting'
  <1> USE DEF Tables
  <1>1. /\ devices' = devices \/ "devices" \in behind'
        /\ rules' = rules \/ ("rules" \in behind' /\ "history" \in behind')
        /\ history' = history \/ "history" \in behind'
        /\ keys' = keys \/ "keys" \in behind'
    BY DEF Changed
  <1>2. Alone' /\ ChartsOK' /\ EditsOK'
    BY DEF Waiting, Alone, ChartsOK, EditsOK
  <1>3. RuleOK'
    BY <1>1 DEF Waiting, RuleOK
  <1>4. TablesOK'
    <2> SUFFICES ASSUME NEW t \in Tables, t \notin behind' PROVE TableOK(t)'
      BY DEF TablesOK
    <2>1. TableOK(t)
      BY DEF Waiting, TablesOK
    <2>2. Stored'[t] = Stored[t]
      BY <1>1, StoredIs, StoredIsNext
    <2> QED
      BY <2>1, <2>2 DEF TableOK
  <1>5. cookie \in minted \cup {None} /\ None \notin Token
    BY AdminAPIAssumption DEF Waiting, SessionOK
  <1>6. minted \subseteq minted' /\ (HasSession' => HasSession)
    BY <1>5 DEF OthersSessions, HasSession
  <1>7. LogoutsOK'
    BY <1>6 DEF Waiting, LogoutsOK
  <1>8. SessionOK'
    <2>1. CASE sessions' = {} /\ minted' = minted /\ "session" \in behind'
      BY <2>1 DEF Waiting, SessionOK, HasSession
    <2>2. CASE \/ \E t \in Token \ minted : sessions' = sessions \cup {t} /\ minted' = minted \cup {t}
               \/ UNCHANGED <<sessions, minted>>
      <3>1. HasSession' = HasSession /\ sessions \subseteq sessions'
        BY <1>5, <2>2 DEF HasSession
      <3> QED
        BY <1>6, <3>1 DEF Waiting, SessionOK
    <2>3. ASSUME NEW u \in BagToSet(unheard), u.op = "logout", sessions' = sessions \ {u.cookie},
                 minted' = minted
          PROVE  SessionOK'
      <3>1. \A q \in BagToSet(reqs) :
               q.op = "login" /\ q.at = "answered" /\ q.status = "ok" /\ q.data \in sessions =>
                  q.data \in sessions'
        BY <2>3 DEF Waiting, LogoutsOK
      <3>2. CASE HasSession' \/ ~HasSession \/ "session" \in behind'
        BY <1>6, <2>3, <3>1, <3>2 DEF Waiting, SessionOK
      <3>3. CASE ~HasSession' /\ HasSession /\ "session" \notin behind'
        <4>1. u.cookie = cookie /\ "session" \notin behind
          BY <2>3, <3>3 DEF HasSession
        <4>2. PICK q \in BagToSet(reqs) :
                 q.at = "answered" /\ (q.op = "logout" \/ (q.op = "login" /\ q.status # "401"))
          BY <2>3, <3>3, <4>1 DEF Waiting, LogoutsOK
        <4>3. BagToSet(reqs) = {q} /\ reqs # EmptyBag
          BY EmptyHasNone, BagOfSet DEF Waiting, Alone
        <4> QED
          BY <1>6, <2>3, <3>1, <3>3, <4>2, <4>3 DEF Waiting, SessionOK, SessionOps
      <3> QED
        BY <3>2, <3>3
    <2> QED
      BY <2>1, <2>2, <2>3 DEF OthersSessions
  <1> QED
    BY <1>2, <1>3, <1>4, <1>7, <1>8 DEF Waiting

\* A request nobody waits for is served.
LEMMA LateWaits ==
  ASSUME Inv, Waiting, NEW r, ~r.heard, ServesSome(r),
         r.op = "logout" => r \in BagToSet(unheard),
         UNCHANGED <<cookie, view, shown, edits, finished, device, range, charts, clicks>>,
         behind \cup Changed \subseteq behind'
  PROVE  Waiting' /\ reqs' = reqs
  <1>1. PICK s : Serves(r, s) /\ Moves(r, s)
    BY DEF ServesSome
  <1>2. reqs' = reqs
    BY <1>1 DEF Serves
  <1>3. OthersSessions
    BY <1>1 DEF Moves, SessionMoves, OthersSessions
  <1>4. \A u \in BagToSet(unheard') : u.op = "logout" =>
            \E v \in BagToSet(unheard) : v.op = "logout" /\ v.cookie = u.cookie
    BY <1>1 DEF Serves, SameAsk
  <1> QED
    BY <1>2, <1>3, <1>4, OthersWait

LEMMA ServerWaits ==
  ASSUME Inv, Waiting, ServerSteps
  PROVE  Waiting'
  <1> USE DEF viewVars, tableVars, secretVars, chartVars
  <1>1. PICK r \in BagToSet(reqs) \cup BagToSet(unheard) :
            (r.heard <=> r \in BagToSet(reqs)) /\ ServesSome(r)
    BY ServerMoves DEF Inv, ServerSteps
  <1>2. CASE r.heard
    BY <1>1, <1>2, AwaitedWaits
  <1>3. CASE ~r.heard
    <2>1. reqs' = reqs
      BY <1>1, <1>3 DEF ServesSome, Serves
    <2>2. behind' = behind \cup Changed
      BY <2>1 DEF ServerSteps
    <2>3. UNCHANGED <<cookie, view, shown, edits, finished, device, range, charts, clicks>>
      BY DEF ServerSteps
    <2> QED
      BY <1>1, <1>3, <2>2, <2>3, LateWaits
  <1> QED
    BY <1>2, <1>3

LEMMA ElsewhereWaits ==
  ASSUME Inv, Waiting, ElsewhereSteps
  PROVE  Waiting'
  <1> USE DEF viewVars, tableVars, secretVars, chartVars
  <1>1. /\ UNCHANGED <<cookie, view, shown, edits, finished, device, range, charts, clicks>>
        /\ behind \cup Changed \subseteq behind'
        /\ sessions' = sessions \/ "session" \in behind'
    BY DEF ElsewhereSteps
  <1>2. CASE OtherAdmin
    <2>1. PICK op, item, value, apply, r :
             /\ op # "logout"
             /\ r = OtherRequest(op, item, value, apply)
             /\ Handler(r)
      BY <1>2, OtherAdminServed DEF OtherServed
    <2>2. IsRequest(r) /\ r.op = op /\ r.at = "sent" /\ ~r.heard
      BY <2>1, OtherRequestIs
    <2>3. ServesSome(r)
      BY <2>1, <2>2, HandlerMoves
    <2> QED
      BY <1>1, <2>1, <2>2, <2>3, LateWaits
  <1>3. CASE SessionsEnd \/ Batch
    <2>1. reqs' = reqs /\ unheard' = unheard /\ OthersSessions
      BY <1>1, <1>3 DEF SessionsEnd, Batch, OthersSessions
    <2> QED
      BY <1>1, <2>1, OthersWait
  <1> QED
    BY <1>2, <1>3 DEF ElsewhereSteps, Elsewhere

-----------------------------------------------------------------------------
(* The clicks.                                                               *)

\* Every click is one, with one request at most.
LEMMA ClicksClick ==
  ASSUME Clicks
  PROVE  \E sent : /\ Click(sent) /\ \A p, q \in sent : p = q
                   /\ \/ modal' = modal /\ seen' = seen
                      \/ sent = {} /\ modal' = None /\ seen' = seen \cup {modal}
  BY DEF Clicks, DoLogin, DoLogout, HideModal, SwitchPanel, EnrollDevice, RevokeDevice,
         DeleteDevice, StartRename, FinishRename, Finish, SubmitRename, DeleteRule, SaveRule,
         CreateKey, RevokeKey, RenderDashboards, ClickIn

\* A request as a click sends it.
Asked(q) ==
    /\ q.at = "sent" /\ q.status = "none" /\ q.cookie = cookie /\ q.op # "bootstrap"
    /\ view = IF q.op = "login" THEN "login" ELSE "app"
    /\ q.op = "report" => q.item = device' /\ q.value = range'

LEMMA ClickWaits ==
  ASSUME Inv, Waiting, ~overlapped', NEW sent, Click(sent),
         sent = {} \/ \E q : sent = {q} /\ Asked(q),
         EditsOK',
         (device' = device /\ range' = range) \/ \E q : sent = {q} /\ q.op = "report",
         UNCHANGED <<shown, charts>>
  PROVE  Waiting'
  <1> USE DEF serverVars, storeVars
  <1>1. /\ reqs = EmptyBag /\ BagToSet(reqs) = {}
        /\ reqs' = SetToBag(sent) /\ BagToSet(reqs') = sent
    BY ClickShape
  <1>2. UNCHANGED <<devices, rules, history, keys, sessions, minted, unheard, cookie, view, behind>>
    BY DEF Click
  <1>3. \A q \in sent : sent = {q} /\ Asked(q)
    OBVIOUS
  <1>4. Alone'
    BY <1>1 DEF Alone, EmptyBag
  <1>5. LogoutsOK'
    BY <1>1, <1>2, <1>3 DEF Waiting, LogoutsOK, HasSession, Asked
  <1>6. RuleOK'
    BY <1>1, <1>3 DEF RuleOK, Asked
  <1>7. ChartsOK'
    BY <1>1, <1>2, <1>3 DEF Waiting, ChartsOK, Asked
  <1>8. TablesOK'
    <2> SUFFICES ASSUME NEW t \in Tables, t \notin behind' PROVE TableOK(t)'
      BY DEF TablesOK
    <2>1. TableOK(t)
      BY <1>2 DEF Waiting, TablesOK
    <2>2. Stored'[t] = Stored[t]
      BY <1>2, StoredIs, StoredIsNext DEF Tables
    <2> QED
      BY <1>1, <1>2, <1>3, <2>1, <2>2 DEF TableOK, Asked
  <1>9. SessionOK'
    BY <1>1, <1>2, <1>3, EmptyHasNone DEF Waiting, SessionOK, HasSession, SessionOps, Asked
  <1> QED
    BY <1>4, <1>5, <1>6, <1>7, <1>8, <1>9 DEF Waiting

\* A click that leaves the renames alone.
LEMMA EditsStay ==
  ASSUME Inv, Waiting, ~overlapped', NEW sent, Click(sent), UNCHANGED <<edits, finished>>,
         \A q \in sent : q.op # "rename"
  PROVE  EditsOK'
  <1>1. BagToSet(reqs) = {} /\ BagToSet(reqs') = sent
    BY ClickShape
  <1>2. clicks \in Nat /\ clicks' = clicks + 1 /\ behind' = behind
    BY AdminPageAssumption DEF Click, Inv, PageOK
  <1>3. 1..clicks \subseteq 1..clicks' /\ 0..clicks \subseteq 0..clicks'
    BY <1>2
  <1>4. finished' \subseteq 1..clicks' /\ edits' \in [Device -> 0..clicks']
    BY <1>3 DEF Waiting, EditsOK
  <1> QED
    BY <1>1, <1>2, <1>4 DEF Waiting, EditsOK

LEMMA SessionClicksWait ==
  ASSUME Inv, Waiting, ~overlapped', DoLogin \/ DoLogout \/ HideModal
  PROVE  Waiting'
  <1>1. CASE DoLogin
    <2> DEFINE q == Ask("login", None, None)
    <2>1. Click({q}) /\ UNCHANGED <<edits, finished, device, range, shown, charts>>
      BY <1>1 DEF DoLogin, chartVars, tableVars
    <2>2. q.op = "login" /\ Asked(q)
      BY <1>1 DEF DoLogin, Asked, Ask, Request
    <2> HIDE DEF q
    <2>3. EditsOK'
      BY <2>1, <2>2, EditsStay
    <2> QED
      BY <2>1, <2>2, <2>3, ClickWaits
  <1>2. CASE DoLogout
    <2> DEFINE q == Ask("logout", None, None)
    <2>1. Click({q}) /\ UNCHANGED <<edits, finished, device, range, shown, charts>>
      BY <1>2 DEF DoLogout, chartVars, tableVars
    <2>2. q.op = "logout" /\ Asked(q)
      BY <1>2 DEF DoLogout, Asked, Ask, Request
    <2> HIDE DEF q
    <2>3. EditsOK'
      BY <2>1, <2>2, EditsStay
    <2> QED
      BY <2>1, <2>2, <2>3, ClickWaits
  <1>3. CASE HideModal
    <2>1. /\ Click({}) /\ UNCHANGED <<edits, finished, device, range, shown, charts>>
      BY <1>3 DEF HideModal, chartVars, tableVars
    <2>2. EditsOK'
      BY <2>1, EditsStay
    <2> QED
      BY <2>1, <2>2, ClickWaits
  <1> QED
    BY <1>1, <1>2, <1>3

\* A click in a panel that asks for something and changes nothing else of the page.
LEMMA PanelClick ==
  ASSUME Inv, Waiting, ~overlapped', NEW q, Click({q}),
         UNCHANGED <<edits, finished, device, range, shown, charts>>,
         Asked(q), q.op # "rename"
  PROVE  Waiting'
  <1>1. EditsOK'
    BY EditsStay
  <1> QED
    BY <1>1, ClickWaits

LEMMA PanelClicksWait ==
  ASSUME Inv, Waiting, ~overlapped',
         \/ \E p \in Panels : SwitchPanel(p)
         \/ EnrollDevice \/ CreateKey
         \/ \E d \in Device : RevokeDevice(d) \/ DeleteDevice(d)
         \/ \E p \in Pattern : \/ DeleteRule(p)
                               \/ \E c \in Category, apply \in BOOLEAN : SaveRule(p, c, apply)
         \/ \E k \in Key : RevokeKey(k)
  PROVE  Waiting'
  <1> USE DEF chartVars, tableVars, ClickIn
  <1>1. PICK q : /\ Click({q})
                 /\ UNCHANGED <<edits, finished, device, range, shown, charts>>
                 /\ Asked(q) /\ q.op # "rename"
    <2> DEFINE Good(q) ==
                 /\ Click({q})
                 /\ UNCHANGED <<edits, finished, device, range, shown, charts>>
                 /\ Asked(q) /\ q.op # "rename"
    <2>1. ASSUME NEW p \in Panels, SwitchPanel(p) PROVE Good(Reload(p))
      <3>1. Load[p] \in {"loadDevices", "loadRules", "loadKeys", "loadDashboards"}
        BY LoadIs DEF Panels, Tables
      <3> QED
        BY <2>1, <3>1 DEF SwitchPanel, Reload, Ask, Request, Asked
    <2>2. ASSUME EnrollDevice PROVE \E q : Good(q)
      <3>1. PICK n : ClickIn("devices", {Ask("enroll", None, n)})
        BY <2>2 DEF EnrollDevice
      <3>2. Good(Ask("enroll", None, n))
        BY <2>2, <3>1 DEF EnrollDevice, Ask, Request, Asked
      <3> QED
        BY <3>2
    <2>3. ASSUME CreateKey PROVE \E q : Good(q)
      <3>1. Good(Ask("createKey", None, None))
        BY <2>3 DEF CreateKey, Ask, Request, Asked
      <3> QED
        BY <3>1
    <2>4. ASSUME NEW d \in Device, RevokeDevice(d) PROVE Good(Ask("revoke", d, None))
      BY <2>4 DEF RevokeDevice, Ask, Request, Asked
    <2>5. ASSUME NEW d \in Device, DeleteDevice(d) PROVE Good(Ask("delete", d, None))
      BY <2>5 DEF DeleteDevice, Ask, Request, Asked
    <2>6. ASSUME NEW p \in Pattern, DeleteRule(p) PROVE Good(Ask("deleteRule", p, None))
      BY <2>6 DEF DeleteRule, Ask, Request, Asked
    <2>7. ASSUME NEW p \in Pattern, NEW c \in Category, NEW apply \in BOOLEAN, SaveRule(p, c, apply)
          PROVE  Good(Request("saveRule", p, c, apply, 0, cookie))
      BY <2>7 DEF SaveRule, Request, Asked
    <2>8. ASSUME NEW k \in Key, RevokeKey(k) PROVE Good(Ask("revokeKey", k, None))
      BY <2>8 DEF RevokeKey, Ask, Request, Asked
    <2> HIDE DEF Good
    <2>9. \E q : Good(q)
      <3>1. CASE \E p \in Panels : SwitchPanel(p)
        BY <2>1, <3>1
      <3>2. CASE \E d \in Device : RevokeDevice(d) \/ DeleteDevice(d)
        BY <2>4, <2>5, <3>2
      <3>3. CASE \E p \in Pattern : \/ DeleteRule(p)
                                    \/ \E c \in Category, apply \in BOOLEAN : SaveRule(p, c, apply)
        BY <2>6, <2>7, <3>3
      <3>4. CASE \E k \in Key : RevokeKey(k)
        BY <2>8, <3>4
      <3> QED
        BY <2>2, <2>3, <3>1, <3>2, <3>3, <3>4
    <2> QED
      BY <2>9 DEF Good
  <1> QED
    BY <1>1, PanelClick

\* The clicks of an inline rename.
LEMMA RenameClicksWait ==
  ASSUME Inv, Waiting, ~overlapped', NEW d \in Device,
         StartRename(d) \/ FinishRename(d) \/ \E n \in Name : SubmitRename(d, n)
  PROVE  Waiting'
  <1> USE DEF chartVars, tableVars, ClickIn
  <1>0. /\ clicks \in Nat /\ 1..clicks \subseteq 1..(clicks + 1)
        /\ 0..clicks \subseteq 0..(clicks + 1) /\ clicks + 1 \in 1..(clicks + 1)
    BY AdminPageAssumption DEF Inv, PageOK
  <1>1. finished \subseteq 1..clicks /\ edits \in [Device -> 0..clicks]
    BY DEF Waiting, EditsOK
  <1>2. CASE StartRename(d)
    <2>1. /\ Click({}) /\ UNCHANGED <<finished, device, range, shown, charts>>
          /\ edits' = [edits EXCEPT ![d] = clicks + 1]
      BY <1>2 DEF StartRename
    <2>2. BagToSet(reqs) = {} /\ BagToSet(reqs') = {}
      BY <2>1, ClickShape
    <2>3. clicks' = clicks + 1 /\ behind' = behind
      BY <2>1 DEF Click
    <2>4. finished' \subseteq 1..clicks' /\ edits' \in [Device -> 0..clicks']
      BY <1>0, <1>1, <2>1, <2>3
    <2>5. clicks + 1 \notin finished
      BY <1>0, <1>1
    <2>6. "devices" \notin behind => \A c \in Device : edits'[c] \notin finished'
      BY <1>1, <2>1, <2>2, <2>5 DEF Waiting, EditsOK
    <2>7. EditsOK'
      BY <2>2, <2>3, <2>4, <2>6 DEF EditsOK
    <2> QED
      BY <2>1, <2>7, ClickWaits
  <1>3. CASE FinishRename(d)
    <2> DEFINE e == edits[d]
               q == Reload("devices")
    <2>1. /\ Click(Finish(e)) /\ UNCHANGED <<edits, device, range, shown, charts>>
          /\ finished' = finished \cup {e} /\ e # 0 /\ view = "app"
      BY <1>3 DEF FinishRename
    <2>2. q.op = "loadDevices" /\ Asked(q)
      BY <2>1 DEF Reload, Load, Ask, Request, Asked
    <2>3. Finish(e) = IF e \in finished THEN {} ELSE {q}
      BY DEF Finish
    <2> HIDE DEF q
    <2>4. BagToSet(reqs) = {} /\ BagToSet(reqs') = Finish(e)
      BY <2>1, ClickShape
    <2>5. clicks' = clicks + 1 /\ behind' = behind
      BY <2>1 DEF Click
    <2>6. e \in 1..clicks
      BY <1>0, <1>1, <2>1
    <2>7. finished' \subseteq 1..clicks' /\ edits' \in [Device -> 0..clicks']
      BY <1>0, <1>1, <2>1, <2>5, <2>6
    <2>8. EditsOK'
      <3>1. CASE e \in finished
        <4>1. finished' = finished
          BY <2>1, <3>1
        <4> QED
          BY <2>1, <2>3, <2>4, <2>5, <2>7, <3>1, <4>1 DEF Waiting, EditsOK
      <3>2. CASE e \notin finished
        BY <2>2, <2>3, <2>4, <2>5, <2>7, <3>2 DEF EditsOK
      <3> QED
        BY <3>1, <3>2
    <2>9. Finish(e) = {} \/ \E x : Finish(e) = {x} /\ Asked(x)
      BY <2>2, <2>3
    <2> QED
      BY <2>1, <2>8, <2>9, ClickWaits
  <1>4. ASSUME NEW n \in Name, SubmitRename(d, n) PROVE Waiting'
    <2> DEFINE q == Request("rename", d, n, FALSE, edits[d], cookie)
    <2>1. /\ Click({q}) /\ edits[d] # 0
          /\ UNCHANGED <<edits, finished, device, range, shown, charts>>
      BY <1>4 DEF SubmitRename
    <2>2. q.op = "rename" /\ q.edit = edits[d] /\ Asked(q)
      BY <1>4 DEF SubmitRename, Request, Asked
    <2> HIDE DEF q
    <2>3. BagToSet(reqs) = {} /\ BagToSet(reqs') = {q}
      BY <2>1, ClickShape
    <2>4. clicks' = clicks + 1 /\ behind' = behind
      BY <2>1 DEF Click
    <2>5. q.edit \in 1..clicks' /\ finished' \subseteq 1..clicks' /\ edits' \in [Device -> 0..clicks']
      BY <1>0, <1>1, <2>1, <2>2, <2>4
    <2>6. EditsOK'
      BY <2>1, <2>2, <2>3, <2>4, <2>5 DEF Waiting, EditsOK
    <2> QED
      BY <2>1, <2>2, <2>6, ClickWaits
  <1> QED
    BY <1>2, <1>3, <1>4

LEMMA RenderWaits ==
  ASSUME Inv, Waiting, ~overlapped', RenderDashboards
  PROVE  Waiting'
  <1> DEFINE q == Report(DeviceValue, range')
  <1>1. Click({q}) /\ UNCHANGED <<edits, finished, shown, charts>>
    BY DEF RenderDashboards, ClickIn, tableVars
  <1>2. q.op = "report" /\ Asked(q)
    BY DEF RenderDashboards, ClickIn, Report, DeviceValue, Ask, Request, Asked
  <1> HIDE DEF q
  <1>3. EditsOK'
    BY <1>1, <1>2, EditsStay
  <1> QED
    BY <1>1, <1>2, <1>3, ClickWaits

LEMMA ClicksWait ==
  ASSUME Inv, Waiting, ~overlapped', Clicks
  PROVE  Waiting'
  BY SessionClicksWait, PanelClicksWait, RenameClicksWait, RenderWaits DEF Clicks

-----------------------------------------------------------------------------
(* The callbacks.                                                            *)

\* Every callback takes a request that is answered and asks for nothing new; the two
\* of the creates show a secret.
LEMMA CallbacksCall ==
  ASSUME Callbacks
  PROVE  \E r \in InFlight("answered") : \E sent :
            /\ Callback(r, sent) /\ ~Creating(sent)
            /\ \/ modal' = modal /\ created' = created
               \/ /\ r.op \in Creates /\ r.status = "ok"
                  /\ modal' = r.data /\ created' = created \cup {r.data}
  <1>1. PICK r \in InFlight("answered") :
        \/ OnFailure(r) \/ OnBootstrap(r) \/ OnLogin(r) \/ OnLogout(r)
        \/ DrawDevices(r) \/ DrawRules(r) \/ DrawKeys(r)
        \/ OnRevoke(r) \/ OnDelete(r) \/ OnRename(r) \/ OnEnroll(r)
        \/ OnSaveRule(r) \/ OnDeleteRule(r) \/ OnCreateKey(r) \/ OnRevokeKey(r)
        \/ OnLoadDashboards(r) \/ OnReport(r)
    BY DEF Callbacks
  <1>2. /\ \A p \in Tables : ~Creating(Reloaded(p))
        /\ \A e : ~Creating(Finish(e)) /\ ~Creating({Reload("devices")}) /\ ~Creating({})
        /\ \A d, v : ~Creating({Report(d, v)})
        /\ \A c : ~Creating({Request("loadDevices", None, None, FALSE, 0, c)})
    BY LoadIs DEF Creating, Creates, Reloaded, Reload, Finish, Report, Ask, Request, Tables
  <1> USE DEF tableVars
  <1>3. CASE OnFailure(r) \/ OnBootstrap(r) \/ OnLogin(r) \/ OnLogout(r)
    BY <1>2, <1>3 DEF OnFailure, OnBootstrap, OnLogin, OnLogout
  <1>4. CASE DrawDevices(r) \/ DrawRules(r) \/ DrawKeys(r)
    BY <1>2, <1>4 DEF DrawDevices, DrawRules, DrawKeys, Draw
  <1>5. CASE OnRevoke(r) \/ OnDelete(r) \/ OnRename(r) \/ OnSaveRule(r) \/ OnDeleteRule(r) \/ OnRevokeKey(r)
    BY <1>2, <1>5 DEF OnRevoke, OnDelete, OnRename, OnSaveRule, OnDeleteRule, OnRevokeKey, OnChange, Tables
  <1>6. CASE OnEnroll(r) \/ OnCreateKey(r)
    BY <1>2, <1>6 DEF OnEnroll, OnCreateKey, OnCreate, OnChange, Succeeded, ShowSecret, Creates, Tables
  <1>7. CASE OnLoadDashboards(r) \/ OnReport(r)
    BY <1>2, <1>7 DEF OnLoadDashboards, OnReport
  <1> QED
    BY <1>1, <1>3, <1>4, <1>5, <1>6, <1>7

\* A request as a callback sends it.
Followed(q) ==
    /\ q.at = "sent" /\ q.status = "none" /\ q.cookie = cookie'
    /\ q.op \in {"loadDevices", "loadRules", "loadKeys", "loadDashboards", "report"}

FollowUp(sent) == sent = {} \/ \E q : sent = {q} /\ Followed(q)

LEMMA CallbackShape ==
  ASSUME Inv, Waiting, NEW r \in InFlight("answered"), NEW sent, Callback(r, sent)
  PROVE  /\ BagToSet(reqs) = {r} /\ r.at = "answered" /\ reqs # EmptyBag
         /\ reqs' = SetToBag(sent) /\ BagToSet(reqs') = sent
         /\ UNCHANGED <<devices, rules, history, keys, sessions, minted, unheard, clicks>>
  <1>1. r \in BagToSet(reqs) /\ r.at = "answered" /\ r.heard
    BY DEF InFlight, Inv, RequestsOK, AwaitedOK, AskedOK
  <1>2. reqs' = Swap(reqs, r, sent) /\ unheard' = unheard
    BY <1>1 DEF Callback, Replace
  <1>3. BagToSet(reqs) = {r} /\ reqs' = SetToBag(sent) /\ BagToSet(reqs') = sent
    BY <1>1, <1>2, SwapShape DEF Waiting
  <1> QED
    BY <1>1, <1>2, <1>3, EmptyHasNone DEF Callback, serverVars, storeVars

\* What table t shows after the callback is current, or is being drawn again.
Redrawn(t, r, sent) ==
    \/ \E q \in sent : q.op = Load[t]
    \/ shown'[t] = Stored[t]
    \/ shown'[t] = shown[t] /\ t \notin behind /\ r.op # Load[t] /\ r.op \notin Writes[t]

\* What the callback of r may do to the page's session.
SessionLeft(r) ==
    \/ /\ r.op \notin {"login", "logout"} /\ cookie' = cookie
       /\ "session" \notin behind' => "session" \notin behind \/ ~HasSession
    \/ r.op = "login" /\ r.status = "ok" /\ cookie' = r.data
    \/ /\ r.op = "login" /\ r.status # "ok" /\ cookie' = cookie
       /\ "session" \notin behind' => "session" \notin behind /\ r.status = "401"
    \/ r.op = "logout" /\ (cookie' = None \/ "session" \in behind')

LEMMA CallbackWaits ==
  ASSUME Inv, Waiting, NEW r \in InFlight("answered"), NEW sent, Callback(r, sent), FollowUp(sent),
         ChartsOK', EditsOK', SessionOK', SessionLeft(r),
         \A t \in Tables \ behind' : Redrawn(t, r, sent)
  PROVE  Waiting'
  <1>1. /\ BagToSet(reqs) = {r} /\ r.at = "answered"
        /\ reqs' = SetToBag(sent) /\ BagToSet(reqs') = sent
        /\ UNCHANGED <<devices, rules, history, keys, sessions, minted, unheard>>
    BY CallbackShape
  <1>2. \A q \in sent : Followed(q)
    BY DEF FollowUp
  <1>3. Alone'
    BY <1>1 DEF Alone, EmptyBag, FollowUp
  <1>4. RuleOK'
    BY <1>1, <1>2 DEF RuleOK, Followed
  <1>5. TablesOK'
    <2> SUFFICES ASSUME NEW t \in Tables, t \notin behind' PROVE TableOK(t)'
      BY DEF TablesOK
    <2>1. Stored'[t] = Stored[t]
      BY <1>1, StoredIs, StoredIsNext DEF Tables
    <2>2. t \notin behind => TableOK(t)
      BY DEF Waiting, TablesOK
    <2> QED
      BY <1>1, <1>2, <2>1, <2>2 DEF TableOK, Redrawn, Followed
  <1>6. LogoutsOK'
    <2> SUFFICES ASSUME NEW u \in BagToSet(unheard), u.op = "logout"
                 PROVE  /\ u.cookie \in minted \cup {None}
                        /\ u.cookie = cookie' /\ HasSession' => "session" \in behind'
      BY <1>1, <1>2 DEF LogoutsOK, Followed
    <2>1. /\ u.cookie \in minted \cup {None}
          /\ r.op = "login" /\ r.status = "ok" => r.data # u.cookie
          /\ u.cookie = cookie /\ HasSession /\ "session" \notin behind =>
                r.op = "logout" \/ (r.op = "login" /\ r.status # "401")
      BY <1>1 DEF Waiting, LogoutsOK
    <2>2. None \notin sessions
      BY AdminAPIAssumption DEF Inv, StoreOK
    <2> QED
      BY <1>1, <2>1, <2>2 DEF SessionLeft, HasSession
  <1> QED
    BY <1>3, <1>4, <1>5, <1>6 DEF Waiting

LEMMA ChartsStay ==
  ASSUME Inv, Waiting, NEW r \in InFlight("answered"), NEW sent, Callback(r, sent), FollowUp(sent),
         UNCHANGED <<device, range, charts>>,
         \A q \in sent : q.op # "report",
         "charts" \notin behind' => "charts" \notin behind /\ r.op # "report"
  PROVE  ChartsOK'
  <1>1. BagToSet(reqs) = {r} /\ BagToSet(reqs') = sent
    BY CallbackShape
  <1> QED
    BY <1>1 DEF Waiting, ChartsOK

LEMMA RenamesStay ==
  ASSUME Inv, Waiting, NEW r \in InFlight("answered"), NEW sent, Callback(r, sent), FollowUp(sent),
         UNCHANGED <<edits, finished>>,
         "devices" \notin behind' =>
            "devices" \notin behind /\ (r.op # "loadDevices" \/ \E q \in sent : q.op = "loadDevices")
  PROVE  EditsOK'
  <1>1. BagToSet(reqs) = {r} /\ BagToSet(reqs') = sent /\ clicks' = clicks
    BY CallbackShape
  <1> QED
    BY <1>1 DEF Waiting, EditsOK, FollowUp, Followed

\* A callback that has nothing to do with the session.
LEMMA SessionStays ==
  ASSUME Inv, Waiting, NEW r \in InFlight("answered"), NEW sent, Callback(r, sent), FollowUp(sent),
         r.op \notin SessionOps, UNCHANGED <<cookie, view>>,
         "session" \notin behind' => "session" \notin behind
  PROVE  SessionOK' /\ SessionLeft(r)
  <1>1. /\ BagToSet(reqs) = {r} /\ reqs # EmptyBag
        /\ reqs' = SetToBag(sent) /\ BagToSet(reqs') = sent
        /\ UNCHANGED <<sessions, minted>>
    BY CallbackShape
  <1> QED
    BY <1>1 DEF Waiting, SessionOK, HasSession, SessionOps, FollowUp, Followed, SessionLeft

\* A change that went well, and reloads its table.
LEMMA ChangeWaits ==
  ASSUME Inv, Waiting, NEW r \in InFlight("answered"), NEW op, NEW p \in Tables, OnChange(r, op, p),
         op \in Writes[p], UNCHANGED <<shown, edits, finished, device, range, charts>>
  PROVE  Waiting'
  <1> DEFINE q == Reload(p)
  <1>1. Callback(r, {q}) /\ UNCHANGED <<behind, cookie, view>> /\ r.op = op
    BY DEF OnChange, Reloaded, Succeeded
  <1>2. q.op = Load[p] /\ Followed(q) /\ q.op # "report"
    BY <1>1, LoadIs DEF Reload, Ask, Request, Followed, Tables
  <1> HIDE DEF q
  <1>3. r.op \notin SessionOps /\ r.op \notin {"report", "loadDevices", "loadRules", "loadKeys"}
    BY <1>1, WritesIs DEF Tables, SessionOps
  <1>4. FollowUp({q})
    BY <1>2 DEF FollowUp
  <1>5. ChartsOK'
    BY <1>1, <1>2, <1>3, <1>4, ChartsStay
  <1>6. EditsOK'
    BY <1>1, <1>3, <1>4, RenamesStay
  <1>7. SessionOK' /\ SessionLeft(r)
    BY <1>1, <1>3, <1>4, SessionStays
  <1>8. \A t \in Tables \ behind' : Redrawn(t, r, {q})
    BY <1>1, <1>2, <1>3, LoadIs, WritesIs DEF Redrawn, Tables
  <1> QED
    BY <1>1, <1>4, <1>5, <1>6, <1>7, <1>8, CallbackWaits

LEMMA ChangesWait ==
  ASSUME Inv, Waiting, NEW r \in InFlight("answered"),
         \/ OnRevoke(r) \/ OnDelete(r) \/ OnDeleteRule(r) \/ OnRevokeKey(r) \/ OnSaveRule(r)
         \/ OnEnroll(r) \/ OnCreateKey(r)
  PROVE  Waiting'
  <1> USE DEF tableVars, chartVars
  <1>0. /\ "devices" \in Tables /\ "rules" \in Tables /\ "keys" \in Tables
        /\ "revoke" \in Writes["devices"] /\ "delete" \in Writes["devices"]
        /\ "deleteRule" \in Writes["rules"] /\ "saveRule" \in Writes["rules"]
        /\ "revokeKey" \in Writes["keys"] /\ "enroll" \in Writes["devices"]
        /\ "createKey" \in Writes["keys"]
    BY WritesIs DEF Tables
  <1>1. CASE OnRevoke(r)
    <2>1. OnChange(r, "revoke", "devices")
          /\ UNCHANGED <<shown, edits, finished, device, range, charts>>
      BY <1>1 DEF OnRevoke
    <2> QED
      BY <1>0, <2>1, ChangeWaits
  <1>2. CASE OnDelete(r)
    <2>1. OnChange(r, "delete", "devices")
          /\ UNCHANGED <<shown, edits, finished, device, range, charts>>
      BY <1>2 DEF OnDelete
    <2> QED
      BY <1>0, <2>1, ChangeWaits
  <1>3. CASE OnDeleteRule(r)
    <2>1. OnChange(r, "deleteRule", "rules")
          /\ UNCHANGED <<shown, edits, finished, device, range, charts>>
      BY <1>3 DEF OnDeleteRule
    <2> QED
      BY <1>0, <2>1, ChangeWaits
  <1>4. CASE OnRevokeKey(r)
    <2>1. OnChange(r, "revokeKey", "keys")
          /\ UNCHANGED <<shown, edits, finished, device, range, charts>>
      BY <1>4 DEF OnRevokeKey
    <2> QED
      BY <1>0, <2>1, ChangeWaits
  <1>5. CASE OnSaveRule(r)
    <2>1. OnChange(r, "saveRule", "rules")
          /\ UNCHANGED <<shown, edits, finished, device, range, charts>>
      BY <1>5 DEF OnSaveRule
    <2> QED
      BY <1>0, <2>1, ChangeWaits
  <1>6. CASE OnEnroll(r)
    <2>1. OnChange(r, "enroll", "devices")
          /\ UNCHANGED <<shown, edits, finished, device, range, charts>>
      BY <1>6 DEF OnEnroll, OnCreate
    <2> QED
      BY <1>0, <2>1, ChangeWaits
  <1>7. CASE OnCreateKey(r)
    <2>1. OnChange(r, "createKey", "keys")
          /\ UNCHANGED <<shown, edits, finished, device, range, charts>>
      BY <1>7 DEF OnCreateKey, OnCreate
    <2> QED
      BY <1>0, <2>1, ChangeWaits
  <1> QED
    BY <1>1, <1>2, <1>3, <1>4, <1>5, <1>6, <1>7

LEMMA OnRenameWaits ==
  ASSUME Inv, Waiting, NEW r \in InFlight("answered"), OnRename(r)
  PROVE  Waiting'
  <1> DEFINE sent == Finish(r.edit)
  <1>1. /\ Callback(r, sent) /\ r.op = "rename" /\ finished' = finished \cup {r.edit}
        /\ UNCHANGED <<cookie, view, shown, edits, device, range, charts, behind>>
    BY DEF OnRename, Succeeded, chartVars
  <1>2. \/ sent = {} /\ r.edit \in finished
        \/ sent = {Reload("devices")} /\ r.edit \notin finished
    BY DEF Finish
  <1>3. \A q \in sent : q.op = "loadDevices" /\ Followed(q)
    BY <1>1, <1>2 DEF Reload, Load, Ask, Request, Followed
  <1>4. FollowUp(sent)
    BY <1>2, <1>3 DEF FollowUp
  <1>5. r.edit \in finished => "devices" \in behind
    BY <1>1 DEF Waiting, EditsOK, InFlight
  <1>6. "devices" \in behind \/ \E q \in sent : q.op = "loadDevices"
    BY <1>2, <1>3, <1>5
  <1> HIDE DEF sent
  <1>7. BagToSet(reqs) = {r} /\ BagToSet(reqs') = sent /\ clicks' = clicks
    BY <1>1, CallbackShape
  <1>8. EditsOK'
    BY <1>1, <1>3, <1>6, <1>7 DEF Waiting, EditsOK
  <1>10. ChartsOK'
    BY <1>1, <1>3, <1>4, ChartsStay
  <1>11. SessionOK' /\ SessionLeft(r)
    BY <1>1, <1>4, SessionStays DEF SessionOps
  <1>12. \A t \in Tables \ behind' : Redrawn(t, r, sent)
    BY <1>1, <1>6, LoadIs, WritesIs DEF Redrawn, Tables
  <1> QED
    BY <1>1, <1>4, <1>8, <1>10, <1>11, <1>12, CallbackWaits

LEMMA DrawWaits ==
  ASSUME Inv, Waiting, NEW r \in InFlight("answered"), NEW t \in Tables, Draw(r, t),
         EditsOK'
  PROVE  Waiting'
  <1>1. /\ Callback(r, {}) /\ r.op = Load[t] /\ r.status = "ok"
        /\ shown' = [shown EXCEPT ![t] = r.data]
        /\ UNCHANGED <<cookie, view, device, range, charts, behind>>
    BY DEF Draw, Succeeded, chartVars
  <1>2. r.op \notin SessionOps /\ r.op # "report" /\ \A u \in Tables : r.op \notin Writes[u]
    BY <1>1, LoadIs, WritesIs DEF Tables, SessionOps
  <1>3. FollowUp({})
    BY DEF FollowUp
  <1>4. BagToSet(reqs) = {r} /\ r.at = "answered"
    BY <1>1, CallbackShape
  <1>5. shown'[t] = r.data /\ \A u \in Tables \ {t} : shown'[u] = shown[u]
    BY <1>1 DEF Inv, ShownOK
  <1>6. t \notin behind => r.data = Stored[t]
    BY <1>1, <1>4 DEF Waiting, TablesOK, TableOK
  <1>7. \A u \in Tables \ {t} : r.op # Load[u]
    BY <1>1, LoadIs DEF Tables
  <1>8. \A u \in Tables \ behind' : Redrawn(u, r, {})
    BY <1>1, <1>2, <1>5, <1>6, <1>7 DEF Redrawn
  <1>10. ChartsOK'
    BY <1>1, <1>2, <1>3, ChartsStay
  <1>11. SessionOK' /\ SessionLeft(r)
    BY <1>1, <1>2, <1>3, SessionStays
  <1> QED
    BY <1>1, <1>3, <1>8, <1>10, <1>11, CallbackWaits

LEMMA DrawsWait ==
  ASSUME Inv, Waiting, NEW r \in InFlight("answered"),
         DrawDevices(r) \/ DrawRules(r) \/ DrawKeys(r)
  PROVE  Waiting'
  <1>0. FollowUp({}) /\ "devices" \in Tables /\ "rules" \in Tables /\ "keys" \in Tables
    BY DEF FollowUp, Tables
  <1>1. CASE DrawDevices(r)
    <2>1. Draw(r, "devices") /\ edits' = [d \in Device |-> 0]
      BY <1>1 DEF DrawDevices
    <2>2. Callback(r, {}) /\ finished' = finished
      BY <2>1 DEF Draw
    <2>3. BagToSet(reqs') = {} /\ clicks' = clicks
      BY <2>2, CallbackShape
    <2>4. \A d \in Device : edits'[d] = 0
      BY <2>1
    <2>5. clicks \in Nat /\ finished \subseteq 1..clicks
      BY AdminPageAssumption DEF Inv, PageOK, Waiting, EditsOK
    <2>6. 0 \notin finished /\ edits' \in [Device -> 0..clicks]
      BY <2>1, <2>5
    <2>7. EditsOK'
      BY <2>2, <2>3, <2>4, <2>5, <2>6 DEF EditsOK
    <2> QED
      BY <1>0, <2>1, <2>7, DrawWaits
  <1>2. CASE DrawRules(r)
    <2>1. Draw(r, "rules") /\ Callback(r, {}) /\ UNCHANGED <<edits, finished, behind>> /\ r.op = "loadRules"
      BY <1>2 DEF DrawRules, Draw, Succeeded, Load
    <2>2. EditsOK'
      BY <1>0, <2>1, RenamesStay
    <2> QED
      BY <1>0, <2>1, <2>2, DrawWaits
  <1>3. CASE DrawKeys(r)
    <2>1. Draw(r, "keys") /\ Callback(r, {}) /\ UNCHANGED <<edits, finished, behind>> /\ r.op = "loadKeys"
      BY <1>3 DEF DrawKeys, Draw, Succeeded, Load
    <2>2. EditsOK'
      BY <1>0, <2>1, RenamesStay
    <2> QED
      BY <1>0, <2>1, <2>2, DrawWaits
  <1> QED
    BY <1>1, <1>2, <1>3

\* A callback that sends no rename, leaves the tables and may move the session.
LEMMA SessionCallbackWaits ==
  ASSUME Inv, Waiting, NEW r \in InFlight("answered"), NEW sent, Callback(r, sent), FollowUp(sent),
         r.op \in SessionOps, \A q \in sent : q.op # "report", SessionOK', SessionLeft(r),
         behind \ {"session"} \subseteq behind',
         UNCHANGED <<shown, edits, finished, device, range, charts>>
  PROVE  Waiting'
  <1>1. r.op \notin {"report", "loadDevices", "loadRules", "loadKeys"} /\ \A t \in Tables : r.op \notin Writes[t]
    BY WritesIs DEF SessionOps, Tables
  <1>3. ChartsOK'
    BY <1>1, ChartsStay
  <1>4. EditsOK'
    BY <1>1, RenamesStay
  <1>5. \A t \in Tables \ behind' : Redrawn(t, r, sent)
    BY <1>1, LoadIs DEF Redrawn, Tables
  <1> QED
    BY <1>3, <1>4, <1>5, CallbackWaits

LEMMA OnBootstrapWaits ==
  ASSUME Inv, Waiting, NEW r \in InFlight("answered"), OnBootstrap(r)
  PROVE  Waiting'
  <1> USE DEF tableVars, chartVars
  <1> DEFINE q == Reload("devices")
  <1>1. /\ r.op = "bootstrap" /\ r.op \in SessionOps
        /\ UNCHANGED <<cookie, shown, edits, finished, device, range, charts>>
    BY DEF OnBootstrap, SessionOps
  <1>2. q.op = "loadDevices" /\ Followed(q)
    BY <1>1 DEF Reload, Load, Ask, Request, Followed
  <1>3. CASE r.status = "401"
    <2>1. view' = "login" /\ Callback(r, {}) /\ behind' = behind \ {"session"}
      BY <1>1, <1>3 DEF OnBootstrap, ShowLogin, Concern
    <2>2. /\ BagToSet(reqs) = {r} /\ r.at = "answered"
          /\ reqs' = SetToBag({}) /\ BagToSet(reqs') = {}
          /\ UNCHANGED <<sessions, minted>>
      BY <2>1, CallbackShape
    <2>3. SessionOK'
      BY <1>1, <1>3, <2>1, <2>2 DEF Waiting, SessionOK, HasSession
    <2>4. SessionLeft(r)
      BY <1>1, <1>3, <2>2 DEF Waiting, SessionOK, SessionLeft
    <2> QED
      BY <1>1, <2>1, <2>3, <2>4, SessionCallbackWaits DEF FollowUp
  <1>4. CASE r.status # "401"
    <2>1. /\ view' = "app" /\ Callback(r, {q}) /\ behind \subseteq behind'
          /\ "session" \notin behind' => "session" \notin behind /\ r.status = "ok"
      BY <1>1, <1>4 DEF OnBootstrap, ShowApp, Concern
    <2> HIDE DEF q
    <2>2. /\ BagToSet(reqs) = {r} /\ r.at = "answered"
          /\ reqs' = SetToBag({q}) /\ BagToSet(reqs') = {q} /\ reqs' # EmptyBag
          /\ UNCHANGED <<sessions, minted>>
      BY <2>1, CallbackShape, EmptyHasNone
    <2>3. SessionOK'
      BY <1>1, <1>2, <2>1, <2>2 DEF Waiting, SessionOK, HasSession, Followed, SessionOps
    <2>4. SessionLeft(r)
      BY <1>1, <2>1 DEF SessionLeft
    <2> QED
      BY <1>1, <1>2, <2>1, <2>3, <2>4, SessionCallbackWaits DEF FollowUp
  <1> QED
    BY <1>3, <1>4

LEMMA OnLoginWaits ==
  ASSUME Inv, Waiting, NEW r \in InFlight("answered"), OnLogin(r)
  PROVE  Waiting'
  <1> USE DEF tableVars, chartVars
  <1> DEFINE q == Request("loadDevices", None, None, FALSE, 0, r.data)
  <1>1. /\ r.op = "login" /\ r.op \in SessionOps
        /\ UNCHANGED <<shown, edits, finished, device, range, charts>>
    BY DEF OnLogin, SessionOps
  <1>2. CASE r.status = "ok"
    <2>1. cookie' = r.data /\ view' = "app" /\ Callback(r, {q}) /\ behind' = behind
      BY <1>2 DEF OnLogin, ShowApp
    <2>2. q.op = "loadDevices" /\ Followed(q)
      BY <2>1 DEF Request, Followed
    <2> HIDE DEF q
    <2>3. /\ BagToSet(reqs) = {r} /\ r.at = "answered"
          /\ reqs' = SetToBag({q}) /\ BagToSet(reqs') = {q} /\ reqs' # EmptyBag
          /\ UNCHANGED <<sessions, minted>>
      BY <2>1, CallbackShape, EmptyHasNone
    <2>4. SessionOK'
      BY <1>1, <1>2, <2>1, <2>2, <2>3 DEF Waiting, SessionOK, HasSession, Followed, SessionOps
    <2>5. SessionLeft(r)
      BY <1>1, <1>2, <2>1 DEF SessionLeft
    <2> QED
      BY <1>1, <2>1, <2>2, <2>4, <2>5, SessionCallbackWaits DEF FollowUp
  <1>3. CASE r.status # "ok"
    <2>1. /\ Callback(r, {}) /\ UNCHANGED <<cookie, view>> /\ behind \subseteq behind'
          /\ "session" \notin behind' => "session" \notin behind /\ r.status = "401"
      BY <1>1, <1>3 DEF OnLogin, Concern
    <2>2. /\ BagToSet(reqs) = {r} /\ r.at = "answered"
          /\ reqs' = SetToBag({}) /\ BagToSet(reqs') = {}
          /\ UNCHANGED <<sessions, minted>>
      BY <2>1, CallbackShape
    <2>3. SessionOK'
      BY <1>1, <2>1, <2>2 DEF Waiting, SessionOK, HasSession
    <2>4. SessionLeft(r)
      BY <1>1, <1>3, <2>1 DEF SessionLeft
    <2> QED
      BY <1>1, <2>1, <2>3, <2>4, SessionCallbackWaits DEF FollowUp
  <1> QED
    BY <1>2, <1>3

LEMMA OnLogoutWaits ==
  ASSUME Inv, Waiting, NEW r \in InFlight("answered"), OnLogout(r)
  PROVE  Waiting'
  <1> USE DEF tableVars, chartVars
  <1>1. /\ r.op = "logout" /\ r.op \in SessionOps /\ view' = "login" /\ Callback(r, {})
        /\ UNCHANGED <<shown, edits, finished, device, range, charts>>
        /\ behind \subseteq behind' /\ cookie' \in {cookie, None}
        /\ "session" \notin behind' => cookie' = None
    BY DEF OnLogout, SessionOps, ShowLogin, Concern
  <1>2. /\ BagToSet(reqs) = {r} /\ reqs' = SetToBag({}) /\ BagToSet(reqs') = {}
        /\ UNCHANGED <<sessions, minted>>
    BY <1>1, CallbackShape
  <1>3. None \notin sessions
    BY AdminAPIAssumption DEF Inv, StoreOK
  <1>4. SessionOK'
    BY <1>1, <1>2, <1>3 DEF Waiting, SessionOK, HasSession
  <1>5. SessionLeft(r)
    BY <1>1 DEF SessionLeft
  <1> QED
    BY <1>1, <1>4, <1>5, SessionCallbackWaits DEF FollowUp

\* A failure the admin is told of is remembered; a 401 shows the login.
LEMMA OnFailureWaits ==
  ASSUME Inv, Waiting, NEW r \in InFlight("answered"), OnFailure(r)
  PROVE  Waiting'
  <1> USE DEF tableVars, chartVars
  <1>1. /\ r.op \notin SessionOps /\ r.status # "ok" /\ Callback(r, {})
        /\ UNCHANGED <<cookie, shown, edits, finished, device, range, charts>>
        /\ r.status = "401" => view' = "login"
        /\ r.status # "401" => UNCHANGED view
        /\ behind' = (behind \cup Concern(r.op)) \ (IF r.status = "401" THEN {"session"} ELSE {})
    BY DEF OnFailure, SessionOps, ViewOnFailure, ShowLogin
  <1>2. FollowUp({})
    BY DEF FollowUp
  <1>3. /\ behind \ {"session"} \subseteq behind' /\ Concern(r.op) \ {"session"} \subseteq behind'
        /\ r.status # "401" => ("session" \notin behind' => "session" \notin behind)
    BY <1>1
  <1>4. /\ r.op = "report" => "charts" \in behind'
        /\ r.op = "loadDevices" => "devices" \in behind'
        /\ \A t \in Tables \ behind' : t \notin behind /\ r.op # Load[t] /\ r.op \notin Writes[t]
    BY <1>1, <1>3, LoadIs, WritesIs DEF Concern, Tables, SessionOps
  <1>6. ChartsOK'
    BY <1>1, <1>2, <1>3, <1>4, ChartsStay
  <1>7. EditsOK'
    BY <1>1, <1>2, <1>3, <1>4, RenamesStay
  <1>8. SessionOK' /\ SessionLeft(r)
    <2>1. CASE r.status # "401"
      BY <1>1, <1>2, <1>3, <2>1, SessionStays
    <2>2. CASE r.status = "401"
      <3>1. /\ BagToSet(reqs) = {r} /\ r.at = "answered"
            /\ reqs' = SetToBag({}) /\ BagToSet(reqs') = {}
            /\ UNCHANGED <<sessions, minted>>
        BY <1>1, CallbackShape
      <3> QED
        BY <1>1, <2>2, <3>1 DEF Waiting, SessionOK, HasSession, SessionOps, SessionLeft
    <2> QED
      BY <2>1, <2>2
  <1>9. \A t \in Tables \ behind' : Redrawn(t, r, {})
    BY <1>1, <1>4 DEF Redrawn
  <1> QED
    BY <1>1, <1>2, <1>6, <1>7, <1>8, <1>9, CallbackWaits

LEMMA OnLoadDashboardsWaits ==
  ASSUME Inv, Waiting, NEW r \in InFlight("answered"), OnLoadDashboards(r)
  PROVE  Waiting'
  <1> USE DEF tableVars
  <1> DEFINE q == Report(DeviceValue, range)
  <1>1. /\ r.op = "loadDashboards" /\ r.op \notin SessionOps /\ Callback(r, {q})
        /\ UNCHANGED <<cookie, view, shown, edits, finished, range, charts, behind>>
    BY DEF OnLoadDashboards, Succeeded, SessionOps
  <1>2. q.op = "report" /\ q.item = device' /\ q.value = range' /\ Followed(q)
    BY <1>1 DEF Report, DeviceValue, Ask, Request, Followed
  <1> HIDE DEF q
  <1>3. FollowUp({q})
    BY <1>2 DEF FollowUp
  <1>4. BagToSet(reqs) = {r} /\ BagToSet(reqs') = {q}
    BY <1>1, CallbackShape
  <1>6. ChartsOK'
    BY <1>2, <1>4 DEF ChartsOK
  <1>7. EditsOK'
    BY <1>1, <1>3, RenamesStay
  <1>8. SessionOK' /\ SessionLeft(r)
    BY <1>1, <1>3, SessionStays
  <1>9. \A t \in Tables \ behind' : Redrawn(t, r, {q})
    BY <1>1, LoadIs, WritesIs DEF Redrawn, Tables
  <1> QED
    BY <1>1, <1>3, <1>6, <1>7, <1>8, <1>9, CallbackWaits

LEMMA OnReportWaits ==
  ASSUME Inv, Waiting, NEW r \in InFlight("answered"), OnReport(r)
  PROVE  Waiting'
  <1> USE DEF tableVars
  <1>1. /\ r.op = "report" /\ r.op \notin SessionOps /\ Callback(r, {})
        /\ UNCHANGED <<cookie, view, shown, edits, finished, device, range>>
        /\ charts'.device = r.item /\ charts'.range = r.value /\ behind' = behind \ {"charts"}
    BY DEF OnReport, Succeeded, SessionOps
  <1>2. FollowUp({})
    BY DEF FollowUp
  <1>3. BagToSet(reqs) = {r} /\ BagToSet(reqs') = {}
    BY <1>1, CallbackShape
  <1>5. ChartsOK'
    BY <1>1, <1>3 DEF Waiting, ChartsOK
  <1>6. EditsOK'
    BY <1>1, <1>2, RenamesStay
  <1>7. SessionOK' /\ SessionLeft(r)
    BY <1>1, <1>2, SessionStays
  <1>8. \A t \in Tables \ behind' : Redrawn(t, r, {})
    BY <1>1, LoadIs, WritesIs DEF Redrawn, Tables
  <1> QED
    BY <1>1, <1>2, <1>5, <1>6, <1>7, <1>8, CallbackWaits

LEMMA CallbacksWait ==
  ASSUME Inv, Waiting, Callbacks
  PROVE  Waiting'
  BY ChangesWait, OnRenameWaits, DrawsWait, OnBootstrapWaits, OnLoginWaits,
     OnLogoutWaits, OnFailureWaits, OnLoadDashboardsWaits, OnReportWaits DEF Callbacks

-----------------------------------------------------------------------------
(* The steps of an admin who waits.                                          *)

LEMMA WaitsInit == Init => Waits
  <1> SUFFICES ASSUME Init PROVE Waiting
    BY DEF Waits
  <1> DEFINE q == Ask("bootstrap", None, None)
  <1>1. q.op = "bootstrap" /\ q.at = "sent" /\ q.status = "none" /\ q.cookie = cookie
    BY DEF Ask, Request
  <1>2. reqs = SetToBag({q}) /\ BagToSet(reqs) = {q} /\ BagToSet(unheard) = {}
    BY BagOfSet, EmptyHasNone DEF Init
  <1> HIDE DEF q
  <1>3. reqs # EmptyBag
    BY <1>2, EmptyHasNone
  <1>4. Alone /\ RuleOK /\ ChartsOK /\ LogoutsOK
    BY <1>1, <1>2 DEF Init, Alone, RuleOK, ChartsOK, LogoutsOK
  <1>5. EditsOK
    <2>1. clicks = 0 /\ finished = {} /\ edits = [d \in Device |-> 0]
      BY DEF Init
    <2>2. finished \subseteq 1..clicks /\ edits \in [Device -> 0..clicks]
      BY <2>1
    <2> QED
      BY <1>1, <1>2, <2>1, <2>2 DEF EditsOK
  <1>6. TablesOK
    BY <1>1, <1>2 DEF Init, TablesOK, TableOK
  <1>7. SessionOK
    BY <1>1, <1>2, <1>3 DEF Init, SessionOK, SessionOps
  <1> QED
    BY <1>4, <1>5, <1>6, <1>7 DEF Waiting

LEMMA WaitsNext == Inv /\ Waits /\ [Next]_vars => Waits'
  <1> SUFFICES ASSUME Inv, Waits, [Next]_vars, ~overlapped' PROVE Waiting'
    BY DEF Waits
  <1>1. CASE Clicks
    <2>1. ~overlapped
      BY <1>1, ClicksClick DEF Click
    <2> QED
      BY <1>1, <2>1, ClicksWait DEF Waits
  <1>2. CASE Callbacks
    <2>1. ~overlapped
      BY <1>2, CallbacksCall DEF Callback
    <2> QED
      BY <1>2, <2>1, CallbacksWait DEF Waits
  <1>3. CASE ServerSteps
    BY <1>3, ServerWaits DEF ServerSteps, Waits
  <1>4. CASE ElsewhereSteps
    BY <1>4, ElsewhereWaits DEF ElsewhereSteps, Waits
  <1>5. CASE UNCHANGED vars
    <2> USE DEF vars, apiVars, pageVars, storeVars, viewVars, tableVars, secretVars, chartVars
    <2>1. Alone' /\ RuleOK' /\ ChartsOK' /\ EditsOK'
      BY <1>5 DEF Waits, Waiting, Alone, RuleOK, ChartsOK, EditsOK
    <2>2. SessionOK' /\ LogoutsOK'
      BY <1>5 DEF Waits, Waiting, SessionOK, LogoutsOK, HasSession
    <2>3. Stored' = Stored
      BY <1>5 DEF Stored
    <2>4. TablesOK'
      BY <1>5, <2>3 DEF Waits, Waiting, TablesOK, TableOK
    <2> QED
      BY <2>1, <2>2, <2>4 DEF Waiting
  <1> QED
    BY <1>1, <1>2, <1>3, <1>4, <1>5 DEF Next

-----------------------------------------------------------------------------
(* Secrets, for an admin who waits or not.                                   *)

\* A device or key that is asked for is asked for alone, with no secret shown.
LoneCreate(B) ==
    \A q \in BagToSet(B) : q.op \in Creates =>
        B[q] = 1 /\ \A p \in BagToSet(B) : p.op \in Creates => p = q

Secrets ==
    /\ None \notin created
    /\ ~hasty => /\ created \subseteq seen \cup {modal}
                 /\ LoneCreate(reqs)
                 /\ Creating(BagToSet(reqs)) => modal = None

LEMMA LoneAdd ==
  ASSUME NEW B, LoneCreate(B), NEW S, \A p, q \in S : p = q,
         Creating(S) => ~Creating(BagToSet(B))
  PROVE  LoneCreate(B (+) SetToBag(S))
  BY DEF LoneCreate, Creating, BagToSet, SetToBag, (+)

Without(B, r) == B (-) SetToBag({r})
With(B, S) == B (+) SetToBag(S)

\* Taking out a request takes out nothing else that is there once.
LEMMA OneLess ==
  ASSUME NEW B, NEW r, NEW M, M = Without(B, r)
  PROVE  /\ BagToSet(M) \subseteq BagToSet(B)
         /\ \A e \in BagToSet(B) : B[e] = 1 => (e \in BagToSet(M) <=> e # r)
         /\ \A e \in BagToSet(M) : B[e] = 1 => M[e] = 1
  <1> DEFINE L == [e \in DOMAIN B |-> IF e \in DOMAIN SetToBag({r})
                                      THEN B[e] - SetToBag({r})[e] ELSE B[e]]
  <1>1. M = [e \in {d \in DOMAIN L : L[d] > 0} |-> L[e]]
    BY DEF Without, (-)
  <1>2. DOMAIN L = DOMAIN B /\ \A e \in DOMAIN B : L[e] = IF e = r THEN B[e] - 1 ELSE B[e]
    BY DEF SetToBag
  <1> HIDE DEF L
  <1>3. /\ DOMAIN M = {d \in DOMAIN B : L[d] > 0}
        /\ \A e \in DOMAIN M : M[e] = L[e]
    BY <1>1, <1>2
  <1> QED
    BY <1>2, <1>3 DEF BagToSet

\* Adding requests that are not there leaves what is there.
LEMMA SomeMore ==
  ASSUME NEW M, NEW S, NEW W, W = With(M, S)
  PROVE  /\ BagToSet(W) = BagToSet(M) \cup S
         /\ \A e \in BagToSet(M) \ S : M[e] = 1 => W[e] = 1
         /\ \A e \in S \ BagToSet(M) : W[e] = 1
  <1>1. /\ DOMAIN SetToBag(S) = S
        /\ \A e \in S : SetToBag(S)[e] = 1
    BY DEF SetToBag
  <1>2. /\ DOMAIN W = DOMAIN M \cup DOMAIN SetToBag(S)
        /\ \A e \in DOMAIN M \cup DOMAIN SetToBag(S) :
              W[e] = (IF e \in DOMAIN M THEN M[e] ELSE 0)
                     + (IF e \in DOMAIN SetToBag(S) THEN SetToBag(S)[e] ELSE 0)
    BY DEF With, (+)
  <1>3. \A e \in DOMAIN M \ S : M[e] = 1 => W[e] = 1
    BY <1>1, <1>2
  <1>4. \A e \in S \ DOMAIN M : W[e] = 1
    BY <1>1, <1>2
  <1> QED
    BY <1>1, <1>2, <1>3, <1>4 DEF BagToSet

LEMMA LoneMove ==
  ASSUME NEW B, LoneCreate(B), NEW r \in BagToSet(B), NEW s, s.op = r.op
  PROVE  LoneCreate(Swap(B, r, {s})) /\ (Creating(BagToSet(Swap(B, r, {s}))) => Creating(BagToSet(B)))
  <1> DEFINE M == Without(B, r)
             W == With(M, {s})
  <1>1. W = Swap(B, r, {s})
    BY DEF Swap, With, Without
  <1>2. M = Without(B, r) /\ W = With(M, {s})
    OBVIOUS
  <1> HIDE DEF M, W
  <1>3. /\ BagToSet(M) \subseteq BagToSet(B)
        /\ \A e \in BagToSet(B) : B[e] = 1 => (e \in BagToSet(M) <=> e # r)
        /\ \A e \in BagToSet(M) : B[e] = 1 => M[e] = 1
    BY <1>2, OneLess
  <1>4. /\ BagToSet(W) = BagToSet(M) \cup {s}
        /\ \A e \in BagToSet(M) \ {s} : M[e] = 1 => W[e] = 1
        /\ s \notin BagToSet(M) => W[s] = 1
    BY <1>2, SomeMore
  <1>5. Creating(BagToSet(W)) => Creating(BagToSet(B))
    BY <1>3, <1>4 DEF Creating
  <1>6. LoneCreate(W)
    BY <1>3, <1>4 DEF LoneCreate
  <1> QED
    BY <1>1, <1>5, <1>6

LEMMA LoneDone ==
  ASSUME NEW B, LoneCreate(B), NEW r \in BagToSet(B), NEW S, ~Creating(S)
  PROVE  /\ LoneCreate(Swap(B, r, S))
         /\ Creating(BagToSet(Swap(B, r, S))) => Creating(BagToSet(B)) /\ r.op \notin Creates
  <1> DEFINE M == Without(B, r)
             W == With(M, S)
  <1>1. W = Swap(B, r, S)
    BY DEF Swap, With, Without
  <1>2. M = Without(B, r) /\ W = With(M, S)
    OBVIOUS
  <1> HIDE DEF M, W
  <1>3. /\ BagToSet(M) \subseteq BagToSet(B)
        /\ \A e \in BagToSet(B) : B[e] = 1 => (e \in BagToSet(M) <=> e # r)
        /\ \A e \in BagToSet(M) : B[e] = 1 => M[e] = 1
    BY <1>2, OneLess
  <1>4. /\ BagToSet(W) = BagToSet(M) \cup S
        /\ \A e \in BagToSet(M) \ S : M[e] = 1 => W[e] = 1
    BY <1>2, SomeMore
  <1>5. LoneCreate(W)
    BY <1>3, <1>4 DEF LoneCreate, Creating
  <1>6. Creating(BagToSet(W)) => Creating(BagToSet(B)) /\ r.op \notin Creates
    BY <1>3, <1>4 DEF LoneCreate, Creating
  <1> QED
    BY <1>1, <1>5, <1>6

LEMMA SecretsInit == Init => Secrets
  <1> SUFFICES ASSUME Init PROVE Secrets
    OBVIOUS
  <1> DEFINE q == Ask("bootstrap", None, None)
  <1>1. q.op = "bootstrap"
    BY DEF Ask, Request
  <1>2. reqs = SetToBag({q}) /\ BagToSet(reqs) = {q}
    BY BagOfSet DEF Init
  <1> HIDE DEF q
  <1>3. LoneCreate(reqs)
    BY <1>1, <1>2 DEF LoneCreate, Creates
  <1> QED
    BY <1>1, <1>2, <1>3 DEF Init, Secrets

\* A click asks for a device or key only where it hides no secret.
LEMMA ClickSecrets ==
  ASSUME Secrets, Clicks
  PROVE  Secrets'
  <1>1. PICK sent : /\ Click(sent) /\ \A p, q \in sent : p = q
                    /\ \/ modal' = modal /\ seen' = seen
                       \/ sent = {} /\ modal' = None /\ seen' = seen \cup {modal}
    BY ClicksClick
  <1>2. /\ created' = created /\ reqs' = reqs (+) SetToBag(sent)
        /\ BagToSet(reqs') = BagToSet(reqs) \cup sent
        /\ ~hasty' => ~hasty /\ (Creating(sent) => modal = None /\ ~Creating(BagToSet(reqs)))
    BY <1>1, BagAdd DEF Click
  <1>3. ~hasty' => LoneCreate(reqs')
    BY <1>1, <1>2, LoneAdd DEF Secrets
  <1>4. ~hasty' => created \subseteq seen' \cup {modal'}
    BY <1>1, <1>2 DEF Secrets
  <1>5. ~hasty' /\ Creating(BagToSet(reqs')) => modal' = None
    BY <1>1, <1>2 DEF Secrets, Creating
  <1> QED
    BY <1>2, <1>3, <1>4, <1>5 DEF Secrets

\* A secret is shown where there was none.
LEMMA CallbackSecrets ==
  ASSUME Inv, Secrets, Callbacks
  PROVE  Secrets'
  <1>1. PICK r \in InFlight("answered") :
            \E sent :
               /\ Callback(r, sent) /\ ~Creating(sent)
               /\ \/ modal' = modal /\ created' = created
                  \/ /\ r.op \in Creates /\ r.status = "ok"
                     /\ modal' = r.data /\ created' = created \cup {r.data}
    BY CallbacksCall
  <1>2. PICK sent :
            /\ Callback(r, sent) /\ ~Creating(sent)
            /\ \/ modal' = modal /\ created' = created
               \/ /\ r.op \in Creates /\ r.status = "ok"
                  /\ modal' = r.data /\ created' = created \cup {r.data}
    BY <1>1
  <1>3. r \in BagToSet(reqs) /\ r.at = "answered" /\ r.heard /\ RequestOK(r, devices)
    BY DEF InFlight, Inv, RequestsOK, AwaitedOK, AskedOK
  <1>4. reqs' = Swap(reqs, r, sent) /\ hasty' = hasty /\ seen' = seen
    BY <1>2, <1>3 DEF Callback, Replace
  <1>5. ~hasty => /\ LoneCreate(reqs')
                  /\ Creating(BagToSet(reqs')) => Creating(BagToSet(reqs)) /\ r.op \notin Creates
    BY <1>2, <1>3, <1>4, LoneDone DEF Secrets
  <1>6. r.op \in Creates /\ r.status = "ok" => r.data # None
    BY <1>3, AdminAPIAssumption DEF RequestOK, DataOK, Creates
  <1>7. r.op \in Creates => Creating(BagToSet(reqs))
    BY <1>3 DEF Creating
  <1>8. None \notin created'
    BY <1>2, <1>6 DEF Secrets
  <1>9. ~hasty => created' \subseteq seen \cup {modal'}
    BY <1>2, <1>7, <1>8 DEF Secrets
  <1>10. ~hasty /\ Creating(BagToSet(reqs')) => modal' = None
    BY <1>2, <1>5 DEF Secrets
  <1> QED
    BY <1>4, <1>5, <1>8, <1>9, <1>10 DEF Secrets

\* Neither the server nor anybody else shows one or asks for one in the page.
LEMMA OthersSecrets ==
  ASSUME Secrets, UNCHANGED <<created, seen, modal, hasty>>,
         reqs' = reqs \/ \E r \in BagToSet(reqs) : \E s : reqs' = Swap(reqs, r, {s}) /\ s.op = r.op
  PROVE  Secrets'
  <1>1. CASE reqs' = reqs
    BY <1>1 DEF Secrets
  <1>2. CASE \E r \in BagToSet(reqs) : \E s : reqs' = Swap(reqs, r, {s}) /\ s.op = r.op
    <2>1. PICK r, s : r \in BagToSet(reqs) /\ reqs' = Swap(reqs, r, {s}) /\ s.op = r.op
      BY <1>2
    <2>2. ~hasty => LoneCreate(reqs') /\ (Creating(BagToSet(reqs')) => Creating(BagToSet(reqs)))
      BY <2>1, LoneMove DEF Secrets
    <2> QED
      BY <2>2 DEF Secrets
  <1> QED
    BY <1>1, <1>2

LEMMA ServerSecrets ==
  ASSUME Inv, Secrets, ServerSteps
  PROVE  Secrets'
  <1>1. UNCHANGED <<created, seen, modal, hasty>> /\ ServerStep
    BY DEF ServerSteps, secretVars
  <1>2. PICK r \in BagToSet(reqs) \cup BagToSet(unheard) :
            (r.heard <=> r \in BagToSet(reqs)) /\ ServesSome(r)
    BY <1>1, ServerMoves DEF Inv
  <1>3. PICK s : Serves(r, s) /\ s.op = r.op
    BY <1>2 DEF ServesSome, Moves, SameAsk
  <1>4. reqs' = reqs \/ (r \in BagToSet(reqs) /\ reqs' = Swap(reqs, r, {s}))
    BY <1>2, <1>3 DEF Serves
  <1> QED
    BY <1>1, <1>3, <1>4, OthersSecrets

LEMMA ElsewhereSecrets ==
  ASSUME Secrets, ElsewhereSteps
  PROVE  Secrets'
  <1>1. UNCHANGED <<created, seen, modal, hasty>>
    BY DEF ElsewhereSteps, secretVars
  <1>2. CASE OtherAdmin
    <2>1. PICK op, item, value, apply, r :
             r = OtherRequest(op, item, value, apply) /\ Handler(r)
      BY <1>2, OtherAdminServed DEF OtherServed
    <2>2. IsRequest(r) /\ r.at = "sent" /\ ~r.heard
      BY <2>1, OtherRequestIs
    <2>3. PICK s : Serves(r, s)
      BY <2>1, <2>2, HandlerMoves DEF ServesSome
    <2>4. reqs' = reqs
      BY <2>2, <2>3 DEF Serves
    <2> QED
      BY <1>1, <2>4, OthersSecrets
  <1>3. CASE SessionsEnd \/ Batch
    <2>1. reqs' = reqs
      BY <1>3 DEF SessionsEnd, Batch
    <2> QED
      BY <1>1, <2>1, OthersSecrets
  <1> QED
    BY <1>2, <1>3 DEF ElsewhereSteps, Elsewhere

LEMMA SecretsNext == Inv /\ Secrets /\ [Next]_vars => Secrets'
  <1> SUFFICES ASSUME Inv, Secrets, [Next]_vars PROVE Secrets'
    OBVIOUS
  <1>1. CASE UNCHANGED vars
    <2>1. UNCHANGED <<created, seen, modal, hasty, reqs>>
      BY <1>1 DEF vars, apiVars, pageVars, secretVars
    <2> QED
      BY <2>1, OthersSecrets
  <1> QED
    BY <1>1, ClickSecrets, CallbackSecrets, ServerSecrets, ElsewhereSecrets DEF Next

-----------------------------------------------------------------------------
(* What follows.                                                             *)

\* While clicks wait for answers: one request at most is awaited, every table, rename
\* and chart is current or being redrawn, and requests tell of the page's session
\* (app.js:45-53).
THEOREM WaitsAlways == Spec => [](Inv /\ Waits)
  BY InvInit, InvNext, WaitsInit, WaitsNext, PTL DEF Spec

\* However many devices, rules, keys and clicks: to an admin who waits for answers
\* every table, inline rename and chart is current, but for a failure reported and
\* what was changed elsewhere or by a request given up before (app.js:45-53, 153-479).
THEOREM CurrentPage == Spec => []PageIsCurrent
  <1>1. Waits => PageIsCurrent
    <2> SUFFICES ASSUME Waiting, reqs = EmptyBag PROVE
          /\ \A t \in Tables \ behind :
                shown[t] # None =>
                    shown[t] = CASE t = "devices" -> devices [] t = "rules" -> rules
                                 [] t = "keys" -> keys
          /\ "devices" \notin behind => \A d \in Device : edits[d] \notin finished
          /\ "charts" \notin behind /\ charts # None =>
                charts.device = device /\ charts.range = range
      BY DEF Waits, PageIsCurrent, Settled
    <2>1. BagToSet(reqs) = {}
      BY EmptyHasNone
    <2>2. \A t \in Tables \ behind : shown[t] # None => shown[t] = Stored[t]
      BY <2>1 DEF Waiting, TablesOK, TableOK
    <2>3. \A t \in Tables : Stored[t] = CASE t = "devices" -> devices [] t = "rules" -> rules
                                          [] t = "keys" -> keys
      BY DEF Stored
    <2>4. "devices" \notin behind => \A d \in Device : edits[d] \notin finished
      BY <2>1 DEF Waiting, EditsOK
    <2>5. "charts" \notin behind /\ charts # None => charts.device = device /\ charts.range = range
      BY <2>1 DEF Waiting, ChartsOK
    <2> QED
      BY <2>2, <2>3, <2>4, <2>5
  <1> QED
    BY <1>1, WaitsAlways, PTL

\* However clicks and answers overlap: only an admin who asks for a device or key
\* while another is being created, or its secret shown, can lose a secret
\* (app.js:127-132, admin_api.go:35).
THEOREM SecretsShown == Spec => []SecretsAreSeen
  <1>1. Secrets => SecretsAreSeen
    BY DEF Secrets, SecretsAreSeen
  <1>2. Spec => []Secrets
    BY InvAlways, SecretsInit, SecretsNext, PTL DEF Spec
  <1> QED
    BY <1>1, <1>2, PTL

\* The login view is shown exactly without a session, but for one that ended
\* elsewhere or a failure (app.js:45-110, admin_auth.go:60-116).
THEOREM ViewTellsSession == Spec => []ViewMatchesSession
  <1>1. Waits => ViewMatchesSession
    BY DEF Waits, Waiting, SessionOK, HasSession, ViewMatchesSession, Settled
  <1> QED
    BY <1>1, WaitsAlways, PTL

\* A rule reported as saved and applied is in force with all of the history it
\* matches, whatever patterns overlap and whatever was lost before, unless somebody
\* came between (admin_api.go:155-183).
THEOREM RuleApplied == Spec => []RuleIsApplied
  <1>1. Waits => RuleIsApplied
    BY DEF Waits, Waiting, RuleOK, RuleIsApplied, InFlight
  <1> QED
    BY <1>1, WaitsAlways, PTL
=============================================================================
