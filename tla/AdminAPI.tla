------------------------------ MODULE AdminAPI ------------------------------
(***************************************************************************)
(* The admin's side of the server: sessions (admin_auth.go) and the devices, *)
(* rules and API keys behind /admin/api (admin_api.go, store.go, rules.go,   *)
(* apikeys.go), one action for each handler, on the requests of one page and  *)
(* on those whose answers it will not get: its own that failed while the     *)
(* server was, or may yet be, at work on them, and those of another admin.   *)
(*                                                                         *)
(* A device stands for its random ID, a key for its secret, a token for a    *)
(* session; "active" is every status but "revoked".  Every handler but the   *)
(* rule's is one statement or transaction, and is taken with the check of    *)
(* its session as one step.                                                  *)
(***************************************************************************)
EXTENDS Naturals, FiniteSets, Bags

CONSTANTS Device, Name, Pattern, Category, App, Key, Prefix, Token, None,
          Matches,       \* the applications each pattern's GLOB matches
          PrefixOf,      \* the first 8 characters of a key's hash
          Other,         \* the session of another admin
          MaxMishaps     \* bound: storage errors, answers that never come, requests
                         \* of another admin, batches, and ends of all sessions

ASSUME AdminAPIAssumption ==
    /\ Matches \in [Pattern -> SUBSET App]
    /\ PrefixOf \in [Key -> Prefix]
    /\ Other \in Token
    /\ None \notin Token \cup Device \cup Key
    /\ MaxMishaps \in Nat

VARIABLES
    devices,    \* each device's status and name
    rules,      \* each pattern's category, None without a rule
    history,    \* the categories of each application's stored heartbeats
    keys,       \* "none", "live", "revoked"
    sessions,   \* the tokens of live sessions
    minted,     \* tokens used so far
    reqs,       \* the requests whose answers the page awaits, a bag
    unheard,    \* those it does not, but the server may serve, a bag
    mishaps

storeVars == <<devices, rules, history, keys>>
apiVars == <<storeVars, sessions, minted, reqs, unheard, mishaps>>

Row(status, name) == [status |-> status, name |-> name]
Absent == Row("none", None)

Reads == {"bootstrap", "loadDevices", "loadRules", "loadKeys", "loadDashboards", "report"}

\* A request as the page sends it, with the cookie of that moment; apply is
\* apply_to_history, edit the inline rename that waits for the answer.
Request(op, item, value, apply, edit, cookie) ==
    [op |-> op, item |-> item, value |-> value, apply |-> apply, edit |-> edit,
     cookie |-> cookie, at |-> "sent", status |-> "none", data |-> None, heard |-> TRUE]

Unheard(r) == [r EXCEPT !.heard = FALSE]

Swap(B, r, R) == (B (-) SetToBag({r})) (+) SetToBag(R)

\* An answer nobody hears is gone.
Replace(r, R) ==
    IF r.heard
    THEN reqs' = Swap(reqs, r, R) /\ UNCHANGED unheard
    ELSE unheard' = Swap(unheard, r, {s \in R : s.at # "answered"}) /\ UNCHANGED reqs

Answered(r, status, data) ==
    [r EXCEPT !.at = "answered", !.status = status, !.data = data]

Answer(r, status, data) == Replace(r, {Answered(r, status, data)})

InFlight(at) == {r \in BagToSet(reqs) : r.at = at}
AtServer(at) == InFlight(at) \cup {r \in BagToSet(unheard) : r.at = at}

Mishap == mishaps < MaxMishaps /\ mishaps' = mishaps + 1

-----------------------------------------------------------------------------
(* Sessions.                                                               *)

\* A wrong password mints nothing.
Login(r) ==
    /\ r.op = "login"
    /\ \/ /\ \E t \in Token \ minted :
                /\ sessions' = sessions \cup {t}
                /\ minted' = minted \cup {t}
                /\ Answer(r, "ok", t)
          /\ UNCHANGED storeVars
       \/ /\ Answer(r, "401", None)
          /\ UNCHANGED <<storeVars, sessions, minted>>

Logout(r) ==
    /\ r.op = "logout"
    /\ sessions' = sessions \ {r.cookie}
    /\ Answer(r, "ok", None)
    /\ UNCHANGED <<storeVars, minted>>

RequireAdmin(r) == r.cookie \in sessions

Unauthorized(r) ==
    /\ r.op \notin {"login", "logout"}
    /\ ~RequireAdmin(r)
    /\ Answer(r, "401", None)
    /\ UNCHANGED <<storeVars, sessions, minted>>

-----------------------------------------------------------------------------
(* Devices.                                                                *)

AdminCall(r, op) ==
    /\ r.op = op
    /\ RequireAdmin(r)
    /\ UNCHANGED <<sessions, minted>>

DeviceList == devices

HandleDevices(r) ==
    /\ r.op \in {"bootstrap", "loadDevices", "loadDashboards"}
    /\ AdminCall(r, r.op)
    /\ Answer(r, "ok", DeviceList)
    /\ UNCHANGED storeVars

HandleDeviceEnroll(r) ==
    /\ AdminCall(r, "enroll")
    /\ \E d \in Device :
          /\ devices[d] = Absent
          /\ devices' = [devices EXCEPT ![d] = Row("active", r.value)]
          /\ Answer(r, "ok", d)
    /\ UNCHANGED <<rules, history, keys>>

Enrolled(d) == devices[d].status \in {"active", "revoked"}

\* Mutated form: an unknown ID gets a row.
RevokedAnyway(d) == [devices EXCEPT ![d].status = "revoked"]

\* An unknown ID is no error.
Revoked(d) == IF Enrolled(d) THEN [devices EXCEPT ![d].status = "revoked"] ELSE devices

HandleDeviceRevoke(r) ==
    /\ AdminCall(r, "revoke")
    /\ devices' = Revoked(r.item)
    /\ Answer(r, "ok", None)
    /\ UNCHANGED <<rules, history, keys>>

HandleDeviceRename(r) ==
    /\ AdminCall(r, "rename")
    /\ IF Enrolled(r.item)
       THEN /\ devices' = [devices EXCEPT ![r.item].name = r.value]
            /\ Answer(r, "ok", None)
       ELSE /\ Answer(r, "error", None)
            /\ UNCHANGED devices
    /\ UNCHANGED <<rules, history, keys>>

HandleDeviceDelete(r) ==
    /\ AdminCall(r, "delete")
    /\ IF devices[r.item].status = "revoked"
       THEN /\ devices' = [devices EXCEPT ![r.item] = Row("deleted", None)]
            /\ Answer(r, "ok", None)
       ELSE /\ Answer(r, IF Enrolled(r.item) THEN "conflict" ELSE "error", None)
            /\ UNCHANGED devices
    /\ UNCHANGED <<rules, history, keys>>

-----------------------------------------------------------------------------
(* Rules.                                                                  *)

HandleRulesList(r) ==
    /\ AdminCall(r, "loadRules")
    /\ Answer(r, "ok", rules)
    /\ UNCHANGED storeVars

\* Mutated form: an existing rule is kept.
InsertRule(p, c) == IF rules[p] = None THEN [rules EXCEPT ![p] = c] ELSE rules

UpsertRule(p, c) == [rules EXCEPT ![p] = c]

\* With apply_to_history the request goes on to Recategorize.
HandleRuleUpsert(r) ==
    /\ AdminCall(r, "saveRule")
    /\ rules' = UpsertRule(r.item, r.value)
    /\ IF r.apply THEN Replace(r, {[r EXCEPT !.at = "half"]}) ELSE Answer(r, "ok", None)
    /\ UNCHANGED <<devices, history, keys>>

\* Every stored row of a matching application, whatever other patterns match.
Remapped(p, c) ==
    [a \in App |-> IF a \in Matches[p] /\ history[a] # {} THEN {c} ELSE history[a]]

Recategorize(r) ==
    /\ history' = Remapped(r.item, r.value)
    /\ Answer(r, "ok", None)
    /\ UNCHANGED <<devices, rules, keys, sessions, minted>>

HandleRuleDelete(r) ==
    /\ AdminCall(r, "deleteRule")
    /\ rules' = [rules EXCEPT ![r.item] = None]
    /\ Answer(r, "ok", None)
    /\ UNCHANGED <<devices, history, keys>>

-----------------------------------------------------------------------------
(* API keys.                                                               *)

HandleKeyList(r) ==
    /\ AdminCall(r, "loadKeys")
    /\ Answer(r, "ok", keys)
    /\ UNCHANGED storeVars

HandleKeyCreate(r) ==
    /\ AdminCall(r, "createKey")
    /\ \E k \in Key :
          /\ keys[k] = "none"
          /\ keys' = [keys EXCEPT ![k] = "live"]
          /\ Answer(r, "ok", k)
    /\ UNCHANGED <<devices, rules, history>>

\* Every key whose hash begins with the prefix; there is one, as keys stay.
HandleKeyRevoke(r) ==
    /\ AdminCall(r, "revokeKey")
    /\ keys' = [k \in Key |->
                  IF keys[k] # "none" /\ PrefixOf[k] = PrefixOf[r.item]
                  THEN "revoked" ELSE keys[k]]
    /\ Answer(r, "ok", None)
    /\ UNCHANGED <<devices, rules, history>>

-----------------------------------------------------------------------------
(* The reports: the four requests of one drawing, as one.                   *)

HandleReport(r) ==
    /\ AdminCall(r, "report")
    /\ Answer(r, "ok", "whole")
    /\ UNCHANGED storeVars

-----------------------------------------------------------------------------
Handler(r) ==
    \/ Login(r) \/ Logout(r) \/ Unauthorized(r)
    \/ HandleDevices(r) \/ HandleDeviceEnroll(r) \/ HandleDeviceRevoke(r)
    \/ HandleDeviceRename(r) \/ HandleDeviceDelete(r)
    \/ HandleRulesList(r) \/ HandleRuleUpsert(r) \/ HandleRuleDelete(r)
    \/ HandleKeyList(r) \/ HandleKeyCreate(r) \/ HandleKeyRevoke(r)
    \/ HandleReport(r)

\* A statement fails, or the second of the rule's two, or the random source; of a
\* report's requests the first, or another, which the page does not notice.
StorageError(r) ==
    /\ Mishap
    /\ r.op = "login" \/ r.at = "half" \/ (r.op # "logout" /\ RequireAdmin(r))
    /\ \/ Answer(r, "error", None)
       \/ r.op = "report" /\ Answer(r, "ok", "partial")
    /\ UNCHANGED <<storeVars, sessions, minted>>

\* fetch fails with no header read.  Only the page's wait ends: a write that has
\* not been served, or but half, may be served at any time from now, or never.
NetworkError(r) ==
    /\ Mishap
    /\ reqs' = Swap(reqs, r, {Answered(r, "error", None)})
    /\ unheard' = unheard (+)
          SetToBag({Unheard(s) : s \in {q \in {r} : q.at # "answered" /\ q.op \notin Reads}})
    /\ UNCHANGED <<storeVars, sessions, minted>>

ServerStep ==
    \/ /\ \/ \E r \in AtServer("sent") : Handler(r)
          \/ \E r \in AtServer("half") : Recategorize(r)
       /\ UNCHANGED mishaps
    \/ \E r \in InFlight("sent") \cup InFlight("half") : StorageError(r)
    \/ \E r \in {s \in BagToSet(reqs) : s.status # "error"} : NetworkError(r)

\* The session expires, or the server restarts and forgets them all.
SessionsEnd ==
    /\ sessions # {}
    /\ sessions' = {}
    /\ UNCHANGED <<storeVars, minted, reqs, unheard>>

OtherRequest(op, item, value, apply) ==
    Unheard(Request(op, item, value, apply, 0, Other))

\* The server serves a request of another admin's page that changes something, a
\* rule's history later.
OtherAdmin ==
    LET Serve(op, item, value, apply) == Handler(OtherRequest(op, item, value, apply))
    IN  \/ \E n \in Name : Serve("enroll", None, n, FALSE)
        \/ \E d \in Device :
              /\ devices[d] # Absent
              /\ \/ Serve("revoke", d, None, FALSE)
                 \/ Serve("delete", d, None, FALSE)
                 \/ \E n \in Name : Serve("rename", d, n, FALSE)
        \/ \E p \in Pattern :
              \/ \E c \in Category, apply \in BOOLEAN : Serve("saveRule", p, c, apply)
              \/ Serve("deleteRule", p, None, FALSE)
        \/ Serve("createKey", None, None, FALSE)
        \/ \E k \in Key : keys[k] # "none" /\ Serve("revokeKey", k, None, FALSE)

\* A device's batch, categorised on the device.
Batch ==
    /\ \E a \in App, c \in Category : history' = [history EXCEPT ![a] = @ \cup {c}]
    /\ UNCHANGED <<devices, rules, keys, sessions, minted, reqs, unheard>>

Elsewhere ==
    /\ Mishap
    /\ SessionsEnd \/ OtherAdmin \/ Batch
=============================================================================
