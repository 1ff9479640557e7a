----------------------------- MODULE AdminPage -----------------------------
(***************************************************************************)
(* The admin's page (web/app.js): its views and panels, its tables, the     *)
(* inline rename, the one-time secret and the charts, driven by an admin    *)
(* who clicks and by answers that come in any order, late or not at all.    *)
(* Every call of api() is a request of AdminAPI; an action named after a    *)
(* function is its part up to the call, On... its callback.                 *)
(*                                                                         *)
(* A table shows the last answer that was drawn, whatever was asked since.  *)
(***************************************************************************)
EXTENDS AdminAPI

CONSTANTS Range,        \* the presets of the range selector
          MaxClicks,    \* bound: the admin's clicks
          MaxInFlight   \* bound: requests under way when the admin clicks

ASSUME AdminPageAssumption == MaxClicks \in Nat /\ MaxInFlight \in Nat

VARIABLES
    cookie,     \* the browser's sl_admin, None without
    view,       \* "login", "app"
    panel,      \* the panel that is not hidden
    shown,      \* what each table shows, None before it is first drawn
    edits,      \* each device row's inline rename, 0 without
    finished,   \* the renames whose done is set
    modal,      \* the device or key whose secret the modal shows, None when hidden
    options,    \* the devices of the device selector
    device,     \* what it has selected, None for all
    range,      \* what the range selector has selected
    charts,     \* what the charts were drawn for, None before
    clicks,
    overlapped, \* history: a click came while an answer was awaited
    hasty,      \* history: a device or key was asked for while another was, or
                \* with its secret on the screen
    behind,     \* history: what may lag, for a failure the admin was told of
                \* or a change that the page did not wait for
    created,    \* history: devices and keys the page was told are created
    seen        \* history: those whose secret was shown until the admin closed it

tableVars == <<shown, edits, finished>>
chartVars == <<options, device, range, charts>>
viewVars == <<cookie, view, panel>>
secretVars == <<modal, created, seen>>
pageVars == <<viewVars, tableVars, secretVars, chartVars, clicks, overlapped, hasty, behind>>
vars == <<apiVars, pageVars>>

serverVars == <<storeVars, sessions, minted, mishaps>>

Tables == {"devices", "rules", "keys"}
Panels == Tables \cup {"dashboards"}
Creates == {"enroll", "createKey"}

\* The request a panel is drawn from.
Load == [devices |-> "loadDevices", rules |-> "loadRules", keys |-> "loadKeys",
         dashboards |-> "loadDashboards"]

\* What an operation leaves behind when it fails.
Concern(op) ==
    CASE op \in {"bootstrap", "login", "logout"} -> {"session"}
      [] op \in {"loadDashboards", "report"} -> {"charts"}
      [] op \in {"loadRules", "saveRule", "deleteRule"} -> {"rules"}
      [] op \in {"loadKeys", "createKey", "revokeKey"} -> {"keys"}
      [] OTHER -> {"devices"}

\* What is up to date as the server takes a request to where it is now: a table
\* that is loaded; a rule that is saved and its history, with the second statement
\* to come.
Refreshes(r) ==
    CASE r.at = "half" -> {"history"}
      [] r.at = "answered" /\ r.status = "ok" ->
            (IF r.op = "login" THEN {"session"} ELSE {}) \cup {t \in Tables : Load[t] = r.op}
      [] OTHER -> {}

\* What a step changes in the store.
Changed ==
    (IF devices' # devices THEN {"devices"} ELSE {})
    \cup (IF rules' # rules THEN {"rules", "history"} ELSE {})
    \cup (IF history' # history THEN {"history"} ELSE {})
    \cup (IF keys' # keys THEN {"keys"} ELSE {})

Ask(op, item, value) == Request(op, item, value, FALSE, 0, cookie)
Reload(p) == Ask(Load[p], None, None)
Report(d, r) == Ask("report", d, r)

Init ==
    /\ \E n \in Name : devices \in [Device -> {Absent, Row("active", n), Row("revoked", n)}]
    /\ rules \in [Pattern -> Category \cup {None}]
    /\ history \in [App -> SUBSET Category]
    /\ keys \in [Key -> {"none", "live", "revoked"}]
    /\ cookie \in (Token \ {Other}) \cup {None}
    /\ minted = {cookie, Other} \ {None} /\ sessions \in SUBSET minted
    /\ mishaps = 0
    /\ reqs = SetToBag({Ask("bootstrap", None, None)}) /\ unheard = EmptyBag
    /\ view = "login" /\ panel = "devices"
    /\ shown = [t \in Tables |-> None]
    /\ edits = [d \in Device |-> 0] /\ finished = {}
    /\ modal = None /\ created = {} /\ seen = {}
    /\ options = {} /\ device = None /\ range \in Range /\ charts = None
    /\ clicks = 0 /\ overlapped = FALSE /\ hasty = FALSE /\ behind = {}

-----------------------------------------------------------------------------
(* The admin's clicks.  The modal's backdrop stops the mouse, not the keys: *)
(* a form is sent with Enter, a button reached with Tab, whatever is shown.  *)

Creating(R) == \E r \in R : r.op \in Creates

Click(sent) ==
    /\ clicks < MaxClicks
    /\ clicks' = clicks + 1
    /\ BagCardinality(reqs) < MaxInFlight
    /\ reqs' = reqs (+) SetToBag(sent)
    /\ overlapped' = (overlapped \/ reqs # EmptyBag)
    /\ hasty' = (hasty \/ (Creating(sent) /\ (modal # None \/ Creating(BagToSet(reqs)))))
    /\ UNCHANGED <<serverVars, unheard, cookie, view, created, behind>>

ClickIn(p, sent) ==
    /\ view = "app" /\ panel = p
    /\ Click(sent)
    /\ UNCHANGED <<panel, modal, seen>>

\* Any password: the server decides.
DoLogin ==
    /\ view = "login"
    /\ Click({Ask("login", None, None)})
    /\ UNCHANGED <<panel, tableVars, modal, seen, chartVars>>

DoLogout ==
    /\ view = "app"
    /\ Click({Ask("logout", None, None)})
    /\ UNCHANGED <<panel, tableVars, modal, seen, chartVars>>

SwitchPanel(p) ==
    /\ view = "app"
    /\ panel' = p
    /\ Click({Reload(p)})
    /\ UNCHANGED <<tableVars, modal, seen, chartVars>>

HideModal ==
    /\ modal # None
    /\ modal' = None
    /\ seen' = seen \cup {modal}
    /\ Click({})
    /\ UNCHANGED <<panel, tableVars, chartVars>>

Listed(d) == shown.devices # None /\ shown.devices[d].status \in {"active", "revoked"}

EnrollDevice ==
    /\ \E n \in Name : ClickIn("devices", {Ask("enroll", None, n)})
    /\ UNCHANGED <<tableVars, chartVars>>

RevokeDevice(d) ==
    /\ Listed(d) /\ shown.devices[d].status = "active"
    /\ ClickIn("devices", {Ask("revoke", d, None)})
    /\ UNCHANGED <<tableVars, chartVars>>

\* Mutated form: every row has the button.
DeleteOffered(d) == Listed(d)

\* "offered only for revoked devices"
DeleteButton(d) == Listed(d) /\ shown.devices[d].status = "revoked"

DeleteDevice(d) ==
    /\ DeleteButton(d)
    /\ ClickIn("devices", {Ask("delete", d, None)})
    /\ UNCHANGED <<tableVars, chartVars>>

\* The rename is known by the click that opened it.
StartRename(d) ==
    /\ Listed(d) /\ edits[d] = 0
    /\ edits' = [edits EXCEPT ![d] = clicks + 1]
    /\ ClickIn("devices", {})
    /\ UNCHANGED <<shown, finished, chartVars>>

\* What finish() of a rename sends, the first time it is called.
Finish(e) == IF e \in finished THEN {} ELSE {Reload("devices")}

\* An unchanged name, or Cancel.
FinishRename(d) ==
    /\ edits[d] # 0
    /\ finished' = finished \cup {edits[d]}
    /\ ClickIn("devices", Finish(edits[d]))
    /\ UNCHANGED <<shown, edits, chartVars>>

SubmitRename(d, n) ==
    /\ edits[d] # 0
    /\ n # shown.devices[d].name
    /\ ClickIn("devices", {Request("rename", d, n, FALSE, edits[d], cookie)})
    /\ UNCHANGED <<tableVars, chartVars>>

\* The form holds whatever the admin typed, or Edit filled in.
SaveRule(p, c, apply) ==
    /\ ClickIn("rules", {Request("saveRule", p, c, apply, 0, cookie)})
    /\ UNCHANGED <<tableVars, chartVars>>

DeleteRule(p) ==
    /\ shown.rules # None /\ shown.rules[p] # None
    /\ ClickIn("rules", {Ask("deleteRule", p, None)})
    /\ UNCHANGED <<tableVars, chartVars>>

CreateKey ==
    /\ ClickIn("keys", {Ask("createKey", None, None)})
    /\ UNCHANGED <<tableVars, chartVars>>

RevokeKey(k) ==
    /\ shown.keys # None /\ shown.keys[k] = "live"
    /\ ClickIn("keys", {Ask("revokeKey", k, None)})
    /\ UNCHANGED <<tableVars, chartVars>>

\* The selection the requests are made for.
DeviceValue == device'

\* A selector changes, or Refresh is clicked.
RenderDashboards ==
    /\ device' \in options \cup {None}
    /\ range' \in Range
    /\ device' = device \/ range' = range
    /\ ClickIn("dashboards", {Report(DeviceValue, range')})
    /\ UNCHANGED <<tableVars, options, charts>>

Clicks ==
    \/ DoLogin \/ DoLogout \/ HideModal
    \/ \E p \in Panels : SwitchPanel(p)
    \/ EnrollDevice
    \/ \E d \in Device :
          \/ RevokeDevice(d) \/ DeleteDevice(d) \/ StartRename(d) \/ FinishRename(d)
          \/ \E n \in Name : SubmitRename(d, n)
    \/ \E p \in Pattern :
          \/ DeleteRule(p)
          \/ \E c \in Category, apply \in BOOLEAN : SaveRule(p, c, apply)
    \/ CreateKey
    \/ \E k \in Key : RevokeKey(k)
    \/ RenderDashboards

-----------------------------------------------------------------------------
(* The callbacks.                                                          *)

Callback(r, sent) ==
    /\ Replace(r, sent)
    /\ UNCHANGED <<serverVars, panel, clicks, overlapped, hasty, seen>>

ShowLogin == view' = "login"

\* Mutated form: a toast whatever the status.
ViewOnToast(r) == UNCHANGED view

\* "on 401, drop back to login"
ViewOnFailure(r) == IF r.status = "401" THEN ShowLogin ELSE UNCHANGED view

\* Every callback but the session's: not authed, so a toast or the login view.
OnFailure(r) ==
    /\ r.op \notin {"bootstrap", "login", "logout"}
    /\ r.status # "ok"
    /\ ViewOnFailure(r)
    /\ behind' = (behind \cup Concern(r.op)) \ (IF r.status = "401" THEN {"session"} ELSE {})
    /\ Callback(r, {})
    /\ UNCHANGED <<cookie, tableVars, modal, created, chartVars>>

ShowApp == view' = "app"

\* Anything but a 401 shows the page.
OnBootstrap(r) ==
    /\ r.op = "bootstrap"
    /\ IF r.status = "401"
       THEN ShowLogin /\ Callback(r, {}) /\ behind' = behind \ Concern(r.op)
       ELSE /\ ShowApp
            /\ Callback(r, {Reload("devices")})
            /\ behind' = IF r.status = "ok" THEN behind ELSE behind \cup Concern(r.op)
    /\ UNCHANGED <<cookie, tableVars, modal, created, chartVars>>

\* The browser has stored the cookie; the devices are reloaded with it.
OnLogin(r) ==
    /\ r.op = "login"
    /\ IF r.status = "ok"
       THEN /\ cookie' = r.data
            /\ ShowApp
            /\ Callback(r, {Request("loadDevices", None, None, FALSE, 0, r.data)})
            /\ UNCHANGED behind
       ELSE /\ Callback(r, {})
            /\ behind' = IF r.status = "401" THEN behind ELSE behind \cup Concern(r.op)
            /\ UNCHANGED <<cookie, view>>
    /\ UNCHANGED <<tableVars, modal, created, chartVars>>

\* Whatever the answer.
OnLogout(r) ==
    /\ r.op = "logout"
    /\ ShowLogin
    /\ cookie' = IF r.status = "ok" THEN None ELSE cookie
    /\ behind' = IF r.status = "ok" THEN behind ELSE behind \cup Concern(r.op)
    /\ Callback(r, {})
    /\ UNCHANGED <<tableVars, modal, created, chartVars>>

Succeeded(r, op) == r.op = op /\ r.status = "ok" /\ UNCHANGED <<cookie, view>>

\* A table is emptied and drawn from the answer.
Draw(r, t) ==
    /\ Succeeded(r, Load[t])
    /\ shown' = [shown EXCEPT ![t] = r.data]
    /\ Callback(r, {})
    /\ UNCHANGED <<finished, modal, created, chartVars, behind>>

\* Inline renames go with the rows.
DrawDevices(r) == Draw(r, "devices") /\ edits' = [d \in Device |-> 0]

DrawRules(r) == Draw(r, "rules") /\ UNCHANGED edits

DrawKeys(r) == Draw(r, "keys") /\ UNCHANGED edits

\* Mutated form: the table is left as it is.
Unreloaded(p) == {}

Reloaded(p) == {Reload(p)}

OnChange(r, op, p) ==
    /\ Succeeded(r, op)
    /\ Callback(r, Reloaded(p))
    /\ UNCHANGED behind

OnRevoke(r) ==
    /\ OnChange(r, "revoke", "devices")
    /\ UNCHANGED <<tableVars, modal, created, chartVars>>

OnDelete(r) ==
    /\ OnChange(r, "delete", "devices")
    /\ UNCHANGED <<tableVars, modal, created, chartVars>>

OnDeleteRule(r) ==
    /\ OnChange(r, "deleteRule", "rules")
    /\ UNCHANGED <<tableVars, modal, created, chartVars>>

OnRevokeKey(r) ==
    /\ OnChange(r, "revokeKey", "keys")
    /\ UNCHANGED <<tableVars, modal, created, chartVars>>

\* A second answer of the same rename reloads nothing.
OnRename(r) ==
    /\ Succeeded(r, "rename")
    /\ finished' = finished \cup {r.edit}
    /\ Callback(r, Finish(r.edit))
    /\ UNCHANGED <<shown, edits, modal, created, chartVars, behind>>

OnSaveRule(r) ==
    /\ OnChange(r, "saveRule", "rules")
    /\ UNCHANGED <<tableVars, modal, created, chartVars>>

\* Mutated form: createKey does not call it.
ShowToken(x) == modal' = IF x \in Device THEN x ELSE modal

\* The one modal: a secret that is being shown is overwritten.
ShowSecret(x) == modal' = x

OnCreate(r, op, p) ==
    /\ OnChange(r, op, p)
    /\ ShowSecret(r.data)
    /\ created' = created \cup {r.data}
    /\ UNCHANGED <<tableVars, chartVars>>

OnEnroll(r) == OnCreate(r, "enroll", "devices")

OnCreateKey(r) == OnCreate(r, "createKey", "keys")

\* "keep previous selection when possible"
Kept(d, O) == IF d \in O THEN d ELSE None

PopulateDeviceSelect(list) ==
    /\ options' = {d \in Device : list[d].status \in {"active", "revoked"}}
    /\ device' = Kept(device, options')

OnLoadDashboards(r) ==
    /\ Succeeded(r, "loadDashboards")
    /\ PopulateDeviceSelect(r.data)
    /\ Callback(r, {Report(DeviceValue, range)})
    /\ UNCHANGED <<tableVars, modal, created, range, charts, behind>>

\* The charts are drawn once all four answers are there and the first is well.
OnReport(r) ==
    /\ Succeeded(r, "report")
    /\ charts' = [device |-> r.item, range |-> r.value, from |-> r.data]
    /\ behind' = behind \ {"charts"}
    /\ Callback(r, {})
    /\ UNCHANGED <<tableVars, modal, created, options, device, range>>

Callbacks ==
    \E r \in InFlight("answered") :
        \/ OnFailure(r) \/ OnBootstrap(r) \/ OnLogin(r) \/ OnLogout(r)
        \/ DrawDevices(r) \/ DrawRules(r) \/ DrawKeys(r)
        \/ OnRevoke(r) \/ OnDelete(r) \/ OnRename(r) \/ OnEnroll(r)
        \/ OnSaveRule(r) \/ OnDeleteRule(r) \/ OnCreateKey(r) \/ OnRevokeKey(r)
        \/ OnLoadDashboards(r) \/ OnReport(r)

\* The server's own steps: a table answered is current, a change nobody heard of
\* leaves the page behind.
ServerSteps ==
    /\ ServerStep
    /\ behind' = (behind \ UNION {Refreshes(r) : r \in BagToSet(reqs') \ BagToSet(reqs)})
                 \cup (IF reqs' = reqs THEN Changed ELSE {})
    /\ UNCHANGED <<viewVars, tableVars, secretVars, chartVars, clicks, overlapped, hasty>>

\* What happens elsewhere.
ElsewhereSteps ==
    /\ Elsewhere
    /\ behind' = behind \cup Changed \cup (IF sessions' # sessions THEN {"session"} ELSE {})
    /\ UNCHANGED <<viewVars, tableVars, secretVars, chartVars, clicks, overlapped, hasty>>

Next == Clicks \/ Callbacks \/ ServerSteps \/ ElsewhereSteps

Spec == Init /\ [][Next]_vars

-----------------------------------------------------------------------------
TypeOK ==
    /\ cookie \in Token \cup {None} /\ view \in {"login", "app"} /\ panel \in Panels
    /\ devices \in [Device -> {Absent, Row("deleted", None)}
                              \cup [status : {"active", "revoked"}, name : Name]]
    /\ rules \in [Pattern -> Category \cup {None}]
    /\ keys \in [Key -> {"none", "live", "revoked"}]
    /\ sessions \subseteq minted /\ minted \subseteq Token
    /\ modal \in Device \cup Key \cup {None}
    /\ options \subseteq Device /\ device \in options \cup {None} /\ range \in Range
    /\ edits \in [Device -> 0..MaxClicks] /\ finished \subseteq 1..MaxClicks

\* Nothing is awaited, and nothing ever was when the admin clicked.
Settled == reqs = EmptyBag /\ ~overlapped

\* The server never refuses a Delete because the device is not revoked, however
\* old the table the button was clicked in (app.js:196-204).
DeleteNeverRefused ==
    \A r \in BagToSet(reqs) : r.op = "delete" => r.status # "conflict"

\* To an admin who waits for answers the page is current, unless a failure was
\* reported or the data was changed since by another admin, or by a request served
\* after the page had given it up: a table shows what the server holds, no row is
\* left in a rename that is done, and the charts are of the device and range the
\* selectors show (app.js:45-53, 153-479).
PageIsCurrent ==
    Settled =>
        /\ \A t \in Tables \ behind :
              shown[t] # None =>
                  shown[t] = CASE t = "devices" -> devices [] t = "rules" -> rules
                               [] t = "keys" -> keys
        /\ "devices" \notin behind => \A d \in Device : edits[d] \notin finished
        /\ "charts" \notin behind /\ charts # None =>
              charts.device = device /\ charts.range = range

\* However clicks and answers overlap, the secret of a device or key reported as
\* created was on the screen until the admin closed it, unless the admin asked for
\* another one before: nothing else hides or overwrites it (app.js:127-132,
\* admin_api.go:35).
SecretsAreSeen == ~hasty => created \subseteq seen \cup {modal}

\* The view tells whether there is a session, but for one that ended elsewhere or
\* a failure.
ViewMatchesSession ==
    Settled /\ "session" \notin behind => (view = "app" <=> cookie \in sessions)

\* When the page reports a rule as saved and applied, the rule says so and every
\* stored heartbeat of the applications it matches is of its category, unless
\* clicks overlapped or another admin, a request given up before or a batch came
\* between (admin_api.go:155-183).
RuleIsApplied ==
    \A r \in InFlight("answered") :
        r.op = "saveRule" /\ r.apply /\ r.status = "ok" /\ ~overlapped /\ "history" \notin behind =>
            /\ rules[r.item] = r.value
            /\ \A a \in Matches[r.item] : history[a] \subseteq {r.value}
=============================================================================
