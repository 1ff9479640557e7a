# ScrewLogger verification

TLA+ specifications of ScrewLogger, a usage monitor for Windows PCs: an agent samples the
foreground application and the user's idleness, buffers heartbeats on disk and ships them to a
LAN server, which stores them, computes dwell times and shows them. The modules here model the
parts in which order, failure and concurrency decide whether the numbers are right; TLC checks
them on small instances and TLAPS proves the main results for every instance.

All paths are relative to the repository; `agent/` is `src/internal/agent/` and `server/` is
`src/internal/server/`.

## 1. The system

    watcher (user session) --pipe--> service (SYSTEM): pipe server -> samples channel -> agent
                                     spawner launches watchers, grants them the pipe
    agent: builder -> categorizer -> buffer (JSONL file) -> shipper --HTTP--> server: ingest -> SQLite
    admin and query APIs, dashboard -> SQLite

| component | state | operations | talks to |
|---|---|---|---|
| buffer (`agent/buffer.go`) | the file, its descriptor, `ackedOff`, `size` | OpenBuffer, Append, Unacked, Ack, rewrite, rotateIfFull | agent and shipper, both under `Agent.mu` |
| agent (`agent/agent.go`) | `mu`, the flush timer | Observe, Run, RunSamples, shipLoop | builder, buffer, shipper; the samples channel (capacity 128) |
| shipper (`agent/shipper.go`) | the failure count | Flush, NextInterval | buffer; `POST /v1/ingest` |
| heartbeat builder (`agent/heartbeat.go`) | the current reading, the time of the last heartbeat | Observe | agent |
| categorizer (`agent/categorize.go`) | the rules read at start | Categorize | agent |
| pipe server (`agent/pipe_windows.go`) | DACL, pending instance, client, flags | Serve, readClient, EnsureSDDL, dropPendingLocked | watchers; the spawner; the samples channel |
| spawner (`agent/spawn_windows.go`) | backoff ladder, one poke | Run, Poke, reconcile | Windows sessions and tokens; pipe server; watcher processes |
| watcher (`agent/watcher_windows.go`) | its connection | RunWatcher, dialRetry | the console session; the pipe |
| service (`agent/service_windows.go`, `install_windows.go`) | SCM state | Execute, RunService; Install, Uninstall, Upgrade | all of the agent |
| event log sink (`agent/eventlog_windows.go`) | a partial line | Write | the Windows event log |
| store (`server/store.go`) | devices, heartbeats, rules, API keys | one transaction or statement each | every handler |
| ingest (`server/ingest.go`) | per request | IngestHandler | store |
| admin API (`server/admin_api.go`, `rules.go`, `apikeys.go`) | none | enrol, revoke, delete, rename, list; rules with re-mapping; keys | store |
| admin sessions (`server/admin_auth.go`) | tokens in memory | Login, Logout, RequireAdmin | every admin call |
| queries (`server/query.go`, `query_api.go`) | none | DwellUsage, ActiveRatio, ListEvents | store |
| the admin's page (`server/web/app.js`, `index.html`) | view, panel, tables, inline renames, the modal, selectors, charts; the browser's cookie | bootstrap, login, logout, loads, changes, renderDashboards with its own hourly buckets | admin API, by requests that are not serialised |

What is hard, and what correctness means:

- **Delivery.** Two goroutines share a file whose offsets live in memory; the mutex that protects
  them is held across a network round trip; the process may stop anywhere; a request that timed
  out may still be served. No heartbeat may be lost but by the documented overflow, an ack may
  only name lines the server has, and the server must not show gaps.
- **Sampling.** A flush can stall the consumer of samples for the HTTP timeout, which is exactly
  the gap the server counts as absence.
- **The pipe.** An account change must cut off the old account's client and its pending instance,
  while a connect is asynchronous, cancels may come too early, and kernel handles are reused.
- **Sessions.** Users switch; watchers pause, die and are launched again; the spawner sees only
  whether somebody is attached. The user at the console must end up watched, others not.
- **Enrolment.** A request resolves its token and inserts later; the device may be revoked and
  deleted in between. Deleted history must not come back and a 200 must be true.
- **Queries.** One SQL expression joins window edges, equal timestamps, the gap cap and devices,
  over rows that arrive late and are re-mapped or deleted; the page computes the same time a
  second way. No second may be counted twice, and the two must agree.
- **The admin's page.** Every click starts a request, nothing orders the answers, some never come,
  other admins change the data, the session ends. A button acts on what the server holds and not on
  what its row showed; secrets are shown once.
- **Lifecycle.** Stop, restart and upgrade of the service; only what they do to buffer, pipe and
  watchers is modelled (section 5).

## 2. The modules

| module | models | uses |
|---|---|---|
| `Buffer` | the buffer: file, offsets, every outcome of every operation | |
| `Delivery` | `Agent.Observe`, `shipLoop`, `Flush`, the network, ingest's insert; restarts | extends `Buffer` |
| `Outbox` | what the pipeline promises: accept, store in order, prune the old end | refined by `Delivery` |
| `Sampling` | builder, samples channel, the flush that stalls them, timers | |
| `SamplePipe` | what the pipe promises: one attached watcher, of the granted account | |
| `PipeServer` | Serve, its connect goroutines, readers, EnsureSDDL, the kernel's instances | refines `SamplePipe` |
| `Sessions` | console, spawner, watchers | extends `SamplePipe` |
| `Enrollment` | devices, revocation, deletion, concurrent ingest requests | |
| `Dwell` | the window query, event lists and the page's hourly timeline, as operators | |
| `Reports` | the heartbeats table under the reports: inserts, re-mapping, deletion | extends `Dwell` |
| `AdminAPI` | sessions, devices, rules, keys and reports, one action for each handler | |
| `AdminPage` | the page of one admin: clicks and callbacks | extends `AdminAPI` |
| `Idle` | the idle time of a sample, from a tick counter that wraps around, as operators | |
| `Delivery_proofs`, `PipeServer_proofs`, `Sessions_proofs`, `Enrollment_proofs`, `Reports_proofs`, `AdminPage_proofs` | theorems | extend their module |
| `Sampling_proofs` | theorems | extends `Sampling` and `Idle` |
| `AdminPageWaits_proofs` | theorems about an admin who waits | extends `AdminPage_proofs` |
| `MC...` | values for TLC | extend their module |

`Sessions` is composed with the pipe through `SamplePipe`: the steps of `PipeServer` are hidden
behind the promise it is shown to implement, so that the sessions need not be multiplied with the
accept loop. `Delivery` extends `Buffer`; its file-system outcomes are alternatives of one step
because every operation runs under `Agent.mu`. `AdminPage` extends `AdminAPI`, and the bag of
requests under way is all they share, as HTTP is in the code.

`Enrollment` and `AdminAPI` both have the device handlers, for different questions: the first
against agents' requests that interleave between a token check and an insert, the second against
pages that are out of date.

### Buffer and Delivery

State: `file` is the sequence of lines; `ackedOff`, `size`, `fdOpen` are the fields of `Buffer`;
`mu`, `sent`, `served` describe the mutex and the request in flight; `late` holds the batches of
requests the agent stopped waiting for; `rows` is the table. `recorded` and `dropped` are history.

| code | actions |
|---|---|
| `Agent.Observe` with `Append` | `Observe`, `ObserveUnsynced`, `ObserveWriteFails`, `ObserveRotationFails`, `ObserveRefused` |
| `Shipper.Flush` | `FlushStart`, then `FlushAck`, `FlushAckFails` or `FlushFails` |
| `IngestHandler`, `InsertHeartbeats` | `IngestCommit`, `IngestReject`, and for abandoned requests `IngestLate` |
| process death, `New`, `OpenBuffer` | `Crash`, `CrashInObserve` |

Abstractions: a line has length one, so the limit and the offsets count lines; a heartbeat is its
number; a write cut between the text and the newline counts as whole; a completed rename is
durable; a line whose fsync failed is still in the file after a restart, which kills the
process and not the machine's page cache.
Unlike the code's byte counts, a fragment adds nothing to any offset; offsets never point into one.

### Sampling

Time is in whole units; a watcher sends a sample each unit. The channel, the builder's fields, the
waiting consumer, the flush and its timer are the state. The clock waits for whatever is prompt in
the code: a sample in an idle consumer, a freed mutex, a flush at its timeout. A flush may end at
any time up to the timeout.

### PipeServer and SamplePipe

One action is one critical section under `PipeServer.mu` or one system call. `inst` is the kernel's
table of pipe instances, whose handles are reused after a close; `file` the `os.File` of each
reader; `cg` and `result` the connect goroutine and its channel; `evict` a caller asleep in
`dropPendingLocked`. The account in the DACL stands for the SDDL string. What the kernel does with
a handle is external to the repository and modelled from its use: an instance accepts one client
that the DACL admits, a cancel completes an issued connect with an error, a close cuts the peer off.

### Sessions

An account stands for its session. `reconcile` is split where other goroutines can interleave:
before the token, after it, and at the check of the pipe. The backoff is on or off. A watcher
dials, is connected, or holds a sample it is about to write. A launched watcher joins the service's
job object or, when that fails, runs without (`orphans`). `Restart` ends the service process and
starts it again: the job object takes its watchers along, the orphans dial the new service's pipe.

### Enrollment

A transaction or a single statement is one action, as SQLite serialises writers. A device stands
for its random ID and token, used once. Requests carry any device's token, any batch, and are in
one of three places: before the token check, between it and the insert, answered.

### Dwell and Reports

`Secs` is the SQL expression for one row, `Gap` the page's for one event; the sums over partitions,
groups and hours follow the queries and `bucketByHour`. SQL leaves the order of equal timestamps
open, so what is said of a query is said of every order it may take, and the page's list takes one
of its own. A column has a value from a small set. `Reports` is the table: `InsertHeartbeats` adds
a row at any time after its timestamp, `Recategorize` re-maps what a pattern matches, `DeleteDevice`
takes a device's rows. A query changes nothing and appears in the properties, over every window.

### AdminAPI and AdminPage

`reqs` is the bag of requests the page awaits: sent, half done (a rule whose history is still to be
re-mapped), or answered. Each `Handle...` of `AdminAPI` answers one, `StorageError` and `NetworkError`
end one otherwise. A failed `fetch` ends only the page's wait (`app.js:50`): the handlers pass no
request context to the store, so a write that was not served yet, or but half, moves to `unheard`,
from where it may be served at any later time, or never. `Elsewhere` is an expiry or a restart of the
server, a request of another admin of any kind that writes, served by the same handlers under the
session `Other`, and a device's batch. Another admin's `apply_to_history` goes through `unheard`, so that
its second statement comes later. `Matches` gives the applications of a pattern, and patterns may
overlap: `Remapped` rewrites whatever matches, whosever rule it was.

In `AdminPage` an action with the name of a function of app.js is its part up to the call of `api()`, and
`On...`, or `Draw...` for a table, what it does with the answer. `shown` is the tables' content, `edits`
and `finished` the inline renames and the `done` of their closures, `charts` what the charts were drawn
for. The modal's backdrop stops the mouse only: `showSecret` moves no focus and nothing behind it is
inert, so with Enter and Tab every form and button can be used while a secret is shown, and no click
needs the modal closed.

Abstractions: a device stands for its ID and its token, a key for its secret, a pattern for its
text and the applications it matches, the heartbeats of an application for the categories they have;
the check of the session and the statement are one step; an error says which of 401, 409 and
the rest it is, as the page looks at nothing more. The four requests of one drawing are one, whose
answer is "partial" when one of the last three failed, since the page looks at the first one's
status only. The fields of the forms are any value; Edit and Cancel of a rule fill them and are not
actions. A failed `fetch` has read no header, so it has set no cookie; a list or report that was given
up changes nothing and is dropped; a page is loaded once.

History variables. `overlapped` says that a click ever came while an answer was awaited. `hasty` says
that a device or key was ever asked for while another was, or while a secret was on the screen. `behind`
names what may be out of date: what a reported failure left open, until it is loaded again, and what was
changed by another admin, a batch, or a request the page had given up. A late write puts the name back
in although a reload had taken it out.

Most properties of the page are about an admin who waits for answers (`Settled`). For one who does not,
the code makes no such promise: two loads may be drawn in either order. `SecretsAreSeen` needs no waiting:
it says that a hasty second create is the only way to lose a secret the page was given. `DeleteNeverRefused`
holds for any page.

## 3. What the runs show

| run | module, bounds | shows |
|---|---|---|
| `delivery_safety` | 5 heartbeats, limit 2, batches of 2, two faults of any kind, one restart | `NothingLost`, `AckedPrefixStored`, `InOrder`, `CapInFirstRun`, `DropsOldestFirst`, and that the pipeline implements `Outbox` |
| `delivery_liveness` | 4 heartbeats, limit 1, one recoverable fault, one restart; fairness | `Drains`: every recorded heartbeat reaches the server or overflows |
| `delivery_torn` | one restart, cut writes | finding: `Shippable` fails |
| `delivery_stuck` | one failing rename | finding: `Drains` fails |
| `sampling_safety` | 15/30/60 s as 2/4/8 units, channel of 6, 26 units | `NoFalseAbsence`, `NothingDropped`, `LateByOneFlush` |
| `pipe_safety` | 2 accounts, 3 watchers, 3 handles, 2 readers, 2 exits, give-up allowed | `ClientIsCurrent`, `OnlyClientPublishes`, `PendingIsAwaited`, `HandlesOwned`, implements `SamplePipe` |
| `pipe_eviction` | 2 watchers, 2 handles, no give-up; fairness | `NoStaleWait`, `EvictionEnds`, `Attaches` |
| `sessions` | 2 accounts, 3 watchers, 2 console changes, 2 kills, failed calls or service restarts; fairness | `Watched`, `OneStraySample` |
| `sessions_duplicates` | the same | finding: `DuplicatesExit` fails |
| `enrollment` | 2 devices, 2 heartbeats, 2 requests, symmetric | `DeletedForGood`, `RevokedIsRefused`, `OKMeansStored`, `RowsStay` |
| `reports` | 2 devices, 3 heartbeats, 2 applications and categories, 4 timestamps, cap 2, hours of 2, lists of 2 events | `DwellIsCoverage`, `TimelineAgrees`, `CutsLoseOneGap`, `OnlyDeletionTakesTime` |
| `admin_page` | 2 devices, names, categories, sessions and ranges, 2 patterns that match one application, 1 key; 3 clicks, 2 requests in flight, 1 mishap | `DeleteNeverRefused`, `PageIsCurrent`, `SecretsAreSeen`, `ViewMatchesSession`, `RuleIsApplied` |

Why the bounds suffice. Five heartbeats fill a buffer of limit 2, overflow it, have a batch acked
and compacted and another in flight; two faults and a restart give every pair of failures around
those. `delivery_liveness` is smaller because a behaviour has to be checked against every suffix. In
`Sampling`, 26 units see three flushes, each ending anywhere from at once to the timeout, and the
proofs cover the code's own numbers. Three handles are Serve's local, the client's and one being
closed; two readers are the client's and a predecessor's. Two console changes are a logon and a
switch, or a switch and back; two faults are enough for a watcher outside the job object to outlive
a service restart, and one account with two slots for a duplicate. Two requests race for one row,
and two devices contend for it. In `reports` three heartbeats are a row, its successor and one that
arrives between or beside them, of the same device or another; windows of every length up to 4 meet
gaps below, at and beyond the cap, the hour's edge and the limit. In `admin_page` three clicks open,
change and act on a table, two requests overlap, two creates meet, and one mishap is enough for a
failure and what its request still does after it, or for one write of somebody else; `MCInit`
starts from a store with one thing at most, since those are the stores that tell a missing row from
one left over, and from the range that `index.html` selects. The proofs cover any number of these. Deadlock checking is off where a bounded counter or a stopped service ends the run,
and on in `Enrollment`, which never stops.

### Fairness

- `Delivery`: the shipping loop and its timer run for ever, the client timeout ends every attempt
  (weak fairness of `FlushStart`, `FlushFails`); a server that is reached again and again serves
  and its answers arrive some time (strong fairness of `IngestCommit`, `FlushAck`). Nothing forces a
  fault, a restart, a rejection or a new heartbeat, and none is assumed to stop but by the bounds.
- `PipeServer`: goroutines are scheduled; `CreateNamedPipe`, `CreateEvent` and `ConnectNamedPipe`
  succeed some time when repeated for ever; a watcher that is not attached keeps dialing, as
  `dialRetry` and the spawner's replacements do. `pipe_eviction` assumes that one of the hundred
  cancels, 5 ms apart, finds the connect issued.
- `Sessions`: the spawner's ticker and loop run, a backoff ends, watchers tick, and the SCM delivers
  its events. Weak fairness throughout.

### Findings

Each is a run in which TLC shows the code doing other than a document says.

1. `delivery_torn`. A restart inside a write leaves half a line. The next append runs into it, and is
   reported as recorded; that line never parses and every flush that reaches it fails
   (`agent/buffer.go:45`).
2. `delivery_stuck`. A rewrite closes the descriptor before the rename; when the rename or the reopen fails,
   every later operation fails until the process restarts (`agent/buffer.go:141`).
3. `sessions_duplicates`. Two watchers of one account take the pipe from each other for ever; the
   design says the stale one exits on its write failure (`agent/watcher_windows.go:82`).

### Limits

Some things a reader may expect do not hold, and the properties are stated accordingly. `OpenBuffer` sets the acked offset and the size to zero (`agent/buffer.go:32`, comments
at :24 and :35), so after a restart the limit ignores what the file already holds: `CapInFirstRun`
speaks of runs without one. A sample that queued behind a flush is stamped when it leaves the
channel (`agent/heartbeat.go:29`; `protocol/protocol.go:17` calls the stamp the event's time):
`LateByOneFlush` says by how much it may be late.

Of the page and its API three more. Overlapping clicks start loads whose answers come in any order, and an
older list may be drawn last (`server/web/app.js:153`); only `DeleteNeverRefused` is said of such a
page. A second create replaces the first secret in the one modal (`server/web/app.js:130`): two in
flight, or one sent by keyboard while the first is shown. A rule and its history are two statements
(`server/admin_api.go:173`): two admins, a request given up before, or a batch between them leave rows
that disagree with the rule, and a batch that comes later does so anyway, as devices categorise by
themselves. `RuleIsApplied` says what is left when none of these comes between.

## 4. What is proved

TLAPS checks these for every value of the constants that the `ASSUME`s admit. The assumptions are
types: limits are naturals, batch and gap sizes positive, `None` is no device, key or token,
`Device` is finite in `Reports`, and in `Sampling` `KeepAlive` and `HTTPTimeout` are at most
`MaxGap` as in the code (15 and 30 against 30).

**Delivery_proofs.** `TypeCorrect`, `NoLoss`, `AcksAreTrue`, `NoGaps`, `OldestDroppedFirst`,
`Implements`. They rest on `Invariance`: `IInv` adds to the checked invariants what makes them
inductive. `GoodFile`: lines are in order of emission, all older than `next`, and a fragment is
last and of no recorded heartbeat; without it a rotation might drop a young line or a write
swallow a recorded one. `SentIsPrefix`: the request in flight names the lines after the acked
prefix, so that acking its length acks exactly it; this is what the mutex across the round trip
buys. `SentStored`: a 200 means the rows are there. `LateClosed`: an abandoned batch leaves no gap
if it is served at any later time, because whatever preceded it in the file was stored, dropped or
is in it. `InOrder` is not preserved by `IngestLate` without it.

`PromiseHasNoGaps` is about `Outbox` itself: all that it allows keeps `InOrder`, so the refinement is
to a specification strong enough to matter.

`FirstRunKeepsCap` (`CapInFirstRun`) adds `SizeCounts`: until a restart `size` counts the whole
lines of the file, and a rotation leaves room for the line that asked for it. It assumes a limit of
a line or more: a rotation of a single line keeps it, so a limit of none is exceeded.

**PipeServer_proofs.** `ClientCurrent`, `OneReader`, `PendingAwaited`, `OneHolder`, `WaitsFresh` and
the refinement, `PipeKeepsPromise`, for any number of accounts, watchers, handles and readers. The
invariant `IInv` adds, in the order in which one needs the other: `ServeOK`, which of the local
handle, `pending`, the connect goroutine and its result there are, by where Serve is; `FilesOK`, that
a reader's file names an open instance connected to its watcher until somebody shuts it;
`InstancesOK`, that the kernel connects only whom the descriptor admits; and `HandlesOwned`, without
which a close could take the instance of someone else who was given the same number. `FreshOK` is the
argument about a grant that comes while Serve is busy: an instance made for another account is known
to be stale (`dirty`), and while Serve waits on it an eviction is under way. An adopted client is then
always one that the granted account's descriptor admitted, and every step of `PipeServer` moves
`granted` and `attached` as `SamplePipe` does or leaves them. `WaitsFresh` assumes that evictions do
not give up; the others do not.

**Sessions_proofs.** `TypeCorrect` and `OneStray` (`OneStraySample`). The invariant adds
`StrayPaused`: a watcher that was heard off the console is past its write, and takes no other sample
before the check of its session says that it is back.

`GrantsHold` is a second invariant, on what composes spawner and pipe: a reconcile past `EnsureSDDL`
has the pipe granted to its account, and the attached watcher is of the granted account. It gives two
action properties that no run needs to check: `ShortcutIsSafe`, that "a watcher is attached" never
means the previous console user's, which is why `EnsureSDDL` comes before `Connected` on every
reconcile (`agent/spawn_windows.go:134`), and `HeardIsGranted`, that nobody else's sample gets
through.

**Sampling_proofs.** `Covered` (`NoFalseAbsence`) and `AllHeard` (`NothingDropped`). A consumer
blocked by a flush waits for that flush alone, since a flush ends by its timeout and the next is at
least a backoff away, in which the backlog drains; so the last heartbeat is at most the larger
of keep-alive and timeout old, and the backlog holds one sample per unit of one flush.

`StampsAreNearlyTrue` (`LateByOneFlush`) adds `Fresh`: while a flush lasts, every sample in
the backlog came after it began, and no two flushes follow each other without the backlog draining.

`IdleIsElapsed` is about what a sample is made from: two readings of a counter of any width that are
less than a turn apart differ by the time between them or by a turn less, and the two branches of
`IdleFromTickCount` tell which. `Idle` has no state and no run; this theorem is its only check.

**Enrollment_proofs.** `NoRevenants`, `RevocationHolds`, `AnswersAreTrue`, `RowsAreKept`. The
invariant adds that a request past the token check names a device that exists or existed, and that
one which came after the revocation names a device that is revoked or deleted, which no step undoes.

**AdminPage_proofs.** `TypeCorrect` and `DeleteIsTaken` (`DeleteNeverRefused`), for any number of
devices, clicks and requests in flight. `Inv` says of every list of devices, on its way to the page
or on the screen: a device it shows as revoked or deleted is so now, and stays so (`Lasts`). A
Delete button is in a row that shows a revoked device, so the request names one that is revoked or
deleted whenever it is served, and gets 200 or 404 but no 409. The rest of `Inv`, what each
operation's request carries and its answer may be, awaited or not, is what makes the types inductive.

**AdminPageWaits_proofs.** `CurrentPage`, `SecretsShown`, `ViewTellsSession`, `RuleApplied`, for any number
of devices, rules, keys, clicks and mishaps, and any patterns.

Three are about an admin who waits. `Waiting` holds until a click comes while an answer is awaited.
`Alone`: one request at most is awaited. A server step is then that request moving on or one nobody
awaits being served (`ServerMoves`), and a callback replaces the request by what it asks for next. The
other parts say what is true at each stage of the awaited request: `TableOK`, that a table shows what is stored
except from the moment the server has written until the reload is drawn, and that the reload's answer
is what is stored; `EditsOK`, the same for a rename that is done but whose row is still open; `ChartsOK`,
that an outstanding report is for what the selectors show; `RuleOK`, that a rule half saved is the one
stored, and its history all of its category once it is answered; `SessionOK`, which answers to bootstrap,
login and the rest tell truly whether there is a session; `LogoutsOK`, that a logout given up and not yet
served names a session the page has left, or is about to, or one it calls doubtful. What a request
that nobody awaits writes is in `behind` from that step on.

`SecretsShown` does not need the admin to wait. `Secrets` says that without a hasty create one create at
most is awaited, once in the bag, and with no secret on the screen (`LoneCreate`); so a callback that
shows a secret overwrites none. Its lemmas are about bags: what taking out one request leaves (`OneLess`,
`SomeMore`).

**Reports_proofs.** `TypeCorrect`, `DwellIsCoverageAlways`, `TimelineAgreesAlways`, `CutsAlways`,
`DeletionOnly` and `ChartsAlwaysAgree`, for any table of rows, window, cap, hour, limit and order
of rows of one timestamp. The argument turns every sum into a count:

1. *One row.* `Credit` is the interval of seconds a heartbeat is credited with, `Secs` its length.
   `CreditIsBounded`: it lies within the cap, the window and the next heartbeat.
   `CreditsAreDisjoint`: two of them never share a second. `CreditIsWhole`: nothing else is left out.
2. *One query.* The sum of the lengths of disjoint sets is the size of their union (`SumOfSizes`),
   so `SumSecs` and `DwellSeconds` count the seconds credited (`DwellCountsSeconds`).
3. *Coverage.* A second is credited exactly if it lies within the cap of a row of the device
   (`CoverOf`, by `CreditedIsCovered`), and to the latest row before it (`CreditedToLatest`).
   So the total does not depend on the order (`DwellIsCover`), which gives `DwellIsCoverage`.
4. *Consequences.* `CoverOf` grows with the rows: `DeletionOnly`. A cut at `m` leaves two disjoint
   covers that miss only seconds from `m` to a cap later: `CutsAlways`. The buckets of the timeline
   are disjoint parts of one list's credits, each covered by a row: `TimelineAgreesAlways`, where
   `TimelineCountsAlike` says that page and server count one device's heartbeat alike. The seconds
   by application, by category and by activity are each a partition of the cover, whatever order
   each of the queries reads the rows in: `ChartsAlwaysAgree`, which no run needs to check.

`RowsOK` is the inductive invariant: the rows have their types and are finitely many, for sizes and
sums mean something of finite sets only. `IsFiniteSet(Device)` is assumed for the selection of all
devices, of which `CutsLoseOneGap` takes the size; the store has as many as an admin enrolled.
`Total` asks for one order by `CHOOSE`; point 3 makes its choice irrelevant (`TimeIsCover`), once
there is an order to choose (`OrderExists`).

`MapThenSumSet` is defined by a recursive function chosen over the subsets of its set, and the
library's induction over finite sets takes an operator as a parameter, which the provers cannot
instantiate. Each induction here is a smallest counterexample instead: the strict subsets of a
finite set are well founded, so a set of subsets that violate a claim has a least member
(`SmallestSet`), and the claim for its proper subsets refutes it. `SumExists`, `SumsAgree` and
`SumStep` recover the recursion that `CHOOSE` hides, `SumOfSizes`, `Highest` and `OrderExists`
use it.

Only model-checked: `Drains`, `EvictionEnds`, `Attaches` and `Watched`, since liveness under fairness
is beyond TLAPS. Every other property that a passing run checks is a theorem for all constants
(`NoStaleWait` without give-up, `CapInFirstRun` with a limit of a line or more).

## 5. What is not modelled

- Strings, JSON, UUIDs, hashing, logging and the event log: data no property looks into.
- Win32 calls beyond their outcome: what `CreateProcessAsUser` or a job object does inside Windows.
- Routing, CORS, the API-key guard of `/api/v1` and the parsing of query parameters: they read and
  change nothing, and answer 400, 401 or 403.
- Of the page: formatting, the look of rows and charts, the copy button, validation of empty
  fields, which returns before anything is sent, and reloading in the browser, which is a new page.
  `web/chart.umd.js` is vendored.
- What the kernel does to a wait on a handle that Serve closes while the service is stopping
  (`agent/pipe_windows.go:202`).
- The service's own life: the SCM's states, the 10 s after which a stop is reported whatever the agent
  does, the SCM's restart delays, install, uninstall and upgrade. Each is a straight sequence of calls
  that ends at the first error, and nothing else runs beside it in this code; what matters to the rest, a
  process that ends anywhere and starts again, is in `Delivery` (`Crash`), `PipeServer` (`Stop`) and
  `Sessions` (`Restart`).
- The durations of the spawner's ladder (1, 5, 30 s) against its ticker of 30 s. In `Sessions` a backoff
  may end at any time after it begins, which is every rounding the two can have.
- The categorizer and the server's rule matching: both compare strings. A rule's effect on the history
  is in `Reports` and `AdminAPI`.

## 6. Plan

Done, in this order: delivery; sampling; pipe and sessions; enrolment; reports; the admin's page; the
proofs, ending with the pipe's refinement, the page of an admin who waits and the sums of the
reports. Left:

1. An abstract specification of the page (a list that is current whenever nothing is awaited) that also
   speaks of admins who do not wait, once the code orders its answers; two pages side by side, of which
   `OtherAdmin` is now the second one's requests.
2. The safety half of the liveness properties: that no step of `Delivery` or `PipeServer` undoes
   progress (an acked prefix shrinks only by a restart, an eviction's attempts only go down), which
   TLAPS can state as action properties while TLC keeps the fair halves.
