# Argus, verified

TLA+ specifications, TLC runs and TLAPS proofs for Argus: an agent that collects
metrics, logs, container state and events on a Docker host, a hub that stores
them in Postgres, watches its agents and raises alerts, and a web panel that shows
them.

- `*.tla` without a prefix: one component each, or a composition of components.
- `MC*.tla` and `*.cfg`: the small instances TLC checks.
- `*Proofs.tla`: theorems for every value of the constants, checked by TLAPS.
- `PROJECT.json`: components, runs, hazards, theorems, and the source lines behind
  every definition.

Run `tlc -workers 2 -config <run>.cfg <module>` or `tlapm <module>Proofs.tla`.

## Inventory

### Agent (`cmd/agent`, `internal/agent`)

| Part | State | Operations | What makes it correct |
|---|---|---|---|
| Transport (`client.go`, `retry.go`) | `batchMu`, attempts of the running post | `sendBatch`, `drain`, `post`, `postOnce` | a batch is forgotten only when the hub has it, has refused it, or a named loss occurs; every call returns |
| Spool (`buffer.go`) | a directory of numbered files, kept over restarts | `Put`, `Front`, `Remove`, `makeRoom` | a FIFO queue within a byte limit; a file being replayed is not replaced |
| Process (`main.go`) | five loops with deadlines, one shared client | collect, send, heartbeat; SIGTERM ends `main` without waiting for the others | a slow loop does not lose another's batches |
| Event stream (`docker/events.go`) | `since` | follow, emit, restart after an error | events are not skipped when a stream is followed again |
| Log collector (`docker/logs.go`) | a watermark per container | tail, drop what is not newer, join lines | a line is sent once |
| Kernel flows (`kernel/flow.go`) | the previous counters | `Delta.Apply`, `BuildSample` | a connection seen by both of its ends is counted once |
| Metrics and fleet collectors | none | Docker API requests | arithmetic on what Docker returns |

### Hub (`cmd/hub`, `internal/hub`, `internal/store/postgres`, `internal/rules`, `internal/slo`)

| Part | State | Operations | What makes it correct |
|---|---|---|---|
| Ingest (`server.go`, `batch.go`) | slots, `ingest_batches`, open transactions | `ingest`, `applyIngest`, `ApplyBatch`, the batch handlers | a batch is stored whole and once; a 202 is given for stored batches only; every request ends |
| Pattern worker (`server.go`) | `patternQueue`, capacity 64 | `patternWorker` | no batch is counted twice |
| Presence (`server.go`) | the agents table, `staleAgents` | register, heartbeat, `staleLoop` | a dead agent is announced, a living one is cleared, one reconnect per disconnect |
| Rule engine (`engine.go`) | trackers, active alerts, `workload_latest` | `Evaluate` every tick | alerts fire after the duration, once, and resolve; the active list and the events agree |
| Pressure alerts, SLOs | last alert per key | `maybeAlert`, `Evaluate` | one alert per period |
| Retention (`retention.go`, `purge.go`) | the `purging` flag | `runPurge` | one purge at a time; only old rows go |
| Fleet (`fleet.go`) | one table | delete all, insert all | the table is one batch's rows |
| Patterns, traces, topology, groups, queries | tables | upserts and reads | aggregates agree with the rows |
| Bus (`bus.go`) | subscribers | `Publish` calls them in turn | the event is stored before `Publish` returns, or lost |

### Web panel (`web/src`)

A page has three kinds of state: the query string of its address, the state of its
components, and the requests it waits for. The hub keeps the groups, the browser the
saved views. Everything else is drawn from these.

| Part | State | Operations | What makes it correct |
|---|---|---|---|
| Router, query state (`App.tsx`, `use-query-state.ts`) | the address | open, follow a link, redirect an old address, patch | a patch sets what it names and leaves the rest; an old address keeps its filters |
| Pages in lists (`page.ts`, `list-pager.tsx`) | `page` of the address | cut, clamp, go to a page, reset with the filters | a page that is shown exists, and has rows if there are any |
| Overview | one load of five calls on a timer | load, cards, attention list | it says that nothing needs action only when it was told so |
| Problems | tab; now, objectives, history | three loads, each on a timer | the tab shows its own filters' rows; no calm without an answer or an error |
| Containers and the groups sheet | workloads, status, members of the group, saved groups | load on a timer, select a group, import, create, remove | rows are the group's; the sheet lists what the hub saved |
| Metrics | series, list of containers, members, saved views | load and cancel, choose a container by itself, save and apply views | charts are of the container and range in the address; there is a choice if one can be made |
| Logs | lines or patterns | load on a timer, filters, forms, pages | rows are of the filters in the address |
| Traces | list, or detail | load the list; load and cancel the detail | the detail is of the trace in the address |
| Topology | graph, four signals, generation | one load of five calls, focus, search | nothing of an earlier load is taken for the current one; health is the worst signal |

The application transports (`transports/`), the build and the documentation are the
rest of the repository.

### How the parts interact

The agent's loops call the client, which talks HTTP to the hub's handlers; a
request may be lost, an answer may be lost, and a handler whose client has given
up goes on. Handlers and loops of the hub meet in the database (row locks,
transactions), in maps under mutexes (`staleAgents`, `lastAlert`, the engine's
maps) and in one channel (`patternQueue`). `bus.Publish` is a call: the event is
written by the goroutine that publishes it.

The panel asks the hub over HTTP and gets answers in any order, or failures. React
makes the effects of one event, an answer or a click, one step: it renders, cancels
what the old effects had in flight and starts the new ones before the next event. A
page that is left is unmounted, and what it waits for reaches nobody. Pages talk to
each other by links only.

What is hard: the same batch in several requests at once; timeouts on one side
while the other goes on; a mutex held over retries and file operations; a file
order recomputed from what is left; reads followed by steps that rely on them;
three records of one fact (fired flag, active list, event); kills and restarts of
either process. In the panel: answers that come late, for a filter, a trace or a group
the user has left; loads that are cancelled in some pages and not in others; choices a
page makes by itself while lists and addresses change. `PROJECT.json` lists these hazards at their lines.

## Modules

```
Spool ── AgentClient ── AgentQueue ──(implements)── BatchQueue
             │  └─ AgentClientProofs
             └── Telemetry ──┐   (Agent!, Hub! INSTANCEs) ── TelemetryProofs
HubIngest ───────────────────┘
   │  ├─(implements)── BatchStore
   │  └─ HubIngestProofs
AgentPresence ── AgentPresenceProofs
RuleEngine ── RuleEngineProofs

QueryState
   ├── Requests ── LogsPage, TracesPage, ProblemsPage, MetricsPage, OverviewPage,
   │               ContainersPage ── GroupsPanel
   ├── TopologyPage ── TopologyProofs
   └── Panel (an INSTANCE of each page) ── PanelQueueProofs ── PanelProofs
```

### Spool, AgentClient

`Spool` has the decisions of `buffer.go` as operators over a directory, a function
from file numbers to batches: the oldest name, the next name, whether there is
room. `AgentClient` is the goroutines around it. Each sender has a place in
`sendBatch` (`pc`), its batch, the state of its caller's context, and while it
replays an item with a context of its own.

| Code | Actions |
|---|---|
| `SendMetrics`, `SendLogs`, ... from a loop of `main.go` | `Begin` |
| `batchMu.Lock`, the deferred `Unlock` | `Lock`, `Return` |
| `drain` with `Front` and `Remove` | `DrainEmpty`, `DrainFront`, `DrainCorrupt`, `DrainUnreadable`, `RemoveItem`, `RemoveFails` |
| `post`, `postOnce`, `retryable` | `Attempt`, `AnswerOK`, `AnswerRefused`, `AnswerTransient`, `AnswerCancelled`, `GiveUp`, `GiveUpCancelled`, `Expire` |
| `Put` with `makeRoom` | `PutDropOldest`, `PutFile`, `PutFails` |
| SIGTERM, the return of `main`, SIGKILL or power loss | `Stop`, `Exit`, `Kill` |

Every file operation and every exchange is a step, so a kill falls between any two.
`DiskFaults` lets reads, removals and writes fail, `PowerLoss` leaves files without
their content. `makeRoom` keeps a running total; here the total is that of the files left,
the same as long as its subtractions are right. Not in the model: the text of a batch, the
times of the backoff (an attempt may start at any moment), temporary files (no listing
shows them), and a client without a buffer directory, which is the same `post` without a
spool. What the hub answers is open here.

`BatchQueue` is the promise of the spool, a bounded FIFO queue; `AgentQueue` shows
that the directory in the order of its names implements it.

### HubIngest

Each request is a handler: waiting for a slot, decoding, at the INSERT of its id,
in the writes of `fn`, at the commit, past it, answering. `claimed` and `copies` are
the committed database; the effect of an open transaction is the handler's place
and shows at `Commit` only. `HoldsClaim` is the row lock that makes another INSERT
of the same id wait. A batch of logs makes two writes (its rows and the derived
metrics), any other one. A batch without an id writes outside a transaction of its
own, as `ApplyBatch` does. The hub can lose its connection while it commits
(`CommitUnknown`), any statement can fail, clients hang up, the process crashes.
`BatchStore` is the promise: accept a batch whole, once; follow it at most once.

### Telemetry

`AgentClient` and `HubIngest` by INSTANCE over the same variables. An exchange is
`wire[s]`, the request that carries it. `Send` starts one or loses it, `Receive`
sorts the hub's status into the agent's answers, `NoAnswer` ends the exchange at the
agent alone and leaves the handler behind. Each side can die without the other.

### AgentPresence

Register and heartbeat handlers in the steps between which others can run (the
row, the mark under `staleMu`, the publication) and `staleLoop` (the query, then per
agent the mark and the publication). Time is one question, whether `last_seen` is
older than `StaleAfter`. `FallSilent` makes it so; a handler that has touched the
row ends long before (milliseconds against two minutes). `answered` and `late` are
history variables: how many heartbeats have taken the mark since it was set, and
whether it was set while an event of before was still to be published. An event the
store does not take leaves "lost" in `last`.

### RuleEngine

`Evaluate` over `workload_latest`. Ages replace times and stop growing where the code
no longer tells them apart, so time can go on for ever. A sample has any age: a
spooled batch arrives late. Values are above or below the threshold; a workload
that is listed for one metric counts as zero in the other. The events are `told`, the
API's list is `active`; `below` is a history variable for one property.

### QueryState, Requests, ContainerState

`QueryState` has the patch of the address and the cutting of lists into pages.
`Requests` is what the page on screen waits for. An answer comes to any request of the
queue. A request of which a later one of its kind has been answered is `old`; when it
is answered all the same, its kind is `overtaken` until a newer answer arrives. The
code keeps no such record: `old` and `overtaken` only name the race, so that a property
can say what holds without it. `ContainerState` is `container-state.ts`.

### The pages

Each page has the operators its components compute (filters, requests, rows, links,
what is selected), `MountView` and `MountRequests` for a page that comes on screen,
one action per control the user has, `Poll` where there is a timer, `Cancelled` where
an effect cancels, and `Answer`. `Follow` is a change of the address with every effect
it has: the page number goes back to 1 if the filters changed, cancelled requests go,
and each effect whose dependencies changed sends its request. An answer is what the
hub may know at that moment, or a failure.

| Module | Code |
|---|---|
| `OverviewPage` | `pages/overview.tsx` |
| `ProblemsPage` | `pages/problems.tsx`, `views/problems-now.tsx`, `views/slo-list.tsx`, `views/event-history.tsx` |
| `ContainersPage`, `GroupsPanel` | `pages/containers.tsx`, `views/groups-panel.tsx`; the hub keeps the groups, and a call can fail before or after it was performed |
| `MetricsPage` | `pages/metrics.tsx`, `views/container-metrics.tsx`, `views/metric-compare.tsx`, the saved views of `lib/observability.ts` |
| `LogsPage` | `pages/logs.tsx` with its lines, `views/log-patterns.tsx` |
| `TracesPage` | `pages/traces.tsx` |
| `TopologyPage` | `pages/topology.tsx`, `lib/topology-view.ts`; requests are a set, told apart by their generation |

### Panel

`App.tsx` and the menu: the page of the address is mounted afresh, `Navigate` leaves
with nothing but the address, and each page's steps are one action. `Spec` is this
composition; its properties are those of the pages, while their page is on screen.

## Runs

| Run | Instance | Shows |
|---|---|---|
| `agent_client` | 2 senders, 3 batches of 1, 1 and 2 units, 2 units of room, 3 file numbers, 2 attempts, all faults | `ReplayedFileIsStable`, `DropsOnlyOldest`, `SpoolWithinLimit`; the spool implements `BatchQueue` (`SpoolIsQueue`) |
| `agent_liveness` | the same without faults | `EveryCallReturns` whatever the hub answers; `SpoolDrains` once it answers for good |
| `hub_ingest` | 3 requests, 2 slots; a log batch, one without id, one invalid | `BatchIsAtomic`, `AckMeansStored`, `FollowsAtMostOnce`; implements `BatchStore` (`IngestIsBatchStore`) |
| `hub_liveness` | 3 requests for one batch, 2 slots | `RequestEnds` |
| `telemetry` | 2 senders, 2 requests, one valid and one invalid batch, room for one | `ForgottenMeansStored`, `StoredOnce`, `WireOK` |
| `presence` | 1 agent, 3 requests, failing writes, lost events | `OneReconnectPerDisconnect`, `DeadIsAnnounced`, `LiveIsCleared` |
| `rule_engine` | 1 workload, 2 rules, duration 2, window 4 | `ActiveIsTold`, `FiresAfterDuration`, `AlertFollowsLoad` |
| `panel` | all pages; 2 containers, 1 group, 1 trace, 2 ranges, lists of one row a page | below |
| `agent_order`, `agent_directory`, `presence_silence`, `rule_fresh` | as above | where documents and code part, below |

Every run with a `TypeOK` also checks it. Deadlock is checked in all of them but
`panel`: there the user may stop, on a page without a timer, with nothing in flight.

What `panel` checks:

- `ScreenOfTheAddress`: once nothing is in flight, the screen shows what the address
  asks for, unless an older answer came last (`overtaken`) or the load failed. So every
  control that changes the address leads to the load it needs.
- `ScreenCatchesUp`: where there is a timer, even that race is repaired, once the user
  stops. Lists of traces have no timer: there it is not repaired.
- `LoadingWaits`: a page that says it loads waits for a request it will take.
- `DetailIsTheTrace`, `ChartsAreOfTheAddress`, `GraphAnnounced`, `SignalsOfTheRange`:
  where the code guards against late answers, the guard suffices.
- `GroupFiltersUnlessOvertaken`: containers are filtered by the members of the group
  in the address. The summary has no guard, hence the exception.
- `ListIsSaved`: after any calls and failures, once they have ended, the sheet lists
  what the hub saved. Not covered are a call that failed, which the sheet shows, and
  two cases it does not show: a list that could not be loaded, which leaves the sheet
  empty (`containers.tsx:96`), and an older list that came last.
- `TablePagesAreTheRows`: every container has one row, in order; the pages of the table cut
  them without a gap or an overlap, and the address always leads to one of these pages.
- `NeverWithoutChoice`, `AppliedViewIsShown`, `ViewsAreStored`: the metrics page finds a
  choice if there is one; a view that is applied is what is shown; the list of views
  is what storage has.
- `HealthIsEarned`: a service counts as healthy only if it has requests that were answered
  without errors, none of its rows has errors, none of its containers is in trouble and no
  critical or warning alert is on it.
- `CalmIsTrue`: the overview says that nothing needs action only after an answer that says
  so and under no failure. The problems page says "Nothing is down" and its like without
  an error only after an answer.
- `FocusKept`: search or new signals do not move the focus.

**Bounds.** Two senders are enough for every race on `batchMu`: whoever does not hold
it does nothing to the spool. Two attempts give a first and a last. Batches of
different sizes make one `Put` drop none, one or two files; three numbers let a
directory start again at 1 and also reach the end of the numbers, where the code
writes a file no listing shows. Three requests on two slots give a holder, a repeat
that waits for its claim and a request that waits for a slot. `MaxCopies` bounds how
often the rows of a batch without id are stored (the code stores them each time). Nothing
bounds how often an agent dies and returns in `AgentPresence`, or the hub restarts; three
requests let two heartbeats of it and a registration meet the loop. Another agent shares
nothing with it but the loop's turn, and the theorems are for any number. Ages stop
at `Window + 1` and `Duration`, where no test of the code distinguishes them, so they bound
nothing.

In `panel` the user makes at most `Acts` changes on a page, with at most `InFlight`
requests at once: two or three of one kind make every order of an older and a newer
answer, and of a poll between them. On the containers page that is one act: in the run
the summaries of two different groups do not overlap, nor do two writes of the sheet.
There the theorems `GroupFilters` and `SavedGroupsAreListed`, which have no such bound, go
further. Lists of one row a page, with no row or two, have a
first, a last and an empty page; `MaxPage` leaves one page past the end. `Totals`,
`MCSnapshots`, `MCReports`, `MCStates` and `MCGraphs` are the answers the hub may give, at
least one with trouble and one without. Two ranges, groups of one of two containers,
and one trace suffice to tell an address from the one before. Saved views are cut to
`StoredLimit`, one instead of twenty, with `MaxSaves` two. `Bookmarks` and `LinksTo` are
the addresses a user comes from. `Navigate` leaves a page only while nothing is saved,
so that groups and views of one page are not multiplied by every other page. Labels of
topology nodes are distinct; a range from the time picker is a range like the others;
the sheet offers all suggestions, not the first eight.

**Symmetry** is used over requests, in safety runs only.

**Fairness.** A goroutine that can take a step takes it. An exchange ends, because the
HTTP client has a timeout of 15 s. `batchMu` is granted to a waiter in the end: Go's
mutex hands over to one that has starved (SF on `Lock`). Postgres wakes a transaction
that waits for a row when its holder ends (SF on `Claim` and `Repeat`). The loops tick
while the process is up; an agent's heartbeats get through again and again (SF on
`Beat`) and not every touch of its row fails (SF on `TouchAgent`), and time passes (SF on
`Tick`). No fault, hangup, crash, deadline or signal is assumed to happen, and nothing
about answers except in the premise of `SpoolDrains`.
`DeadIsAnnounced`, `LiveIsCleared` and `AlertFollowsLoad` speak of a hub that is
restarted finitely often. In the panel the timers keep running (WF on `Poll`), and every
request ends in an answer or a failure (WF on `Answer`): the panel sets no timeout of its
own, but the browser and the proxy in front of the hub do. A request that failed is not
performed later. Nothing is assumed of the user.

**Faulty definitions.** A definition marked *Faulty* is the one below it with a plausible
bug: a missing lock, a dropped condition, an off-by-one, an answer given too early.
Put in its place, it violates the property `PROJECT.json` names with it.

## Where documents and code part

- `agent_order`: `docs/flows/agent-connection.md` says a stored batch is "sent before
  newer batches". A drain that stops at a transient failure is followed by the post of
  the newer batch, which may succeed.
- `agent_directory`: `docs/api/configuration.md` calls `ARGUS_BUFFER_MAX_BYTES` the "Max
  size of that directory". Files moved aside as `.bad` stay and are not counted.
- `presence_silence`: in the sequence of a detected disconnect, `docs/flows/agent-connection.md`
  has the hub publish `agent.disconnect` once `last_seen` is older than `StaleAfter`. The handlers
  and the loop publish after they have released `staleMu`, and the loop marks agents from
  rows it has read before. So a heartbeat can take the mark, the loop set it again and
  store its disconnect, and the heartbeat store its reconnect last (`server.go:268`). If
  the agent dies now it is marked already and the loop passes over it (`server.go:717`):
  the last event of a dead agent stays `agent.reconnect`, or `agent.register` in the same
  way. `DeadIsAnnounced`, which holds, excepts this (`late`) and a disconnect that was lost.
- `rule_fresh`: `docs/flows/events-and-alerts.md` has an alert fire "after 5 minutes above
  the threshold". Rows stay visible for ten minutes, so one sample fires it.

Seen without a run, on the agent and the hub:

- When an item the hub has refused cannot be removed, `drain` posts it again without a
  pause (`client.go:213`, `RemoveFails`).
- An event that cannot be stored is lost, and the mark or flag that caused it stays
  (`server.go:698`).
- A crash after a commit loses what follows the batch; the replay is a repeat
  (`server.go:293`).
- `Purge` returns at the first error, so later tables wait for earlier ones
  (`purge.go:17`).
- An event whose send was buffered counts as a failure, and the stream is followed again
  from the present (`events.go:103`). A window of kernel flows is lost when the workload
  index cannot be read (`cmd/agent/main.go:230`).

On the panel, modelled as it is:

- `docs/flows/ui-panel.md:23` says "Everything that changes what is on screen lives in the
  query string". The order of answers changes it too: see `overtaken`.
- An old page number is kept when the lines of a pattern or a trace are opened
  (`logs.tsx:230`, `traces.tsx:67`) and across the tabs of problems (`problems.tsx:34`);
  past the end, "previous" leads to the page before the last (`list-pager.tsx:18`).
- A failed load leaves the charts of the container before, under an error
  (`container-metrics.tsx:95`); a failed summary shows a group without members, with no
  error (`containers.tsx:110`); a failed poll of the objectives is not shown while there
  are rows (`slo-list.tsx:35`).
- The container chosen for a service may be outside the selected group
  (`container-metrics.tsx:67`). The default containers of a comparison are chosen once per
  mount: when the last container is removed, none come back (`metric-compare.tsx:54`).
- After a failed first load the problems page shows its error and, under it, "Nothing is
  down", "No alert rules firing now" and the like (`problems-now.tsx:63`), and the history
  that it has no events (`event-history.tsx:74`). No document says otherwise, so this is an
  exception of `CalmIsTrue`. The objectives show the error alone (`slo-list.tsx:35`).
- A group can be selected while it is deleted (`groups-panel.tsx:94`). Links of an insight
  name the current group while rows of the one before are on screen
  (`problems-now.tsx:192`). A topology detail links to logs by the id of the service
  (`topology.tsx:323`).
- All groups put `container=all` into the address (`logs.tsx:93`). The sidebar writes a
  cookie nobody reads (`sidebar.tsx:86`).

## Proofs

`HubIngestProofs`, for any requests, batches, slots and queue capacity, from
`HubAssumption`:

- `TypeCorrect`. `TypeOK` is not inductive alone: `done` stays within `fn`'s writes
  because a handler leaves `fn` with the last one, and a queued batch is a log batch.
  `HandlerOK` says so.
- `StoredAtomically`. The strengthening `ClaimInv` has: at most one open transaction
  holds an id, an id that is held is not recorded, a batch without id is never recorded,
  and `BatchIsAtomic`. `CommitStores` is the step that matters.
- `AcknowledgedIsStored`. `AckInv` follows a handler that will acknowledge: past a commit
  its batch is written, in the writes of a batch without id the first `done` of them
  are, at a 202 all of them. `NothingIsTakenBack` carries it over the steps of others.
- `ImplementsBatchStore`. `EffectInv` (who is past the commit holds the one right to
  draw the consequences) and `RowsAreClaimed` make each step one of `BatchStore` or a
  stutter.
- `FollowedAtMostOnce`. `CountInv` says that counted, queued and held patterns of a batch
  are together no more than its effects. The queue's part is the cardinality of the places
  a batch has in it: one more after `Append`, one less after `Tail`, by a bijection of the
  places. `EffectInv` bounds the effects.

`AgentClientProofs`, for any senders, batches, sizes and number of file names, from
`SpoolAssumption` and `ClientAssumption`:

- `ClientTypeCorrect`, `ReplayIsStable`, `OnlyTheOldestLeaves`, from one invariant,
  `ClientInv`: a sender past `Lock` holds `batchMu`, has its batch, and the item it
  replays is the oldest file of the directory. Lemmas about the directory
  (`NextNameIsNew`, `OldestIsStored`, `WithIsDirectory`) carry the disk's part: `Put`'s
  number is in no use, whatever was removed before. One step per action; `HolderSteps`
  covers what all steps under the mutex share.
- `SpoolStaysWithinLimit`. A file enters only where `Put` has seen room for it, and every
  other step leaves files as they are or takes some away (`DirectorySteps`). The sum of
  the sizes is a function over the directory's files, taken in any order; `UsedIsSum`,
  `SumAdds` and `SumsAgree` say what it is after a file more or less. They hold for every
  directory because one where they fail would have a least number of files.
- `SpoolIsBatchQueue`, the refinement of `BatchQueue`. A file's place in the queue is the
  number of names up to its own (`Place`), a bijection of the files and `1..n`
  (`PlacesInOrder`). A new name comes after all others (`NextNameIsLast`), so `Put` appends
  and no place before it moves (`LastIsAppended`); without the oldest name each place is
  one less, so `Remove` takes the head (`OldestIsHead`). The bytes of the queue are those
  of the directory, a sum over a bijection (`QueueBytes`). Each kind of step of
  `DirectorySteps` is then `Enqueue`, `Dequeue` or a stutter (`QueueNext`).

`TelemetryProofs`, for any senders, batches, requests, limits and faults, from
`TelemetryAssumption` and the assumptions of both sides:

- `WireAgrees`. `WireOK` alone is not inductive: a handler that an earlier exchange has
  left behind goes on, and may claim or release an id the agent still sends. The invariant
  is `EndToEnd`: each side's own invariant (`ClientInv`; types and `ClaimInv` of the
  ingest), what a handler's state says of its batch, acknowledging: claimed, 400: invalid (`AnswerInv`), `WireOK`, that a
  request the hub knows to be abandoned is nobody's exchange (`GoneIsOrphan`), and that a
  replayed item about to be removed is stored or refused (`Removal`). One lemma per kind of step:
  the agent's alone (`AgentStep`), the hub's alone (`HubStep`), an exchange (`WireNext`).
- `RowsStoredOnce`, from the same invariant: rows are written with the id, in one commit.
- `ForgottenIsStored`, an action property: of the steps that let go of a batch each is
  either earned by an answer (`VerdictIsEarned`) or one of the losses `NamedLoss` lists
  with their place in the code.

What was proved of the two sides is used here as it stands: the first lemmas say that the
sides of `Telemetry` and the modules of the proofs are the same.

`AgentPresenceProofs`, for any agents and requests: `TypeCorrect`, and
`ReconnectsAreAnswers`, from `HandlerOK`: a handler past its first write is of an agent
with a row, and from the property itself: the mark and the heartbeats that have taken it
since it was set are at most one, for a heartbeat takes the mark in the step that reads it.

`RuleEngineProofs`, for any workloads, rules, duration and window: `TypeCorrect`,
`ActiveAlertsAreTold` (the active list, the last event and the fired flag agree) and
`AlertsWaitTheirDuration`. The strengthening is `TrackersAreYounger`: a tracker is no older
than the last evaluation that saw its metric below.

`TopologyProofs`, for any ranges, graphs and signals: `GraphIsAnnounced` on the page
alone. Its invariant adds to the property that no request is of a generation to come, that
those of the current one ask for the range of the address (`PendingOK`), and that a page
that loads waits for a graph (`GraphAwaited`).

`PanelProofs`, for any constants of the panel and any number of requests in flight. The
address first: `PatchDecides` (what is read after a patch is what it set, and what was read
before for all other names, whatever was stripped as a default), `SetIsRead`, and
`PageShowsRows`: the page shown exists and has rows if there are any. Then what is on
screen while requests are answered in any order:

- `ScreenIsOfTheAddress` and `LoadingIsAnswered`, for all pages. `PageOn` says what holds of
  each. For the main part of a page it is `MainIn`: the request for the address is the
  newest of its kind in flight, or all of its kind are old and the screen shows its answer,
  an error, or one that came out of order. This is what makes the property inductive: an
  answer to anything else can come only from a request that is marked old by then, or marks
  the kind overtaken. A part that the step is not about keeps it because its kind of
  requests keeps its newest (`Preserves`).
- `DetailIsOfTheAddress` (`DetailOf`: a trace in flight is the trace of the address) and
  `ChartsFollowTheAddress` (`MetricsOn`: no other series is in flight than the address's,
  even after the choices the page makes by itself).
- `GroupFilters` and `SavedGroupsAreListed` (`BoxesOn`): the group's members and the list
  of the sheet are parts of their own. The list needs to know of each list in flight
  whether the hub has read it, and that a call in flight sends for a new one.
- `GraphIsAnnounced` and `SignalsAreOfTheRange`, with the invariant of `TopologyProofs`.
- `HealthIsOfTheSignals`, for whatever signals there are: the worst of several statuses is
  one of them and none is worse (`WorstIsWorst`).
- `FocusKeepsSelection`, an action property: it needs that no node of the graph on screen
  is the missing name (`NodesInv`), for then the focus, once found, is never passed over.
- `AlwaysAChoice` (`ChoiceInv`): the effects leave no step without a choice
  (`FilledChooses`) because the containers on offer are containers the page can name.
- `StoredViewsAreListed`: `KeptViews` for what is stored, on every page (`OthersAreKept`,
  `SavedAreKept`), and `ChoiceInv` for what is on screen.
- `NothingCalmUntold` (`CalmInv`): the overview or the problems page, when it neither loads
  nor shows an error, has been answered; and a list of what needs action that is
  empty has nothing in any of the four lists it is joined from, so that no card is coloured
  over it.
- `TablePagesShowTheRows`: with `TableInv` (the page knows only containers that have a
  number), `BeforeIsOrder` and `RowsInOrder` (the comparison of the table, by trouble and
  by the CPU of the last answer, orders the containers, so each has one row and none comes
  before a worse or a busier one) and `PagesAreTheRows` (for any list and page size, one
  page ends where the next starts).
- `AppliedViewsAreShown`, an action property: a view saved from any address, applied at any
  other, puts its own metric, range and containers on screen. `AppliedShows` needs two
  things of the view, and `WordedInv` carries them from the address it was saved from. Its
  metric and range are not blank, or the patch would strip them: so no step of the metrics
  page writes a blank (`MetricsWords`), nor does any link or old address that leads there
  (`LinkWords`, `ResolvedWords`). And its containers are known ones, whose joined text is
  read back as the same set (`JoinedIsRead`).

These six use `PanelAssumption`: containers and nodes have names that are neither blank
nor null, the hub answers with lists, of containers that exist, a page of the table has
rows, and the limits of the overview's list and of saved views are numbers. The last one also
uses `AddressAssumption`: the addresses a user kept are ones the panel wrote, which strips
what is blank, and sets of containers have different texts, because they are joined with
commas, which a Docker name cannot hold. The others assume nothing.

Mounting establishes each page's part (`PageMounts`), whatever the page before left:
`ResolvedLeads` says that the router leads to one of the pages from any address. The first
lemmas on the topology say that the page of the panel and the page of its proofs are one.

`PanelQueueProofs` has what these proofs say of the queue: which requests are in it after
some are sent, answered, marked old or have lost their readers, and what is then the newest
of a kind. `IsQueue` is all they need of its elements, so the lemmas serve every page.

Only model-checked: liveness (fairness and ENABLED are out of the prover's reach). Every
invariant and every action property of a passing run is the property of a theorem. Texts
themselves are opaque to the provers (`ToString`, and the page number it writes); what is
needed of them is assumed, above.

## Not modelled

- The Docker collectors and the event stream, kernel flows: reads of an external API and
  arithmetic on what it returns, joined texts of lines. What they lose is named above.
- Pressure alerts and objectives on the hub: a comparison of floating-point values and a
  suppression under one lock. Retention: one flag and a sequence of DELETEs. Fleet: one
  table, replaced as a whole. Their hazards are listed in `PROJECT.json`.
- Patterns, insights, traces, topology, groups and queries on the hub: SQL statements and
  rules over texts.
- The text of a batch, configuration, logging, the BPF programs.
- In the panel: drawing, formats, translation, widgets that keep their own state (menus,
  dialogs, charts, the sidebar), and one painted frame between an answer and the effects
  it causes.
- The transports, the build and the documentation: no state shared with the system.

Worth adding next: a client of `sendBatch` for the event stream and the log watermark,
and a module of purge and fleet.
