# Verification of the Fermions server and workflow

Fermions is a fork of Grafana: a Go server (`pkg/`), a TypeScript and React front
end (`public/app/`, `packages/`) and, its own addition, a workflow engine that
runs the panels of a dashboard (`public/app/features/workflow`). This directory
holds TLA+ models of the parts whose correctness rests on interleavings,
re-entrance, failures and ordering, the TLC configurations that check them on
small instances, and proofs for TLAPS of what holds for every instance.

Paths below are relative to the repository's root. `PROJECT.json` lists, for
every definition of the modules, the lines it models; for every property the
run that checks it; and every hazard of the code with the properties that would
catch it.

## The system

Modelled:

| Part | State | Operations | What makes it hard | What makes it correct |
|---|---|---|---|---|
| Run-stream manager, `pkg/services/live/runstream` | map of streams by channel, channels `registerCh` and `closedCh`, per stream a context and a `CloseCh` | `SubmitStream`, `Run`, and the goroutines `registerStream`, `runStream`, `watchStream` | two goroutines per stream end it by *channel*; subscribers come and go; shutdown | one live stream per channel, callers are told of live streams, `CloseNotify` closes at the end and once, nothing leaks |
| Workflow runner, `PanelWorkflowRunner.ts` | current state, `terminate`, the workflow | `start`, `events`, `states`, `state`, transitions, ends, produced events | an unbounded synchronous loop over a graph that users write; every error is a `throw` | a well-defined workflow without a cycle is executed to an end, an ill-defined one does not end well |
| Filter of a state, `JqFilter` in the same file | tokens left | `run` | reads an array it has emptied | keeps what the filter names |
| Server lock, `pkg/infra/serverlock` | a row per operation in the shared database | `LockAndExecute`, `LockExecuteAndRelease` | several servers, stale copies, crashes, isolation | a job at most once per interval; one holder at a time, but when two servers take over a timed-out row at once; no lockout |
| Fetch queue, `public/app/core/services` | queue, batches buffered by `concatMap`, requests in flight | `fetch`, cancel, unsubscribe, response | consumers re-enter it from their callbacks in the middle of a batch | no request is lost or waits for ever, none is sent twice but a data query, which may be, a request cancels the previous ones with its id |
| Search index, `pkg/services/searchV2/index.go` | an index per organization, the last event applied, a timer, goroutines that rebuild | the `select` of `run`, `applyIndexUpdates`, `buildOrgIndex` | a rebuild puts an old snapshot in place beside a loop that applies newer events | no applied event is undone for good; the indexes come to hold what the loader answers after the last change |
| Data keys, `pkg/services/secrets/manager` | keys in the database, a cache per server by id and by label | encrypt, decrypt, rotate, re-encrypt, expiry | a read without the mutex refills the cache after a flush; caches of several servers; errors half-way | what was encrypted can be decrypted; the keys are few; after a rotation no new secret uses an old key once the caches have expired |
| Auth tokens, `pkg/services/auth/authimpl` | one row per session: token, previous token, seen, rotated at; the browser's cookie | create, lookup, rotate, delete | requests of one client rotate together; `LookupToken` writes back a whole row; responses are lost | a token that the browser has or is being given is accepted, and no token comes back, as long as requests are not slow |
| Managed streams, `pkg/services/live/managedstream`, and the browser's `StreamingDataFrame.ts` | frame cache; subscription; schema and rows of the browser | push, publish, subscribe, deliver | cache, publication and subscription are steps of their own; connections are lost | data is read by the schema it was pushed with, in order, and the last frame arrives |

Not modelled yet, in the order of the plan:

| Part | State | Operations | What makes it hard | What makes it correct |
|---|---|---|---|---|
| Live data streams, `LiveDataStream.ts` | buffer, subscribers, shutdown timer | subscribe, message, resize, status, shutdown | a subscriber comes back while the timer runs | a stream with a subscriber is not shut down |
| Pipeline, `pkg/services/live/pipeline` | rules by organisation | input through subscribers, converters, processors, outputs | recursion over channels; refresh of the rules outside of the lock | a loop is refused, a legal fan-in is not |
| Remote cache, `pkg/infra/remotecache` | one row per key with an expiry | get, set, delete, garbage collection | an expired key is deleted by name | a value that was set is not lost before it expires |
| Ticker, `pkg/util/ticker` | last tick | tick, stop | `Stop` does not block | no tick is dropped, a stop stops |

Parts left out and why: login attempts and the key-value store (one statement or
one transaction per operation; their cleanup and insertion are cases of the
server lock); the SQL store (modelled by what its transactions do to the parts
that use them); the WebSocket handlers of Live (wiring of a library); the object
store, plugins, provisioning and the HTTP API (I/O, external
processes, stateless routing); dashboards, folders, teams and access control (CRUD in one
transaction each); the user interface and the data transformations; build tools.

How the parts interact. A panel's query runner and its workflow run in the page,
on one thread; they call the server through `BackendSrv.fetch` and get pushed
frames through the live streams. On the server a subscription to a plugin's
channel calls `SubmitStream`, which keeps one plugin stream per channel as long
as the hub has subscribers for it. The background jobs of all servers of an
installation, the cleanup of tokens and of login attempts, share the database
and take turns through the server lock.

## The modules

| Module | Models | Composed with |
|---|---|---|
| `RunStream` | the run-stream manager | `StreamRegistry`, which it implements |
| `StreamRegistry` | what the manager promises to the callers of `SubmitStream` | |
| `RunStreamProofs` | theorems | |
| `PanelWorkflow` | the workflow runner | |
| `JqFilter` | the filter of a workflow's state | an error of it is `defs[n].filter` in `PanelWorkflow` |
| `WorkflowRunnerProofs` | theorems about both, which it extends: the names of `JqFilter` are its own | |
| `ServerLock` | what the two locks share: the servers and their places | |
| `LockAndExecute` | the lock with an interval | `ServerLock` |
| `LockAndRelease` | the lock that is released | `ServerLock` |
| `ServerLockProofs` | theorems about both, which it extends | |
| `FetchQueue`, `FetchQueueProofs` | `BackendSrv.fetch` and its queue | |
| `SearchIndex`, `SearchIndexProofs` | the search index, its loop and its rebuilds | the database and its table of events |
| `DataKeys`, `DataKeysProofs` | the data keys of one server and their cache | other servers, by what they do to the table |
| `AuthToken`, `AuthTokenProofs` | one session: row, cookie and the requests between | the browser |
| `ManagedStream`, `ManagedStreamProofs` | one channel, from `Push` to the frame of a browser | `StreamingDataFrame`, through the WebSocket library |
| `MC...` | instances of the above for TLC | |

A definition whose comment says *Mutant* is a way in which the definition after
it could be wrong; it takes no part in the specification and shows that a property
tells the two apart.

### RunStream

A *request* `r` is one call of `SubmitStream`. It owns up to four threads of
control: the caller (`sub[r]`), the goroutine `registerStream` that `Run` starts
for it and that becomes `runStream` when it opens a stream (`proc[r]`), and
`watchStream` (`watch[r]`). A stream is named after the request that opened it;
`answer[r]` is the stream whose `CloseCh` the request is given. An action is what
runs between two synchronisation points: a critical section of `s.mu`, a channel
operation, one case of a `select`, a call of the plugin.

* `Submit`, `Refuse`, `GiveUp`, `SubmitClosed`, `SendOnClosed`, `Return`,
  `ReturnClosed` are the ways through the two `select`s of `SubmitStream`,
  panics included. `Subscribe` and `Unsubscribe` are the hub's: the
  subscription exists once `OnSubscribe` has returned.
* `Accept`, `RunExit` are the loop of `Run`; `CancelBase` cancels its context.
* `Register` is the critical section of `registerStream`, `Respond` the answer.
* `RunHead`, `RunDelay`, `RunPluginContext`, `RunReturn` are the loop of
  `runStream`, with a plugin that returns, fails or disappears; `RunStop` its deferred
  `stopStream`, `RunCancel` the deferred cancel of `registerStream`.
* `WatchDone`, `WatchTick`, `WatchStop` are the loop of `watchStream`. A tick reads the number of
  subscribers; the `stopStream` that may follow is a step of its own.
* `StopStream` finds the entry it deletes by channel: it may belong to a later
  stream. This is the centre of the model.

A panic takes the process with it: nothing happens after `panicked`.

`StreamRegistry` is the promise without goroutines: a stream opens when no other
is open on its channel, a caller joins the one that is open at that moment, a
stream closes at most once. The mapping: a stream is open from its registration
(`answer[r] = r`) until its `CloseCh` is closed.

Left out: the length of the reconnect delay (a delay may end at any time), the
caching of the plugin context (finding it, failing and not finding it are all
possible every time), and the removal of a stream's user on a permission change
other than as a plugin context that is not found.

### PanelWorkflow and JqFilter

`PanelWorkflow` chooses a workflow in `Init` (`defs`, `start`, `kinds`) and executes
it. The call is synchronous, so one turn of the loop in `states()` is one action:
`Start` is `start()`, `events()` and the checks before the loop, `StateFails` a
state that throws, `StateRuns` a state with its transition or end and the events
it produces, `Finish` the end of the loop. A definition of a state (`StateDef`)
has what the control depends on; what its actions compute decides nothing here. A state with a transition to itself is refused like one without a
transition, because the code tells the two apart by comparing names.
The validator that `runWorkflow` calls before is taken to accept everything.
Left out: the tokenizer's reading of characters, and the listener that every `start()` adds to
the panel's event bus and that only logs.

`JqFilter` is the predicate of `pickBy` in `JqFilter.run`, one key per action,
for all filters and all objects up to a length. Objects are sequences of
distinct keys, in the order `pickBy` meets them.

### LockAndExecute and LockAndRelease

Both model `serverlock.go` with several servers and one row. In `LockAndExecute`
every SQL statement and every look at the clock is an action of its own (`Find`,
`Insert`, `Check`, `Stamp`, `Acquire`): nothing is locked in between, so a
copy of the row may be of any age when it is used. `Acquire` is the conditional
UPDATE; it may be done and yet reported as an error. `Leave` is the end of the
job, an error of the database or the end of the process, at any place. In
`LockAndRelease` the read and the write of `acquireForRelease` (`FindForRelease`, `InsertForRelease`, `Update`) are two actions
of one transaction, and two such transactions may overlap: the code sets no isolation, and MySQL
and PostgreSQL at their default let them; SQLite does not, which is among these behaviours.
So two servers may find the same timed-out row and both update it. The history variable `raced` says that
they did; it is reset when all servers are out of their calls, and what the lock promises it promises again from then on.
`Release` deletes by operation and not by owner, or fails, which
the code only logs. `Crash` leaves the row behind.

The servers have one clock. The clock of `LockAndExecute` counts seconds; in
`LockAndRelease` time is kept as ages, which makes its states finite, and the
truncation of a stamp to seconds is part of the margin between `MaxRun` and
`Interval`.

### FetchQueue

`fetch`, `FetchQueue`, `FetchQueueWorker` and `ResponseQueue` call each other through RxJS
subjects, synchronously, on one thread. What looks concurrent is re-entrance: the
start of a request aborts others with its `requestId`, their consumers are told
inside that call and may fetch, cancel or unsubscribe there. The call stack is a
variable whose frames say what is left to do: `subscribe` (the function of
`fetch()`'s observable, whose teardown is known only when it has returned), `batch` (the array
`concatMap` emits), `start`, `abort`, `finish`, `callback`. `FetchQueue.state` is `pending`, its Pending keys in
insertion order, which is the order of a batch, and the set `inProgress`, whose order decides nothing; a key that changes
from one to the other keeps its place in the object, but no key goes back. `updates` is what
`concatMap` has buffered: a later batch is computed from the state of then and from
the count in the update. Requests from the event loop and responses come when the stack is empty.

Left out: the retry after a login ping on 401, alerts and the inspector's stream. They
happen after the response and do not change the queue.

### SearchIndex

One loop (`run`) owns `lastEventID` and the timers; rebuilds are goroutines. A
dashboard is the number of its version, an event names a dashboard and stands at
the place of its id in `events`. The loop's body is cut where it loads: `Update`
reads the table, then each event is skipped, or loaded (`Load`) and stored
(`Store`), with the index that is there by then; `StoreFails` ends the batch before
the event, for the loader itself never fails. `BuildSignal` and `FullTick` start a goroutine (`Go`), which captures
`lastEventID`, waits for the semaphore (`Acquire`), loads each organization and swaps its
index in (`LoadAll`, `Swap`), and reports (`Finish`); `ReIndexDone` takes the loop back. `Change`
is a dashboard that is saved, with an event in the same transaction or with none. The
code says of the latter "we could miss updates" (`index.go:269`); it also stands for an event whose
transaction commits after one with a greater id has been applied.

The loader is the repository's: `sqlDashboardLoader.LoadDashboards` (`index.go:892`) does not read the
database. It answers the root folder to who asks for all dashboards and nothing to who asks for one
(`LoadDashboards`), so an index holds the root folder (`docs`) and an applied event removes a dashboard that was never there.
What the loop and the rebuilds have to get right is when the loader is asked: `asOf` counts the changes
of a dashboard that there were when the loader gave the answer that the index has of it, and the properties are about that.
They hold of any loader that does not fail and whose answers are as new as the question. Left out: the end
of the loop, what a search answers, events deleted after a day, and an error of the first build,
which ends the service.

### DataKeys

A *request* is a call of `Encrypt`, `Decrypt` or `RotateDataKeys` on one server.
`Locked` is its mutex, held by an encryption that misses the cache and by a
rotation; a decryption that misses reads the row (`GetDataKey`) and caches it
(`AddDataKey`) without it. An entry keeps the active flag its row had. The cache's two maps are
`byId` and `byLabel`; all keys have one label, so `byLabel` is one entry. `Expire` may
come at any time after an entry was added. `Error` ends a call at any database or provider
call; `GetCurrentDataKey` may also take an error for a missing key, as the code does. Other servers
create keys and rotate (`OtherCreates`, `OtherRotates`). Nothing in the repository calls
`RotateDataKeys` and `ReEncryptDataKeys` but the API of the administrator.

### AuthToken

A request looks its cookie up when it arrives (`Found`, `NotFound`), may write back the copy it has read
(`PrevSeen`, `Seen`), and rotates when its response is about to be written. The rotation is two steps: `TryRotateToken`
reads the clock and decides on the copy whether to rotate; `Rotate` is the UPDATE, where the row of that moment and
the clock of the step before decide what. `Respond` sets the
cookie; `End` is every way in which it does not, the loss of the response included. `Delete` is the
deletion of the session, whatever asks for it.

A request may take any time between any two steps. Two history variables record what slow requests do to the row: `late`, that a
request older than `Short` has marked the token unseen (`PrevSeen`), rotated it or set the cookie; `stalled`, that a write came more than `Short` after
the read, of the row or of the clock, that it rests on. `Short` is 15 seconds: the grace period of the UPDATE must cover
a rotation that waits for its UPDATE and the request that brings its token, one after the other (`2 * Short <= Grace`). With 30 seconds
TLC finds a token rotated 29 seconds after its own stamp, brought to the browser, and rotated away unseen by a second request.

### ManagedStream

`Update` is `Push` up to the cache, which answers whether the schema changed; `Publish` is the rest
and may fail. On the other side `Subscribe`, `OnSubscribe`, `Subscribed` are
three steps because the WebSocket library adds the browser to its hub after the
handler has read the cache: what is published in between is not sent to it. `Deliver` is
`StreamingDataFrame.push` on the next message. A frame is one row, named by the number of its push,
and each message remembers the schema it was pushed with, which the browser does not see. The Redis
cache does in one transaction what the memory cache does under its lock.

## What TLC checks

| Run | Instance | Question |
|---|---|---|
| `run_stream` | 2 requests, 1 channel, `MaxChecks` 2, fair | Is what the map holds alive and watched, is `CloseNotify` closed with the stream, does the manager implement the registry, does every call return, does a shutdown end every goroutine, does an idle channel lose its entry? |
| `run_stream_close_notify` | 2 requests | refuted: `CloseNotifyOnExit` |
| `workflow` | all workflows of up to 3 states, fair | Is a well-defined workflow never refused, does a run end well only at an end, and at all if its transitions have no cycle? |
| `jq_filter` | filters of up to 3 tokens, objects of up to 4 keys | What is kept, and when does the filter throw, against a definition by subsequences? |
| `lock_execute` | 3 servers, interval 2, 5 seconds | Are claims, and executions that overlap, an interval apart? |
| `lock_release` | 3 servers, interval 6, runs of up to 4, 3 crashes, overlapping transactions, fair | One holder, who releases its own row, unless a timed-out row is taken over twice at once, and no lockout after crashes or that? |
| `fetch_queue` | 4 requests, 1 `requestId`, limit 2 | Does the queue come to rest with nothing waiting or lost, and send each request once, a data query at most twice? |
| `search_index` | 2 organizations, one there at the start, 1 dashboard and 1 change each, 2 goroutines, 1 failure, fair | Is an applied event that a rebuild undoes applied again, and are all answers in the indexes given after the last change in the end? |
| `data_keys` | 2 requests, 2 own keys, 1 of another server, 1 failure, fair | Can every secret be decrypted, are the keys few, does a rotation take effect? |
| `data_keys_error` | 2 requests, 2 keys | refuted: `MadeWhenMissing` |
| `auth_token` | 3 requests at a time, 4 sent, of any duration; see `AuthToken.cfg` for the times | Is every token that the browser has or is being given accepted, until a slow request interferes, and does none come back, until a write stalls? |
| `managed_stream` | 2 pushers, 3 pushes, 3 schemas of two widths, 1 lost connection, fair | Is data read by its schema, in order, and does the last frame arrive? |

Why the bounds are enough.

* Run streams: the hazard needs a stream whose entry is deleted and a second that registers on its
  channel. Channels share nothing but the map and the shutdown, so one channel is enough. The safety
  properties are proved for any number of both; three requests (1.4 million states with symmetry) also passed,
  but leave no time for liveness. `MaxChecks` 2 lets a counter be reset.
* Workflows: three states allow a path, a cycle of two and of three that does or does not
  contain the start, unreachable states and names that are no state. Definitions that
  cannot differ in where the run goes are represented once (`MCPanelWorkflow`).
* Filters: a token that has no key, a repeated key in the filter, keys before, between and
  after the tokens, and one key more than tokens all occur.
* Locks: three servers allow a claim, a stale copy and a second claim of the same version;
  five seconds allow two intervals and a half. Three crashes allow every server to crash
  while it holds. The clock of `LockAndExecute` stops at `MaxTime`.
* Fetch queue: four requests fill a limit of two twice; one `requestId` and none are the two
  cases of the abort. The chain of aborts, the re-entrant fetch and the unsubscribed member
  of a batch all occur.
* Search index: the organization that is not there at the start is built by a signal while the other
  is rebuilt; with one change each, a change can come before, during and after the load of either. The two
  goroutines can both be in flight, which is what `overlapped` tells apart. One failure and one missed event suffice
  to lose an update until the next rebuild.
* Data keys: two own keys are one more than the mutex should let be active, one failure makes the
  difference that `FewActiveKeys` allows, and a key of another server can be rotated unseen.
* Auth tokens: one request can rotate, another be late, and a third come in between; with two the
  third is missing. Times are scaled down and keep their order: `Short` 1, `Grace` and `UrgentRotateTime` 2, `Interval` 3. `Start` is
  such that the first request may rotate at once, and the clock then has time for another rotation after the interval and for
  urgent ones; a write of a previous token in use takes place, and so does one of them that stalls. `MaxSends` is one request more
  than there are at a time.
* Managed streams: three pushes are a schema, its change and data that needs it; one lost connection
  makes the browser start again with rows and a schema it has.

Fairness.

* `RunStream`: goroutines that can go on do (the Go scheduler); the `select` of `watchStream` does
  not choose its ticker for ever against `ctx.Done` (Go chooses at random); the plugin's
  `RunStream` returns once its context is cancelled, as its contract
  demands. Nobody has to submit, subscribe or leave, and no plugin has to end.
* `PanelWorkflow`: JavaScript runs a call to its end.
* `LockAndRelease`: time passes, a server goes on unless it crashes, and the servers keep asking
  (they do so by timers). The number of crashes is finite.
* `SearchIndex`: the loop goes on, its timer fires, a case of the `select` that stays ready is taken
  in the end, and a goroutine that waits for the semaphore gets it. No search has to ask for an update.
* `DataKeys`: calls go on and time passes. `ManagedStream`: a call of `Push` goes on to its end, and the
  browser's library subscribes again after a lost connection and delivers what it received.
* `LockAndExecute`, `JqFilter`, `FetchQueue` and `AuthToken` are checked for safety only. That nothing waits in
  the queue is an invariant of its resting states.

Deadlock is not checked where the system really stops: streams that have ended or a process that
has panicked, a workflow that has ended, a filter that has met every key, requests that are all
answered.

## What the code does not keep

Two runs show a behaviour that a comment of the code excludes.

* `run_stream_close_notify`: *"CloseNotify will be closed as soon as stream cleanly
  exited"* (`manager.go:296`). The watcher of a first stream deletes its entry; a
  second stream registers on the channel; the deferred `stopStream` of the first
  then deletes the entry of the second and closes its `CloseCh`, while it runs.
  That second stream has no entry any more, so `stopStream` of its own watcher returns before it
  cancels, the watcher ends, and the plugin stream runs until the server stops, against
  *"kept till channel has active subscribers"* (`manager.go:308`).
* `data_keys_error`: *"If there's no current data key in cache nor in database it generates a new
  random data key"* (`secrets/manager/manager.go:203`). `GetCurrentDataKey` tests `exists` before
  `err` (`secrets/database/database.go:65`), so a failed query is a missing key and a second active key
  is made.

The models have more such behaviours, on which no run is spent.

* `RunStream`: subscribers are counted and the stream is stopped in two steps; a caller may be told in
  between that the stream exists and subscribe to one that is ending. `CloseNotify` would tell it so, but the one caller
  (`live/features/plugin.go:83`) does not read it.
* `LockAndRelease`: two transactions read the same timed-out row and both update
  it (`serverlock.go:192`), and however long the caller chooses `maxInterval`, two servers execute at once, against
  *"so long that is impossible for 2 processes to run at the same time"* (`serverlock.go:136`); the first to end deletes
  the row under the other, and a third may then insert one. `MutualExclusion` and `HolderHasRow` say that this is the only way: they hold
  until `raced`, and again when the race is over. No caller of `LockExecuteAndRelease` is in the repository.
* `FetchQueue`: `apiRequests` are all that is pending, data queries included (`FetchQueueWorker.ts:30`), so a
  data query is started twice; with a `requestId` its second start aborts its first, although *"we need to cancel
  that request"* (`backend_srv.ts:381`) means a previous one. Nothing in the repository fetches a
  data query through `fetch`; plugins do through `getBackendSrv()`. That nothing else is sent
  twice is what holds (`SentSparingly`).
* `SearchIndex`: when rebuilds overlap, events that the first has undone are not applied again after the
  second reports (`index.go:290`); `EventsKept` holds only in `EventsKeptApart`. The next full rebuild makes it good
  (`CatchesUp`).
* `SearchIndex`: *"implementation must return all dashboards"* (`index.go:30`) is what the repository's loader does not do
  (`index.go:892`). No index ever holds a dashboard: `TypeOK` says so.
* `AuthToken`: when the write for a previous token in use (`auth_token.go:154`) comes more than a minute after the read of the
  row and others have rotated meanwhile, it restores a token that is two rotations old; and a request that takes more than 15
  seconds may rotate away a token that the browser has just been given. `NeverRestored` and `CookieAccepted` say that there
  is no other way.
* `AuthToken`: a request that is refused deletes the cookie that the browser has by the time of the response
  (`contexthandler.go:445`), also when that is good. Three requests with one cookie are enough, all within
  a second: the first rotates, the browser gets the new token and uses it, the second, which looked up before, rotates
  again, and the third, which left before, has a token two rotations old. The comment speaks of an
  *"invalid, expired or missing token"* (`contexthandler.go:444`); what is burned is the browser's. `CookieAccepted`
  says what is left: as long as requests are not slow, no token that a request gives to the browser is refused.
* `ManagedStream`: pushes that overlap, and publications of a schema that are missed between the read of the
  cache and the hub, leave the browser to read data by another schema. The properties name both cases.

`PanicNeedsLateSubmit` states a weaker fact than one would like, and holds: the second
submission to a manager that has shut down panics, because `SubmitStream` closes `registerCh`
itself.

## What is proved

The theorems hold for every value of the constants that satisfies the named assumptions of the
module: any number of requests, channels and servers, any workflow, any filter. They are
`Spec => []Inv` (or `Spec => [][A]_vars`) from an inductive invariant, one lemma per action.

* `RunStreamProofs`. The invariant adds to the safety properties where the caller,
  `registerStream`, `runStream` and `watchStream` of one request can stand relative to each
  other (`Places`), and that a `CloseCh` that was made and is not closed is
  the one of its channel's entry (`OpenIsEntry`). The second is what makes `stopStream` safe although
  it looks up by channel: whatever entry it finds is the only open stream of the channel.
  From it follow `EntriesAreLive`, `EntriesAreWatched`, `ExitsAreNotified`, `ClosesNeedCancel`,
  `PanicsNeedLateSubmit`, and `RefinesRegistry`: each step of the manager is an
  `Open`, a `Join` or a `Close` of the registry or leaves it unchanged, where `Register` opens or joins and every `stopStream` closes or stutters.
* `WorkflowRunnerProofs`, of `PanelWorkflow`.
  Reachability is stated without paths: a set of states that contains the start
  and is closed under transitions contains the current state (`StaysSound`, `StaysTrapped`), and
  a state without a transition is the last one (`LastHasNone`). Hence
  `SoundWorkflowsNeverFail`, `RunsEndAtEnd`, `TrappedRunsNeverEnd`.
* `WorkflowRunnerProofs`, of `JqFilter`. `KeepsPrefix`: the keys kept followed by the tokens left are the filter.
  `FilterMeans` compares the run with all subsequences. The invariant says after each key that what was kept
  is found among the keys met so far, and that no longer part of the filter is (`Greedy`); a step needs no more than what one key
  adds to what can be found (`EmbedsNext`, `EmbedsBefore`), so the run itself is the induction. What is kept is then the longest
  such part, and the filter throws exactly when all of it is found before the last key.
* `ServerLockProofs`, of `LockAndExecute`. A copy that has the row's version is the row (`CopiesArePast`), so the
  check made on the copy holds of the row at the moment of the UPDATE, however late it is; with
  `StampsArePast`, `ClaimsAreApart` and `ExecutionsAreApart` follow for any number of servers.
* `ServerLockProofs`, of `LockAndRelease`. Unless `raced`, a server that takes over a timed-out row is alone with it (`TakeoverAlone`):
  nobody holds the lock, because a holder's row is as old as its hold, hence younger than the interval, and no other takes over. When every
  server is out of its call nothing is left to prove (`SettledHeld`), which is why a race may be forgotten then: `Exclusion` and
  `HoldersKeepTheirRow`, for any number of servers and crashes, whether or not transactions overlap.
* `FetchQueueProofs`. What is said of the call stack is said of any sequence of frames (`Sound(frames)`), because a call
  of the queue says what is left to do when it returns; there is one lemma for a push (`ShapePush`), one for a pop
  (`ShapePop`) and one for the publication of an update (`PublishIInv`).
  *Nothing waits*: one batch is on the stack at most (`OneBatch`), and what is pending is in that batch, or an update is
  buffered that builds another from all that is then pending (`Waiting`); an open request is pending, being
  started, read, or being ended (`Alive`). With an empty stack only "read" is left: `NothingIsLeft`.
  *Sent sparingly*: a budget per request, two for a data query and one for others. What was sent, what is being
  started and what is left in the batch stay within it, and a request that is still pending has used
  nothing (`Sparing`): so a batch built from a later update is a full budget for what it contains, and
  contains nothing that was emitted before. `SendsSparingly` follows, without reference to the limit of parallel requests.
  The worker filters its array; that the elements of a sequence in a set can be enumerated in their order (`Enumeration`) needs an
  induction, which is done here as a fact about sets of numbers (`NatSetInduction`).
  `FetchQueueAssumption` says that the requests are finitely many, for the queue counts them.
* `ManagedStreamProofs`. Where pushes do not overlap, rows, wire, reply and the push under way are one sequence that no
  message leaves its place in (`NothingComesLate`): `RowsInOrder`. Where no schema was missed, data that comes without its schema
  was pushed with the one of the message before it, on the wire, in the reply or, if there is none, in the browser
  (`SchemasFollow`), and the cache has the schema of the last of them whenever no push is under way: so the next
  frame may leave its schema out. `DataReadAsPushed` follows, for any number of pushers, schemas, frames and lost connections.
* `DataKeysProofs`. Requests inside the mutex are one at most (`OneInside`); who is about to make a key has found
  none active or has met an error (`FewWhileCreating`); a key in hand has its row (`EntryHasRow`), because
  rows are inserted before their key is used and never deleted. Hence `DataKeysFew` and `DataKeysKept`.
* `AuthTokenProofs`, for requests of any duration. Until a write stalls, what a request has read is the row but for its mark
  (`Same`), or older than the last rotation and read before it or shortly after its stamp (`Older`): so the row is too new for the older copy to be
  written back (`PrevSeenWrites`), and `TokensNeverRestored` follows. Until a slow request changes the token, whoever has read an older
  row was sent soon after the rotation (`ReadBefore`); the newest token is carried by one response,
  unseen (`CarriedOnce`); once the browser has it, whoever comes with another cookie is slow or was sent soon after
  the rotation (`AfterReached`). So a token that is rotated unseen never reached the browser (`UnseenIsLost`):
  `CookiesAccepted`, for any interval and number of requests.
* `SearchIndexProofs`. An answer that was loaded was asked for after the events up to the one being applied
  (`LoadedInTime`), a snapshot after the events up to the start of its rebuild (`SnapshotInTime`), and
  without overlap one rebuild is in flight, and goes back (`OneInFlight`). Hence `AppliedEventsKept`; `ReindexIsAhead`
  needs no more than itself.

Every safety property of the passing runs is proved. Only model-checked are the liveness properties, because fairness
and ENABLED are out of the prover's reach: `SubmitReturns`, `ShutdownDrains` and `IdleEntryRemoved` of `RunStream`,
`AcyclicEnds`, `RunsAgain`, `CatchesUp`, `RotationTakesEffect` and `Arrives`. So are the two refuted comments, whose
counterexamples are TLC's.

## Plan

1. **Done**: run streams and their registry, workflows, filters, server locks, the fetch queue, the
   search index, data keys, auth tokens, managed streams.
2. **Done**: proofs of all the safety properties above.
3. Proofs of what liveness rests on and is safety: that each turn of an acyclic workflow goes to a state not met
   before (`AcyclicEnds`), that a released or timed-out row can be taken (`RunsAgain`), that the loop of
   the index with nothing to do has applied all events (`CatchesUp`). Where TLC checks such a fact
   it becomes an invariant of the run.
4. `LiveDataStream`, as a second browser side of `ManagedStream`: several subscribers and a shutdown timer.
5. `RevokeToken` and the limit of a session's life in `AuthToken`; several labels and the caller's
   transaction in `DataKeys`; the Redis cache of `ManagedStream`.
6. `Pipeline`: the recursion as a function over finite channel graphs, and the refresh of the rules.
7. `RemoteCache` and `Ticker`: small; a value that is lost between Get and Delete, a stop that is lost.

Each module has one passing run for safety and, where time matters, its liveness in the same
run.
