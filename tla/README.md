# A TLA+ verification of llm-tracelab

llm-tracelab is a gateway for language-model APIs written in Go: it routes a
client's request to one of several upstream targets, records the exchange as a
cassette file, indexes it in a database, parses and analyses it in the
background, and serves a local Responses runtime, a monitor and an MCP server
on top.  This directory holds TLA+ modules for the parts of it where several
goroutines meet, the TLC configurations that check them, and proofs that TLAPS
checks.  Source paths below are relative to the root of the repository, line
numbers are those of the commit beside this directory.

Check a module with `tlc -workers 2 -config Limiter.cfg MCLimiter` and its
proofs with `tlapm LimiterProofs.tla`.

## 1. Inventory

A request goes: proxy (normalises, authenticates) → limiter → router (selects a
target) → upstream → recorder (writes the cassette) → usage pipeline → database
index → parse and analysis jobs → monitor and MCP queries.

| Component | State it keeps | Operations | Hard behaviour | What makes it correct |
|---|---|---|---|---|
| Concurrency limiter `internal/limit/limiter.go` | one map of entries (inflight, queued, notify channel) under one mutex | Acquire, Lease.Release, Counts | a waiter reads the channel in a second critical section; entries are deleted and recreated | limits hold, no entry leaks, nobody sleeps beside a free place |
| Router `internal/router/router.go`, `sticky.go` | per target: breaker state, averages, failure counts, inflight; per model: a breaker; sticky bindings | Select, Complete, Release, refresh | a selection is many critical sections; late outcomes meet open or probing breakers | loads exact, retries move on, model failures stay in the model, open targets recover |
| Configuration change `internal/store/config_transaction.go`, `internal/monitor/configuration.go`, `Router.ReloadWithCommit` | three locks, a transaction, the running snapshot, rows of targets | management requests, background and on-demand refreshes, crashes | commit and publication are two steps; refreshes write outside the transaction | the router never runs what the database refused; every change ends |
| Model refresh and catalog (router.go 637-689, 1182-1404) | models of targets, catalog, single flight | Refresh, RefreshNow, rebuildCatalog | the background loop is outside the single flight; maps under different locks | the catalog agrees with the targets |
| Proxy `internal/proxy/handler.go` | per request: tried targets, leases, wait slot, deadline; shared: 16 wait slots | ServeHTTP | retry rounds, queues, cancellations, many early returns, deferred releases | everything acquired is given back once, every request is answered |
| Background jobs `internal/observeworker`, `internal/reanalysis`, job tables of `internal/store/store.go` | parse_jobs, analysis_jobs, observations, findings | two worker loops, synchronous and asynchronous handlers, cancel | updates without a condition on the status, the same job run twice, crashes | a finished job left its result; a job that ended while nobody had it in hand or on a list stays ended |
| System events (`store.go` 6790-6812, 9326-9348) | subscriber channels | upsert, publish, subscribe, unsubscribe | sends after the lock is let go; reads that fail between a change and its notice, or a notice and its summary | a stream that shows an old summary has a notice coming, or lost one to a failure |
| Recorder and cassettes `internal/recorder`, `pkg/recordfile`, `pkg/replay` | one file per exchange, its index row, its parse job | prepare, append, rewrite the prelude, index, enqueue | each step may fail by itself; a repair rewrites the only copy | a recording that can be parsed is |
| Responses runtime and its HTTP side `internal/responses/runtime`, `httpapi`, `audit` | responses, items, continuation chains, audit rows | create, stream, compact, tool loop, store, settle | clients that leave, a store that fails after the text was sent, chains of summaries, the deferred fallback | store, client and audit agree; nothing said is forgotten; every request ends |
| Function executors `internal/responses/functionexec` | a registry of executors | replace, look up | replaced while requests run | a request uses one registry throughout |
| Store `internal/store` | SQL tables | queries, sync of the file tree | — | those of the database |
| Monitor, MCP server | sessions, views | HTTP and MCP handlers | — | views agree with the store |
| Auth, channels, config, adapters, parsers, analyzers, chaos, migration, command line, generated `ent/dao` | none of their own, or settings | sequential or pure | — | conversions are right |

How they interact.  The proxy calls the limiter, then the router's Select, and
must answer each Select with one Complete or Release.  Proxies about to retry
call RefreshNow, which shares `upstreamMu` with configuration changes.  A
configuration change holds `configMu`, then `upstreamMu`, then `reloadMu`, then
`Router.mu`, in that order (docs/ARCHITECTURE.md gives it), over a database
transaction.  The recorder enqueues parse jobs, the monitor and the MCP server
enqueue analysis jobs, the two workers run them, and failures become system
events that the monitor streams.

The behaviour that is hard to test, each at its line and with the property that
watches it, is listed under `hazards` in PROJECT.json.

## 2. Modules

| Module | Models | Extends, instances |
|---|---|---|
| `Admission` | what a limiter promises: a room and a queue per key | |
| `Limiter` | `internal/limit/limiter.go` | instances `Admission` |
| `TargetHealth` | breaker transitions of a target and of a model, as operators | |
| `Router` | selection, completion, bindings, refresh results | extends `TargetHealth` |
| `ConfigReload` | configuration changes, refreshes and their writes, crashes | |
| `ProxyRetry` | `ServeHTTP` from arrival to answer | |
| `ModelRefresh` | how targets' model lists become the catalog: single flight, loop, reload | |
| `BackgroundJobs` | recorder, index, parse worker, analysis jobs, crashes | |
| `EventFeed` | system events, their notifications, the event streams | |
| `ResponseTree` | what the store of responses promises: a tree that only grows | |
| `Responses` | requests to the local runtime, from arrival to audit | instances `ResponseTree` |
| `MCLimiter`, `MCRouter`, `MCProxyRetry`, `MCBackgroundJobs`, `MCEventFeed`, `MCResponses` | values for TLC | the above |
| `LimiterProofs`, `RouterProofs` (with `TargetHealth`), `ConfigReloadProofs`, `ProxyRetryProofs`, `ModelRefreshProofs`, `EventFeedProofs`, `BackgroundJobsProofs`, `ResponsesProofs` | theorems and proofs | the above, `TLAPS` |

Operators that begin with `Mut` are faulty variants of the definition that
follows them.  No specification uses them; substituting one for its definition
must break the property PROJECT.json pairs it with.

### Limiter

`states` is `Limiter.states`; an absent entry is a record with `present =
FALSE`.  Each critical section of `Limiter.mu` is one action.  `Acquire` is
`AcquireNow`, `AcquireRefused` or `AcquireQueues` (lines 50-75), then, for a
queued request, `Subscribe` (read `st.notify`, enter the select), and `Recheck`
or `GiveUp`.  `Release` closes the channel: the model has no channel identities,
a request in the select on the current channel is `waiting` and a close makes
all of them `woken`.  `ContextEnds` is the client leaving; a select whose two
cases are ready may take either.  A request's raw key may be blank and is
normalised to the global key.

### Router and TargetHealth

The error and timeout averages are reals that the code only ever compares with
four thresholds.  `TargetHealth` keeps the band an average lies in and maps an
update to every band the updated value can reach (`Decay`, `Raise`), so the
operators return sets of records.  `elapsed` stands for "now is after
openUntil".  Latency averages enter through one bit of an outcome (`slow`).

In `Router` a selection is three kinds of step, because the code lets go of
every lock between them: the sticky lookup (`Select`), `canSelect` on one
candidate under that target's mutex (`Examine`, which also moves an open target
whose window passed to probation), and the pick with `onStart` and the new
binding (`Start`).  `Complete` is the whole of `onFinish`: releasing the target,
the averages, the model's breaker, the switch.  After a failure the caller may
select again with the target excluded.  The cost order and p2c's random pick
are a choice among the available targets.  `RefreshFails` and `RefreshWorks`
are `setRefreshResult`.  `blamed` is a history variable: which targets had a
failure of their own.

### ConfigReload

A configuration maps each target to the revision of its settings, or `Absent`.
`committed` is the database, `draft[a]` what an administrator's transaction
holds, `snapshot` what the router runs, `rows` the table `upstream_targets`
(whose rows are upserted and never deleted).  `step[a]` follows a management
request: `configMu`, `upstreamMu` with BeginTx, the edit, `reloadMu`, the
preparation of the new snapshot, the commit, the publication, the deferred
unlocks.  A commit may fail, or take effect and lose its answer (`diverged`).
`phase[f]` follows a refresh: it copies the running targets, talks to the
network without locks, tries `upstreamMu`, drops the results whose id is gone
and writes the others one by one.  `Crash` loses everything but the database.

### ProxyRetry

`pc[r]` follows `ServeHTTP` (lines 745-1055): the early answers, the limit
before the selection, the selection, the limit after it, the preparation of the
attempt's log, the attempt, the response, the sleep between rounds.  Deferred
releases take effect in the step that returns (`Return`).  The router is seen
as what it answers: each target is selectable, open or no candidate, and
`TargetChanges` moves the `Flaky` ones at will.  The limiter is a counter and a
queue; `Limiter` has its inside.  `expired` is the thirty-second budget,
`slots` the length of `upstreamRetryWaitSlots`, `inflight` this handler's share
of the targets' load.

### ModelRefresh

`models[g][t]` is `Target.models` of target `t` in generation `g` of the
configuration; a reload publishes a new generation, and refreshes that copied
the old one go on with it.  `catalog[t]` is the list of `t` that
`modelToTargets` was last built from.  `pc[c]` follows a refresh: the flag of
the flight, the copy under `Router.mu`, `setRefreshResult` for each target in
turn (two steps under the target's mutex, between which the new map is half
filled and reads as `Torn`), the rows, `Router.mu`, and `rebuildCatalog`, which
reads the targets without their mutexes.  Such a read of a map that is being
filled is a data race: `ReadTarget` sees what is there, `Torn` included, and
`ReadDies` is the Go runtime's fatal error.  `missed` is a history variable: the
targets a refresh left without a rebuild because a write failed.

### BackgroundJobs

`cassette[t]` is the file of an exchange, absent, partial or whole; `recorder[t]`
where `UpdateLogFile` is with it; `logs` the index.  `parseJobs` and `jobs` are
the tables, in order of id.  `parser` is `processJob`; `exec[e]` is one
execution of `ExecuteJob`, by the worker or by the handler of a synchronous
request: the job in hand, the session job that waits for it (`outer`), the
traces still to do.  Each call of the store is a step, since any other executor
may come in between; each may fail, and then what the code does with the error
is the next step: the deferred `MarkAnalysisJobFailed` (`"fail"`, `"report"`),
a warning, or nothing.  A job's kind is its scope and its set of steps.
`Crash` ends all executions and leaves database and files.  `lost`,
`lostParses`, `over`, `rewritten` and the reported sets are history: the code
keeps no record that a job was stranded.  A repair that finds no usage in the
recording is counted with the calls that fail.

### EventFeed

`events[f]` is the status of the event with fingerprint `f`.  `pub[p]` is a
goroutine that changed an event and has still to notify (`changed`) or is in the
loop over its copy of the subscribers (`sending`, `to`).  After the change the
code reads the event back (store.go:6624, 9318): where that works, the
subscribers are copied (`CopySubscribers`), and where it fails the function
returns and nobody is told (`NobodyIsTold`).  The same step stands for an update
whose answer is lost, and for `MarkAllSystemEventsRead` without a count; an
update that fails outright changes nothing and is left out.  `channel[s]` counts
notifications, whose content the stream ignores: it answers each with a new
summary of the table (`WriteSummary`), or, when that cannot be read, with an
error event, the notification being used up all the same (`WriteError`,
monitor/server.go:7062-7068).  A stream subscribes, writes its first summary,
and then waits, receives or unsubscribes.  A send to a channel closed in between
panics: in a handler the HTTP server recovers it, in a background goroutine
(`Background`) the process ends (`up`).  `DatabaseFails` says whether the reads
may fail.  `unheard` is a history variable: the streams to which a failed read
or a panic lost a notice since the last summary they wrote.

### Responses and ResponseTree

`req[r]` follows one request through `httpapi` and `runtime`: `load` the
history, `summarize` and `putSummary` and `reload` when it is compacted, `call`
the model, `tool` and `run` for each tool, `put`, `complete`, `record`,
`answer`, and `refuse` on every error path.  A stream that cannot be served
incrementally becomes `deferred` and starts again as a creation.  `stored` maps
an identifier to its node: the response it continues, its items, whether a
history starts with it (a compaction).  `heard[r]` is the stream's events that
add an item or finish one, with the place (`output_index`) they name.
`covers` and `knew` are history variables: whose words a stored response stands
for, and whose words its model was given.

What is abstracted: whether a history is too long for the model's window is a
choice made on arrival; whose tools the model calls (the client's, the
server's, one that is not ready) is a choice per answer; text is present or
not.  Events of function call arguments, execution events and tool-call audits
are left out; so are the Codex compaction marker, which cuts a history like a
compaction does, an audit row that could not be created, and a commit that
takes effect although its answer is lost.  Identifiers are taken to be
distinct; the code takes them from the clock in nanoseconds (runtime.go:3045).
`ResponseTree` is the store as a client sees it; `Responses` implements it.

## 3. Runs

| Run | Instance | Checks |
|---|---|---|
| `Limiter` | 4 requests, 2 keys and a blank one, 1 place, queue of 2, symmetric | `TypeOK`; `CountersExact`: counters equal the leases and waiters that exist, within limits; `EntryWhileUsed`: an entry exists exactly while used; `ReleaseWakesEverySleeper`; `ImplementsAdmission` |
| `Router` | 2 requests, 2 targets, 1 session key, no model, 1 refresh, symmetric | `TypeOK`; `InflightExact`; `TriedNotReselected` |
| `RouterModels` | 2 requests, 1 target, 2 models, 2 refreshes, fair | `ModelFailuresStayInModel`; `FailuresBelowThreshold`; `OpenTargetRecovers` |
| `ConfigReload` | 2 administrators, 2 refreshes, 2 targets, 3 revisions, 1 crash, fair refreshes | `TypeOK`; `SnapshotIsCommitted`; `NoResurrectedRow`; `RefreshNeverStalls`; `ChangesEnd` |
| `ProxyRetry` | 2 requests (one counts tokens), 2 changing targets, channel limit of 2, queue of 1, 1 wait slot | `TypeOK`; `SelectionsSettled`; `LeasesReturned`; `SlotsExact` |
| `ProxyRetryEnds` | 2 requests, 1 changing target, global limit of 1, queue of 1, 1 wait slot, fair | `EveryRequestAnswered` |
| `ModelRefresh` | 2 proxies and the loop, 2 targets, 2 lists, 1 reload, fair | `CatalogAgrees`: the catalog differs from a running target only while somebody is about to read it again, or after a refresh whose write failed; `RefreshNowReturns` |
| `BackgroundJobs` | 1 exchange, 1 handler, the 2 workers, 1 request of any of 4 kinds and its children, 1 failed call or crash, fair | `TypeOK`; `NoOrphans`: a running job is in somebody's hands; `CompletedLeavesResults`; `FailedIsReported`; `RunsAtMostOnceEach`; `ParsableTracesParse`; `EndedStaysEnded`; `JobsEnd` |
| `EventFeed` | 2 publishers (one in the background), 2 events, 2 streams, channels of 1, a database that may fail, fair | `TypeOK`; `StaleStreamIsTold`: a waiting stream with an old summary has a notice coming, or is one a failure lost a notice to; `StreamsCatchUp` |
| `Responses` | a request of any kind and a compaction, 1 response stored before, 1 tool round, 2 calls, 1 failure, departure or crash, fair | `TypeOK`; `OutcomesAgree`: store, client and audit row; `NothingForgotten`; `StreamCloses`; `RequestsEnd`; `ImplementsTree` |

Two runs each show a statement of a test or a document that the code does not
keep:

| Run | Statement | What happens |
|---|---|---|
| `LimiterLostWakeup` | `QueuedAcquireReturns` (limiter_test.go:54) | A release between `queued++` and the read of `st.notify` closes a channel the waiter has not seen; it sleeps beside a free place. |
| `EventFeedPanic` | `EveryStreamIsTold` (docs/MONITOR_GUIDE.md:61) | With a database that never fails: a stream leaves between a publisher's copy of the subscribers and its send; the send to the closed channel panics, and the other streams of the copy are never told.  The monitor's page repairs the badge when it next polls the summary, once a minute (`web/monitor-ui/src/components/PrimaryNav.jsx:78`). |

### Observed while modelling

What follows is in the code, and no run states it as a property.  Most of it is a
step that the runs take; where it needs an instance that no run has, or data
that the modules leave out, the item says so.  Where a property meets such a
case it names it as its exception, in a history variable, and so shows what the
case is confined to and not that it cannot happen: `diverged`, `missed`, `lost`,
`lostParses`, `rewritten` and `unheard` are those, `Held` in `EndedStaysEnded`,
and `faults` in `FailedIsReported`.

* Two selections may examine a target on probation before either starts: two
  probes (router.go:1531; router_test.go:2022 expects one).
* A probation success leaves the error rate above the open threshold; a failure
  charged to a model then opens the whole target (router.go:1714).  It takes a
  third outcome on one target, which `RouterModels` with its two requests does
  not have.
* `ewma` takes its first sample whole, so the first transport failure of a
  target sets its error rate to 1 and opens it, whatever `failure_threshold`
  says (`Raise`, `Verdict`).
* A refresh begun before a configuration change writes the old settings over
  the row the change committed; the filter compares ids only (router.go:1290).
* A commit that takes effect although its answer is lost leaves the router on
  the configuration before it, until the next change or a restart (`diverged`).
* A refresh whose write fails leaves the catalog as it was, although the models
  of its targets changed (`missed`, router.go:1272).
* All tried ids are compared with a count taken after exclusions: with three
  targets the third is never asked after two 404s (handler.go:1014).  The runs
  have two targets at most.
* The lease of an attempt is held to the end of the request, so a retry under a
  channel limit of one waits for itself or is refused (handler.go:887).  The run
  `ProxyRetry` has a limit of two, to reach what follows a second lease.
* A selection that finds every other target open after one was tried fails as
  "all targets excluded" and ends the request with its retry budget unspent,
  where "all targets open" would have waited (`SelectFails`, `WaitForOpen`).
* Those who wait in `RefreshNow` return no error when the flight they waited
  for failed (router.go:664-671), and may wait through several flights.
* The catalog can be built from half a list, and stays so until the refresh
  that was filling it rebuilds it, or the process dies (router.go:1375).
* `Sync` indexes a trace without enqueueing its parse job, and a parse job is
  all that is enqueued: a parsed trace is scanned only when somebody asks
  (docs/STORAGE_AND_DEPLOYMENT.md:124 speaks of an analysis job).
* A job stranded by a crash, or by an error of its last update, stays running
  for ever, and so does a parse job (`lost`, `lostParses`).
* A cancelled job that was listed is run all the same, and ends completed
  (`Held`).
* A change of a system event that cannot be read back is never notified, and a
  notification whose summary cannot be read is used up: the streams stay stale
  until the next notice (`unheard`).
* The repair of a recording's usage truncates its only copy (service.go:347), and
  a parse that reads it meanwhile fails for good (`rewritten`).
* Text streamed beside calls that the server executes is not in the stored
  response, and the first tool item is given its `output_index`; `StreamCloses`
  asserts the places of tool outputs only.
* A stored response of a tool loop has the outputs of server-side tools but not
  the calls, so a continuation sends the model a `tool` message without its
  call (runtime.go:2883-2932).  `Responses` does not look into items that far.

### Bounds, and why they are enough

* Limiter: one holder, two queued and one refused is the first instance where
  the queue fills; four requests allow a newcomer to overtake a woken waiter
  while another waiter's context ends.  The second key shows that entries do
  not disturb each other.  The proofs remove these bounds.
* Router: two requests suffice for two selections to interleave on one target
  and for an outcome to arrive late: one request starts, another fails, opens
  the target and probes it.  `FailureThreshold = 2` makes a count of 1 and the
  threshold different.  Refreshes are the only unbounded counter.  `RouterModels`
  has two models so that a failure of one can be mistaken for the other's; the
  run without models has two targets, so a retry can go elsewhere.
* ConfigReload: `MaxRevision = 3` is two changes and a third to follow them;
  one refresh can span a change and end in the next.  One crash hits every step.
* ProxyRetry: two targets make a round of two attempts, with a wait and another
  round; two requests compete for one wait slot.  `EveryRequestAnswered` is
  checked on one target, where all rounds have length one and the loop is the
  same.  `DeadlinePasses` may come at any moment, so no clock is needed.

* ModelRefresh: two targets are the least that a rebuild can read one old and
  one new; two proxies give a flight and a waiter, and the loop a second
  refresh beside it.  One reload lets a refresh end in the wrong generation.
* BackgroundJobs: one exchange and one request, of each kind in turn, already
  put four executions of jobs on its rows, since a synchronous job is run by
  its handler and the worker, and a batch or session adds children.  Which call
  fails, or when the crash comes, is any.
* EventFeed: with channels of one and two publishers every second notice can be
  dropped.  Two streams are needed for one to leave while the other is owed a
  notice.  Nothing is bounded but these sets: publishers go on for ever, and the
  database may fail each time.
* Responses: the second request is a compaction, the only one whose result can
  come between another's history and its response.  Continuations of
  continuations come from the first request following the second's summary,
  and from automatic compaction.  One tool round suffices to reach the limit
  and two calls to number the items; `MaxMishaps = 1` is any one failure.

Symmetry is used in runs without liveness only.  Deadlock is not checked where
the instance ends when its requests are done, jobs have ended, or a process may
have died; `ConfigReload` checks it.

### Fairness

* `RouterModels`: a selection holds a read lock and never waits for another
  request (weak fairness of `Examine`, `Start`, `SelectionFails`), time passes
  (`WindowElapses`), and requests in flight end.  The last is an assumption on
  upstreams and clients: the transport sets no response timeout, so a silent
  upstream holds its probation place until the client leaves.
* `ConfigReload`: a refresh goes on, since each of its network calls has a
  timeout.  `RefreshNeverStalls` assumes nothing else: it shows that a proxy
  about to retry is not held up by an administrator.  `ChangesEnd` adds, as its
  hypothesis, that changes go on and that a mutex released again and again is
  obtained in the end (strong fairness of the two lock steps; a `sync.Mutex` in
  starvation mode is handed over in order of arrival).
* `ProxyRetryEnds`: the handler runs on, an upstream answers or fails, and the
  deadline passes.  A request in the limiter's queue is promised nothing,
  because its wake-up can be lost; the property is about requests let in.
* `ModelRefresh`: a refresh goes on, its network calls having timeouts, and
  obtains a mutex it asks for again and again (strong fairness, as above).  A
  waiter is promised only that it is woken when it finds no flight: it may meet
  one flight after another, which `RefreshNowReturns` excepts.
* `BackgroundJobs`: the workers' tickers tick, an executing handler goes on, and
  the recorder finishes a file it began.  Nothing is assumed of callers, of
  cancellations or of crashes.
* `EventFeed`: a publisher in its loop and a stream with something to write go
  on.  `StreamsCatchUp` has as hypothesis that the table changes no more.
* `Responses`: a request's goroutine goes on, and the model and the tools answer
  or fail: their clients have timeouts or the request's context.

## 4. Proofs

Assumptions: the named `ASSUME`s of the modules, which TLC evaluates on every
run (finite sets of requests, a positive limit and threshold, special values
outside the sets they extend).

* `LimiterProofs`.  The invariant is `TypeOK`, `CountersExact` and
  `EntryWhileUsed` together.  Each needs the others: `queued - 1` stays a
  natural number because the one who leaves is counted; an entry may be deleted
  because the counters being zero means that nobody is left.  One lemma
  (`EntryStep`) reduces an action on one entry to the entry's own facts, using
  cardinalities of sets that gain or lose one request.  From the invariant come
  the four theorems on TypeOK, CountersExact, EntryWhileUsed and
  ReleaseWakesEverySleeper, and `LimiterImplementsAdmission`: each action maps
  to an action of `Admission` or to a stutter.
* `RouterProofs`: first, for every breaker operator, the type of its results and
  that counts end below the threshold and clean records stay clean.  The
  invariant adds to the types that `inflight[t]` is the number of requests in
  flight on `t`, that a request scans only with targets it has not tried among
  its `available`, that counts are below the threshold, and that a target that
  is not blamed has a clean record: no failure, average zero, hence not open by
  its own fault.
* `ConfigReloadProofs`: the invariant says which locks a request at each step
  holds, so that the one that commits or publishes is alone; that the draft
  being published is what is committed; and that the writes a refresh still
  has to make are for targets that are running.  `NoRowResurrected` is an action
  property derived from it.

* `ProxyRetryProofs`: the invariant joins `SelectionsSettled` and `SlotsExact`
  with the fact that a request between its selection and its answer has a
  target.  Six lemmas name the kinds of step a request takes (it goes on, it
  answers with or without a selection, it settles and retries, it selects, it
  waits), and each action is one of them.  `LeasesReturned` follows in a second
  invariant: `load[k]` is the number of leases under `k` that the deferred
  releases of unanswered requests will give back (`Out(k)` has one element for
  each), so that a release never takes it below zero.  `TypeOK`
  needs all three.
* `ModelRefreshProofs`: `CatalogAgrees` alone is not inductive.  A refresh that
  is about to read a target again may give up, and counts its targets as missed
  only if they still run; so the invariant (`Covered`) asks for a refresh of
  the running generation, and that exists because a reload builds its catalog
  from the targets it publishes.  A refresh counts from the first target
  whenever it is not in a loop, and never holds a generation yet to come.
* `EventFeedProofs`: `StaleStreamIsTold` is inductive with `TypeOK`, which says
  that the subscribers are exactly the streams that have not left.  So the copy
  a publisher makes after its change has everyone who waits; a failed read back
  marks all of them as unheard, a panic those it leaves without their notice,
  and the summary that takes the mark from a stream is one of the table as it
  is.

* `BackgroundJobsProofs`: `NoOrphans` says who holds a running row, but not that
  what he holds is in order, so the invariant (`Inv`) says of every executor
  what it knows of its job at the step where it is (`ExecOK`): that the job is
  of a kind that comes there, that what it promised for the traces done so far
  is in the database, and the same for the session that waits for it.  Rows are
  never removed, never change what they are for, and results only grow, so an
  executor keeps that knowledge while the others move (`JobStepKeeps`, for every
  step of one executor).  `RunsAtMostOnceEach`
  needs a potential: attempts made, plus one while the row is queued, listed or
  in the worker's hand, plus one while its caller has yet to begin, never
  exceed what is allowed (`Tries`).  A parse fails with an excuse only because
  a parse job exists only for a file that was whole when it was indexed
  (`FileInv`).  `EndedStaysEnded` is proved of each step beside the invariant:
  who takes a job in hand found it on a list or was asked with it.
* `ResponsesProofs`: the invariant has a part for the store (`StoreInv`: what a
  response continues has a smaller identifier, hence histories are finite), for
  the requests (`RequestInv`: which response each continues, and that no two
  have the same identifier), for what client, audit row and store say at each
  step (`OutcomeOf`), and for what a stream has open (`StreamOf`).
  `NothingForgotten` is about recursive functions over the store, and the
  provers know nothing of those: `Recursion` proves, from the least number of
  a set and without induction over a predicate, that a function that goes back
  along smaller identifiers exists; from it come the equations of `Back` and
  `Ancestry`, and `WordsComplete`, that the items a continuation is given are
  the words of all its ancestors when every summary has those it replaced.
  `StoreIsATree` maps each step to `ResponseTree`'s one action or to a stutter.

Every invariant, action property and refinement that a run checks is a theorem.
Model-checked only are the eight liveness properties (`OpenTargetRecovers`,
`RefreshNeverStalls`, `ChangesEnd`, `EveryRequestAnswered`, `RefreshNowReturns`,
`JobsEnd`, `StreamsCatchUp`, `RequestsEnd`): they rest on fairness, and TLAPS
has no rules for ENABLED here.  No module has a RECURSIVE operator.

## 5. Not modelled, and the plan

Done in this order: limiter, router, configuration, proxy, background jobs,
event feed, Responses, model refresh.  Next:

1. Joining `Router` with `ConfigReload`: a reload builds new target objects that
   inherit averages but neither loads nor model breakers, and outcomes of
   running requests go to the old ones.
2. The replay transport's cached offset, and the registry of function executors.

Left out for good: SQL queries, pagination and backfills (their properties are
the database's), conversions between wire formats and parsers of recordings
(pure functions over JSON), HTTP framing, authentication, configuration
loading, migration, the command line and the generated code of `ent/dao`, which
is most of the repository's lines and has no behaviour of its own.
PROJECT.json lists them with the reason for each.
