# fast-platform: verification project

TLA+ modules, TLC configurations and TLAPS proofs for `fast-platform`, the HTTP
API of a ride-hailing platform (Go; `cmd/platform`, `internal/orders`,
`internal/drivers`, `platform`, `env`, `events`). A rider posts an order, a
driver accepts it, a rider reads it; each change is one SQL statement that also
writes an event to the outbox.

## The system

| Part | State | Operations | Interacts with | What makes it correct |
|---|---|---|---|---|
| Order store: `requestedSQL`, `acceptedSQL`, `viewSQL` | the append-only tables `orders`, `order_status_history`, `order_acceptances`, `outbox_events` | insert an order, insert an acceptance under a guard, read the last status | any number of API processes at once | an event for every change and a change for every event; one driver per order; status and rows agree; what a caller is told is true |
| Orders: `orders.Handler`, `orders.Service` | per request only | `POST /orders`, `GET /orders/:orderId` | store, cache, telemetry | 201 means stored; 4xx means not stored; only the owner sees an order; views never go back where a process is alone with its cache |
| Drivers: `drivers.Handler`, `drivers.Service` | per request only | `POST /orders/:orderId/accept` | orders service (early check), store | a refusal has its reason, also when it rests on a cached view |
| Read-through cache (library `hellnet-lib-cache`) | copies of views in memory (L1) and, if enabled, Redis (L2), flights | get or load | orders service | a copy may be late, never ahead; a follower of a flight is answered |
| HTTP errors: `HTTPError`, `MapError`, `HasCode`, ... | none | classify, map, answer | every route | metrics and answers agree; mapping is idempotent; flattening keeps the code |
| Process: `main.run`, `Context`, `Run`, `Warmup` | context, server, open connections | start, serve, shut down | all | every opened resource is closed once, requests are drained until the timeout |
| Pipeline: `NewRouter` and the middleware | writer status, headers | wrap each request | all routes | what is recorded is what was sent; panics and unknown paths get an envelope with the headers of every answer |
| Trace context: `InjectTraceContext`, `ExtractTraceContext` | none | add and take out a payload field | events | the event survives, the last trace is continued |
| Configuration: `env`, `NewConfig`, `Validate`, `csvEnv` | environment, dotenv files | read, look up, parse, validate | start-up | set variables win; what passes `Validate` is usable |
| Events: `events` | none | name a topic | services, configuration | an event has a topic (the code does not see to it: `missing_topic`) |

`fast-listeners` and `fast-sockets`, which read the outbox and Kafka, live in
other repositories.

The hard behaviours are the races of statements on one order (snapshots, unique
keys, waits), lost replies, the single flight of the cache with its followers,
acting on cached statuses, copies of copies with lives of their own, error
identity along wrapped and flattened chains, panics and two writers of one
response, crashes between a commit and its answer, and clock texts whose
time exceeds 64 bits. `PROJECT.json` lists them line by
line under "hazards".

## Modules

| Module | Models | |
|---|---|---|
| `Ride` | what the tables promise | abstract specification: `Request` and `Accept` are atomic, an order has at most one driver |
| `OrderStore` | the SQL statements on PostgreSQL | one statement per call, insert by insert; `ImplementsRide` maps it to `Ride` |
| `OrderStoreProofs` | | theorems about `OrderStore`, for all constants |
| `HttpErrors` | `platform/platform.go:98-194` | pure operators |
| `ErrorChain` | an error on its way out | drives `HttpErrors` through every chain of bounded length |
| `ErrorChainProofs` | | theorems about `ErrorChain`, for chains of any length |
| `OrderApi` | routes, services, cache | composes `OrderStore` and `HttpErrors`; `UsesTheStore` maps it to `OrderStore` |
| `OrderApiProofs` | | theorems about `OrderApi` |
| `ViewCache` | `orders.Service.Get` in several replicas, with L1 and L2 | the reads of `OrderApi` with time; one order, no writes but its progress |
| `ViewCacheProofs` | | theorems about `ViewCache` |
| `Server` | `cmd/platform/main.go`, `Context` and `Warmup`, `Run` | stands alone: it says when the handlers of `OrderApi` run at all |
| `ServerProofs` | | theorems about `Server` |
| `Pipeline` | `NewRouter` and `platform/middleware.go` | one request through the engine; what a handler of `OrderApi` answers is any answer here |
| `PipelineProofs` | | theorems about `Pipeline` |
| `Config` | `env`, `NewConfig`, `Validate`, `events` | start-up, and the topics looked up later |
| `ConfigProofs` | | theorems about `Config` |
| `TraceContext` | `platform/context.go` | a payload that passes through any number of hands |
| `TraceContextProofs` | | theorems about `TraceContext` |
| `MCOrderStore`, `MCOrderApi`, `MCConfig` | | symmetry, roles and small environments for TLC |
| `MCHelpers` | | `ErrorChain` and `TraceContext` in one run, a behaviour being about either |

Operators named after a defect (each preceded by a comment "Mutant") are used
by no specification; they say which slip of the code each property would notice.

### OrderStore

`orders`, `history`, `acceptances` and `outbox` are the committed rows. A call
has a statement `stmt[c]`: its kind, arguments, what its snapshot gave (guard
and next sequence), the inserts still to do, and how it ended. The rows carry
the identifier of the call that wrote them, as the Go code gives each
acceptance, status and outbox row a fresh UUID.

| Action | Code |
|---|---|
| `BeginRequested` | `Database.Requested` sends `requestedSQL` |
| `BeginAccepted` | `Database.Accepted` sends `acceptedSQL`; guard and `MAX(sequence)` are read from the snapshot of this moment |
| `Insert` | one insert of the statement reaches its unique index: it takes the key, waits for an unfinished holder, or fails on a committed one |
| `Commit` | the statement commits, all its rows appear at once |
| `LoseReply` | it commits, but the client sees an error |
| `Abort` | it rolls back: connection, context, server |

Data-modifying CTEs run in one snapshot and are executed in an order the
planner fixes, which PostgreSQL leaves open; `plan` chooses it once per kind of
statement. READ COMMITTED is the default isolation, and neither statement
re-reads anything after a wait: `ON CONFLICT` is not used.

### OrderApi

Each call is one HTTP request with its goroutine; `pc` says where it is.

| Actions | Code |
|---|---|
| `PostOrder`, `GetOrder`, `AcceptOrder` | the handler up to the service's first step outside the process: input checks, generated ids |
| `ReadDirect`, `Hit`, `Lead`, `Join`, `HitL2`, `Query`, `Deliver` | `orders.Service.Get`: without cache, hit in L1, miss that loads, miss that waits, copy found in L2, the query, the result to the levels and to all that wait |
| `FinishGet` | the owner test and the answer |
| `CheckAccept` | the early check of `drivers.Service.doAccepted` |
| `StartWrite`, `FinishWrite` | statement sent, its outcome mapped and answered, through `WorkerContext` |
| `Database` | a step of a statement, invisible to its handler until it ends |
| `FailRead`, `Expire`, `Crash` | failing reads, entries of L1 or L2 that go, the process that dies with its L1 |

Identifiers are texts: `uuid.Parse` and the `::uuid` casts take several forms of
one UUID, string comparison and cache keys do not. `Forms` says which forms
callers use. `setup` says whether the orders service was given a cache and the drivers
service a reader: both are optional in the code; and whether L2 is off, in a Redis that
only this process uses, or in one of several replicas. `cache` is L1. `redis` is L2 if it is the
process's own. What a Redis of several replicas holds is not a variable: other replicas
store what they load whenever they get to it, so `HitL2` may find any view the
order has had (`PastViews`), or none. What replicas do to each other's copies in time is the subject
of `ViewCache`, which has the copies of all of them. What is abstracted: coordinates, timestamps, payload bytes, the
counters and histograms, logs and spans, and the re-validation in the services of what the
handler has already parsed (it cannot fail). A text is taken by both `uuid.Parse` and the
`::uuid` casts or by neither; the few forms on which the two differ are left out.

### Server

`main` is the position of `main.run`, `defers` its stack of deferred closes and
`open` what is open. `listener` is the goroutine that Run starts, `serveErr` its
channel, `conn` the connections of net/http, `stopping` the flag that
`Shutdown` sets.

| Actions | Code |
|---|---|
| `Context`, `NewConfig`, `NewTelemetry`, `NewDatabase`, `Warmup`, `NewCache` | `main.run` from the top; each may return an error except the warm-up |
| `GoListen`, `ServeEnded`, `ContextDone` | `Run`: the goroutine and the two cases of its select |
| `Poll`, `DrainTimeout` | what `Shutdown` returns: nothing left, or its context ended |
| `RunDeferred`, `Exit` | the deferred closes, then the process |
| `Signal`, `Bind`, `Track`, `AcceptEnds`, `Connect`, `Request`, `Answered`, `Hangup` | the world: signals, the listener (which may bind while the server is already stopping), clients |

A signal before `NotifyContext` or after `stop()` ends the process at once and is
left out, as is an error from closing the listener. After a drain that timed out, or a listener that failed,
handlers may run while database and cache are closed: the model has these
behaviours, and `DrainedOnSuccess` says that they are never reported as success.

### ViewCache

`now` is a clock, `since` when the order got each status, `l1` and `l2` the copies with
the moment their life ends, `load` the load of each replica (the flight of `OrderApi`),
`shown` the last answer.

| Actions | Code |
|---|---|
| `Hit`, `Ask`, `HitL2`, `Query`, `DeliverShared`, `Deliver`, `Fail` | `GetOrSetContext` with the factory of `orders.Service.Get` |
| `Advance`, `Tick`, `Evict` | the order's progress, time, copies that are lost |

The library is external. Where its behaviour is not visible from `src/`, that is whether a
copy that comes from L2 starts a whole new life in L1, both are allowed.

### Pipeline

`stage` is the middleware that runs next, `rw` gin's writer together with the telemetry
library's wrapper, `crash` the response at the moment of a panic, `report` the record of
the request.

| Actions | Code |
|---|---|
| `NewRouter`, `Dispatch`, `Redirect` | the engine and gin's choice of handlers; a trailing slash is redirected before any middleware |
| `Telemetry`, `RequestID`, `SecurityHeaders`, `Cors`, `Recovery` | the middleware on the way in, in the order of `engine.Use` |
| `Unrouted`, `Probe`, `Handle`, `Panic` | `NoRoute` and `NoMethod`, the probes, any handler of a route |
| `Recover`, `TelemetryReturns`, `Finish` | recovery's deferred function, the rest of `telemetryMiddleware`, gin's last write |

The operators `WriteHeaderNow`, `Write` and `Json` are the methods of
`observedWriter` on top of gin's (external) writer.

### Config and TraceContext

`ReadFile`, `FileFails`, `Loaded` are `Environment`, file by file; `NewConfig` looks up,
parses and validates; `StoreEvent` looks a topic up each time, as `MessageType` does.
A text is what it parses to; integers of 64 bits wrap at `Half`.

In `TraceContext`, `Inject` and `Receive` apply the two functions to a payload, `Span` is
a span that begins or ends. A payload is a function from fields to contents, or no object.

## Runs

| Run | Question | Instance | States |
|---|---|---|---|
| `store_safety` | tables, outcomes, no circle of waits | 4 calls, 2 orders | 33 512 |
| `helpers` | the error algebra; events and traces in payloads | up to 4 links, 2 codes; 2 fields, 2 spans | 9 855 |
| `api_safety` | answers against tables, causes of every 500, nobody stuck, with faults and crashes | any 3 requests, 1 order, 2 riders, 2 drivers, 2 forms of ids, without cache, with L1, with L1 and a shared L2 | 1 668 088 |
| `api_reads` | reads under one key never go back, in a process alone with its cache; both levels never ahead | 1 post, 1 accept, 3 reads of the rider, L1 alone or with an L2 of its own | 115 712 |
| `api_live` | every request answered, every statement ends; `OrderStore` and `Ride` implemented | 3 requests, with and without early check, with and without cache (L1 and an L2 of its own), no symmetry | 174 712 |
| `server` | life and end of the process | 3 connections | 3 124 |
| `pipeline` | answers and records of one request | every request, 2 origins | 49 284 |
| `config` | settings | mixes of environments and up to 2 files | 91 947 |
| `view_cache` | how old a view may be | 2 replicas with L1, a shared L2, lives of 2, loads of 1, 8 moments | 3 976 779 |
| `accept_race` | a finding, see below | 1 post, 2 accepts | |
| `owner_text` | a finding, see below | 1 post, 2 reads or accepts | |
| `missing_topic` | a finding, see below | as `config` | |

**Bounds.** A conflict on an order involves one winner and one loser per table;
three calls give an order, a winner and a loser, the fourth of
`store_safety` a second loser or a second order. Each id text has a cache key
of its own and keys never meet, so one order shows all there is of the cache of one process,
and whatever other replicas put into a shared L2 is in `PastViews`; several replicas with their copies are in
`view_cache`. A flight needs a leader and a follower, and a view that goes back needs a third
read in between (`api_reads`). The error operators look at the outermost typed link
and at the first text; four links give two of each in every order. A view that is as
old as `ViewCache` allows needs a load by the replica that fills L2 and
one by another, each followed by a whole life: twice 2 + 1 moments, after two in which
the order got there. `Config` has texts of every sort a look-up tells apart, among
them clock texts on both sides of the range; `Half` is 2^15 with seconds of 1, so that
hours overflow as they do with 2^63 and 10^9. The proofs need none of these bounds.

**Symmetry** is used in safety runs only, for sets no expression orders.
`RoleSpec` and `FairRoleSpec` of `MCOrderApi` keep the runs with more
requests to the mix in question: a request that is not sent is a
behaviour of its own, so what they explore are behaviours of `OrderApi`.
Three connections of `Server` can be idle, active and new at the same moment, all
the states a drain tells apart.

**Fairness.** `FairStoreSpec` and `FairApiSpec` ask for weak fairness of the
steps of a statement that is running and of a goroutine that can go on: the
Go scheduler and the database run what is runnable. Nothing is asked of
requests (they may not come), of faults, crashes, rollbacks or evictions. A
statement that waits for a key is not enabled, so that it ever ends is a result
and not an assumption: it rests on all statements of one kind inserting in
the same order. `HoldersCanGo` and `NobodyIsStuck` are the part of this that needs no fairness:
whoever waits, waits for somebody who has a step to take.
`FairServerSpec` asks that main goes on (the libraries it calls return), that the
drain's timer fires and that the listener notices it was closed; handlers and
clients may hang for ever. The other modules state safety only: `ViewCache` bounds
ages by the clock itself, whose ticks wait for loads that are at their limit.

**Deadlock** is checked in all runs; `AllEnded`, `AllAnswered`, `Ended` and `Done` are the
steps of a system with nothing left to do.

## What is proved

The `*Proofs` modules are checked by TLAPS for any sets of calls, orders, riders, drivers,
connections, replicas, origins, environments, files, fields and spans, any plan, any
lives and loads, with and without faults, cache, L2 (own or shared) and reader. Every invariant the passing
runs check is a theorem; the inductive invariants behind them (`StoreInv`, `ApiInv`, `ServerInv`,
`CacheInv` and the like) are theorems which no run lists.

* `StoreInvariance`: `StoreSpec => []StoreInv`. None of the wanted invariants is
  inductive alone. That a second acceptance cannot commit needs that the first holds its key until
  it is visible (`KeysHeld`); that a guard is right at commit although its
  snapshot is old needs that the sequence number it computed was the next one
  then (`SnapshotHolds`) and that the history key lets only one statement use it;
  that a guard says what `viewSQL` says needs that a history is
  one row "requested" with sequence 1, followed at most by one row "accepted" with sequence 2
  (`HistoryInStep`); that an outcome is true needs that rows
  belong to calls that committed (`RowsOfCalls`). `StoreInv` is the conjunction,
  kept by every action: one lemma per action, one step per conjunct that it disturbs.
* From it: `TypesHold`, `EventsMatchChanges`, `OneDriverWins`,
  `OutcomesAreTrue`, `LosersHaveWinners`, `GuardIsSound`, `StatusIsSound`.
* `LosersAreStoppedFirst` and `NobodyWaitsInACircle`. A statement takes two unique keys, and a
  second statement on the same order could hold one and wait for the other. It cannot: all
  statements of a kind take their keys in the plan's order (`KeysInOrder`), and whoever has
  inserted its first key gets the second, since nobody else can have the second without
  the first, committed or not. So who waits holds nothing, and waits for one that can go on
  (`HoldersCanGo`): waits are one deep. `OrderApi` sends the same statements
  (`ApiTakesKeysInOrder`).
* `StoreImplementsRide`: a commit, with or without its reply, is one step of
  `Ride`, every other step stutters.
* `ApiUsesTheStore`: each action of `OrderApi` is a step of `OrderStore` or
  leaves the tables alone. The one fact needed is that a request that is
  about to write carries arguments of the right
  type (`ControlInv`), which is inductive. `ApiKeepsStoreInv` and
  `ApiImplementsRide` follow.
* `ApiInvariance`: `ApiSpec => []ApiInv`. On top of `ControlInv` and `StoreInv`, views
  are never ahead of the tables (`ReadInv`; it stays so because `Ride` only moves an order on),
  every answer has its reason in a read or in the end of the caller's own statement
  (`WriteInv`), and every event says what the statement of its call says
  (`EventsOfCalls`). `ViewsAreNeverAhead`, `OwnersOnly`, `RefusalsWriteNothing`,
  `CreatedMeansStored`, `ConflictsHaveReasons` and, with `FlightInv`, `ApiTypesHold` follow.
* `AnswersFollow`: every answer is a function of what its request has read or its statement has
  reported: an input check, what a read returned (`ShownError`), the early check, or the outcome
  of the statement (`WriteError`). With what reads return and where losers are stopped it
  gives `ErrorsAreExplained`: a 500 is a failure of cache or database, or
  the loser of an accept stopped at the history key.
* `AcceptsKeepTheirWord` and `OwnersAreShown` state the properties that the first two findings below
  violate, each under the one condition that excludes the finding's cause: nothing fails and
  acceptances are inserted before the history; all ids are written in the canonical form.
* `OneIsTold`: of all that ask for the same change of an order, at most one is answered 201. 201
  stands for an event with the caller's identifier (`CreatedMeansStored`), and each change has one.
* `SomebodyGoesOn`: the safety core of `EveryRequestAnswered`. A flight with followers
  holds its one leader, who is loading (`LedInv`); a load that is delivered, fails or dies
  leaves no follower behind. A request whose statement has not ended has one that can go on,
  or waits for one that can, also if that one's request has died.
* `NothingHappensTwice`, an action property: no answer changes, and no request sends a
  second statement.
* `ReadsAdvance`: reads under one key never go back, in a process that is alone with its cache
  (`AloneWithCache`): without L2, whatever fails or dies, or with a Redis of its own in which no
  command fails. The argument: one request at
  most loads a key, and the key has no copy in L1 while it does (`FlightInv`); L2 has no other view
  than L1, or than what is on its way from L2 to L1 (`LevelsInv`); whatever a read has shown, or was
  promised on arrival, is `Fresh`, that is no newer than the tables, than the copies, and than the
  result a loader already holds; and what is fresh stays fresh, since a query reads the tables of
  now and a copy is only replaced by such a result. Without the single flight a slow
  loader could overwrite a newer copy. The condition is as weak as it can be: without it TLC
  finds reads that go back, with a Redis of several replicas, where another replica's slow load
  replaces the newer view, and with an own one whose failed SET leaves the older view behind.
* `BlameAgrees`, `MappingOnceIsEnough`, `CodesSurviveFlattening`: the error algebra
  for chains of any length; a job is spared from counting as failed just if its caller is answered 4xx. The invariant is only that an error is a sequence of
  links and not empty; the work is in lemmas about the outermost typed link of a
  concatenation and of a suffix.
* `CacheInvariance` of `ViewCache`, with `ViewsAreRecent`, `StoredIsFound` and `CopiesAreWorth`: a view is
  at most `viewTTL` and one load old without L2, and twice that with it, because a copy taken
  from L2 at the end of its life may start a new one. `CacheInv` says what each
  copy and each load is worth at any moment.
* `ServerInvariance`: at every stage the deferred closes are just those of what is open
  (`DefersMatchOpen`), and stopping is final (`StoppingIsFinal`): a listener
  that binds while the server stops never serves, so that a
  poll which finds no connection speaks for all later moments.
  `GracefulMeansDrained`, `ResourcesReleased` and `SuccessWasAskedFor` follow,
  for any number of connections.
* `PipelineInvariance`: at each stage, which headers are set, whether the wrapper observes, and
  that wrapper and gin agree on status and bytes as long as every write goes through
  both. `RecordsAreTrue`, `AnswersAreIdentified`, `PanicsAreAnswered`,
  `ErrorsAreEnveloped` and `PreflightsEnd` follow.
* `ConfigInvariance`, with `SetVariablesWin`, `BrokenFilesStop` and `ValidatedMeansUsable`,
  for any environments and any files, as texts of the sorts the look-ups know.
* `TraceInvariance`, with `EventsSurvive` and `TracesContinue`.

The assumptions are those the modules name: flags are Booleans, lives and loads are natural
numbers, the forms of an id are among the two, the reserved field of the trace is no field of an
event, the default timeouts lie within the range of durations (`120 * Second < Half`), and
environments and files give texts to variables.

Only model-checked: the liveness properties `EveryStatementEnds`,
`EveryRequestAnswered` and `EndsWhenToldOrBroken` (fairness and ENABLED are beyond the
prover). Three theorems about `OrderApi` state properties that no run lists:
`OneIsTold`, `NothingHappensTwice` and `AnswersFollow`. No module with a theorem declares a RECURSIVE operator, and none needs induction over
data.

## Findings

* `accept_race`. The loser of two concurrent accepts meets
  `uq_order_acceptances_order` or `order_status_history_order_id_sequence_key`, depending
  on which insert the plan runs first. `drivers/service.go:118` maps only the
  former to 409; the latter is answered 500, where `README.md:88` promises 201
  or 409. `orders/service.go:172-185` handles both keys for the same construction.
  That this is all there is to it is a theorem: without faults and with the other plan
  accepts are answered 201 or 409 (`AcceptsKeepTheirWord`).
* `owner_text`. `orders/handler.go:105` compares the header text with the
  canonical text of the stored id. A rider who writes the own UUID in upper case is
  accepted by POST (which echoes that form) and answered 404 by GET, where
  `README.md:89` shows the order to the rider who made it. If all callers write the canonical
  form it cannot happen (`OwnersAreShown`).

* `missing_topic`. `MessageType` (`events/events.go:20-38`) looks its variable up when an event
  is stored and falls back to the empty text; `NewConfig` and `Validate` do not look at it. With a
  topic unset the process starts and answers 201 for events that name no topic, where
  `README.md:25-26` has a process fail with a clear error if a mandatory variable is missing.
  (README.md does not mark which ones are; the topics have no default in its table or in `.env.example`,
  and the comment at `events/events.go:20` says that a topic is returned.)

Limits of what the code promises, which the properties spell out instead of hiding:

* A path with a trailing slash too many is redirected by gin before any middleware: the
  answer has no request id and no security headers, and is not recorded
  (`AnswersIdentified` and `ReportedAsSent` except it).
* A handler that panics after it has answered keeps its status, and the envelope is appended to
  its body (`PanicsAnswered`, `ErrorsAreEnvelopes`).
* A clock text whose time exceeds 64 bits wraps and may pass `Validate` as another
  time (`RunsAsConfigured` speaks of texts within the range, for which it is exact).
* Dotenv files after one that is missing are not read, broken ones among them
  (`BrokenFilesStopTheStart`, `FirstPlaceWins`).
* With a Redis of several replicas (`CACHE_ENABLE_L2`, as `.env.example` has it) reads of one process
  may go back: a slow load of another replica replaces the newer view in L2, and is read once the own
  L1 entry has ended. So they may after a SET that failed. `ReadsNeverGoBack` excepts both
  by name, and `StaleAtMostBound` says how old a view may be then.
* Two texts of one UUID have two cache entries that age apart; nothing compares them, each is
  bounded on its own.
* The telemetry client outlives database and cache (`ReleasedInOrder`), but not handlers that a timed-out
  drain has left behind.
* With L2 a view may be twice as old as `viewTTL` and a load (`StaleAtMostBound`), if the
  cache library gives copies from L2 a whole life.

## Not modelled

`Consume` (`platform/process.go`): it has no caller in this repository and keeps no state of its
own; what a consumer whose loop panicked means is decided in the services that use it.
`env.Bool` has no caller either. `HELLNET_ENVIRONMENT` and `TRUSTED_PROXIES` only reach settings of gin.
Load and end-to-end scripts, CI and release files have no state of the program, and the
listeners and sockets are other repositories. Logs, spans and counters are left
out except for what telemetry records of a request. The UUIDs that the
code generates for rows are assumed distinct. The database library is assumed to return the
driver's `*pgconn.PgError` itself: `drivers/service.go:118` looks at the outermost error only
(`orders/service.go:156` unwraps), so a library that wrapped it would turn every 409 of an accept
that lost a race into a 500. A load is assumed to store in L2 before it ends, not in the background. Timeouts of statements, requests and drains are events
that may happen; only `ViewCache` measures time.

## Plan

What could come next: the retries of a client that repeats a POST with its own id, as a
module above `OrderApi`; `ViewCache` as an abstraction of `OrderApi`'s cache for several
orders and replicas of the whole API; the outbox as seen by its readers, once their code is at hand.
