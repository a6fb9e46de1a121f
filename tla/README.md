# Formal models of OpenAdSource

TLA+ specifications of the parts of OpenAdSource where steps of several actors meet: the `/vast`
hot path and its viewers, its registry and selection, the document it answers with, the tracking
pixels, the rate limiter, the worker, the dashboard forms that feed them and who may open them. TLC
checks each on a small instance; TLAPS proves the main safety results for every value of the
constants. Paths below are relative to the repository.

- [1. The system](#1-the-system)
- [2. Modules](#2-modules)
- [3. What the runs check](#3-what-the-runs-check)
- [4. What is proved](#4-what-is-proved)
- [5. Where code and text disagree](#5-where-code-and-text-disagree)
- [6. What is not modelled](#6-what-is-not-modelled)
- [7. Plan](#7-plan)

To check a run: `tlc -config MCDrainer.cfg MCDrainer`; a module's proofs: `tlapm DrainerProofs.tla`.

## 1. The system

Three programs share Postgres and Redis.

| Program | Component | State it keeps | Operations |
|---|---|---|---|
| adserver | delivery handler (`internal/delivery`) | per request: snapshot, user, exclusions | `ServeVAST`: derive the request, select, frequency slot, budget slot, retry, serve |
| adserver | user id (`tracking/userid.go`) | the viewer's `oas_uid` cookie | `Resolve`, `SetUIDCookie` |
| adserver | enforcers (`internal/capping`) | Redis `campaign:<id>:imps_total`, `user:<uid>:ad:<id>:count` | two Lua scripts, each atomic |
| adserver | selection (`internal/selection`), targeting (`internal/targeting`) | pooled scratch buffers | `Select` on a snapshot; device and country of a request |
| adserver | response (`internal/storage`, `internal/vast`) | none | `ResolveMediaURL`, `BuildInline`, `BuildEmpty` |
| adserver | registry (`internal/registry`), `main` | `atomic.Pointer` to a snapshot, `ready` channel; where boot and shutdown are | `Reload` by ticker and by pub/sub message; ping, wait, listen, drain |
| adserver | tracking (`internal/tracking`) | Redis `track:<imp>:<event>`, `ad:<id>:event:<ev>:<date>` | `Sign`, `ServeTrack` |
| adserver | rate limiter (`internal/httpmw`) | `sync.Map` of buckets, an atomic size | `Allow` per request, `Run` sweep |
| worker | lock (`internal/worker/lock.go`) | Redis `worker:lock` | `TryAcquire`, `Release` around a tick |
| worker | drainer (`internal/worker/drainer.go`) | deltas in memory; Postgres `daily_stats`, `campaigns.status` | `Tick`: drain, upsert, reconcile budgets |
| dashboard | server actions and forms | Postgres `campaigns`, `ads`; form state in the browser | create, update, archive; validate, upload, save |
| dashboard | setup, login, sessions | Postgres `users`; the session cookie | first admin, login, logout, redirects of `proxy.ts` and the auth pages |

How they interact:

- Dashboard and worker write rows; the adserver learns of them by reloading its snapshot, every 30 s
  or when a message arrives. Only the worker publishes such messages.
- The adserver counts in Redis (`imps_total` when it reserves, event counters when a pixel fires);
  the worker takes the event counters out with GETDEL and compares `imps_total` with the budget.
- Frequency is counted per `oas_uid`, which a browser has only once it got an answer and only where
  it sends cookies.
- Nothing spans two systems in one transaction: each arrow is a place where a crash, a lost reply or
  an interleaving shows.

What is hard, and which properties are about it, is the list `hazards` of `PROJECT.json`. In short:
requests racing on counters with different caps in hand; viewers under several identities; commands
that a Redis client gives up on or sends twice; a deadline that must end a tick before a key expires;
counts that live only in a process for a while; rows read early and written late by worker and
operators; buffers and buckets reused while someone else looks at them; lists of names kept in step
by hand; a shutdown with requests in flight; forms whose answers arrive after the operator went on;
setups that race, and pages that redirect to each other.

## 2. Modules

Each module describes its abstraction in its header; `PROJECT.json`, `map`, gives the source lines
of every definition. `MC<Module>` holds the values of constants for TLC.

| Module | Models | State ↔ code | Steps |
|---|---|---|---|
| `Delivery` | `delivery/handler.go`, `capping/*.go` | `registry` ↔ `Refresher.snapshot`; `impsTotal`, `userCount` ↔ the two Redis keys; `req[r]` ↔ a goroutine (pc, snapshot, candidate, exclusions, attempts) | arrive, select, frequency script, budget script, serve; each script also resent or failing; crash; new snapshot; window expiry |
| `Viewer` | `tracking/userid.go` around `Delivery` | `jar` ↔ a browser's cookie, `exchange` ↔ who sent a request and the Set-Cookie of its answer | send (named, with the cookie, without it), receive an answer; every step of `Delivery` |
| `Allowance` | what a budget promises | budgets offered, impressions shown | offer, serve |
| `Selection` | `registry/{loader,snapshot,bitset}.go`, `targeting/{device,geo}.go`, `selection/*.go`, the head of `ServeVAST` | `stored`/`held` snapshots with their bit sets, `query` ↔ the request as it arrived, `scratch` ↔ a pooled buffer, `excluded` | load, request (derivation and whole `Select`), retry, serve, buffer collected by the GC |
| `Response` | `serveAd`, `storage/resolver.go`, `vast/*.go`, `tracking/events.go` | operators: URLs and documents are records of what they are made from | used by `Selection!Serve` |
| `Registry` | `registry/refresher.go`, `cmd/adserver/main.go`, `db/pool.go` | `snapshot`, `ready`, `run`/`main` ↔ where the two goroutines are, `msgs` ↔ the subscription channel, `open` ↔ requests in flight | ping, start, query, store, fail, subscribe, tick, message, stop, listen, accept, answer, drain, exit |
| `Tracking` | `tracking/{sign,handler}.go` | `issued` ↔ the signed URL's time, `claim` ↔ `track:` key with its expiry, `count` ↔ the event counter | sign, fire, verify, claim, count, each with its faults; time |
| `RateLimiter` | `httpmw/ratelimit.go` | map, buckets and `approxSize`, one pc per request and for the sweep | every operation of `Allow` and `Run` on the map, the counter, a bucket's `lastSeen` or its limiter is a step |
| `WorkerLock` | `worker/lock.go`, `runTick` | `owner`, `ttl` ↔ the key; `left` ↔ the tick's deadline; `late` ↔ commands given up on that Redis may still run | acquire, tick, release, time out, SIGTERM, crash, restart, a late command lands |
| `Drainer` | `worker/drainer.go` up to `upsertDeltas` | `counter` ↔ Redis keys as sets of hits; `tick[w].delta` ↔ `deltas`; `stats` ↔ `daily_stats` | load, GETDEL per key, upsert per row, failures, deadline, midnight |
| `Ledger` | what `daily_stats` promises | columns and the hits they account for | record a hit, book hits |
| `Campaigns` | `reconcileBudgets`, `campaigns/_actions.ts`, `ads/_actions.ts`, `loadQuery` | rows, `imps`, the worker's tick, the adserver's snapshot | every dashboard action, every call of the worker, reload, reservation |
| `CreativePicker` | `ad-form.tsx`, `creative-picker.tsx`, `lib/media.ts`, `api/upload/route.ts` | `creative` ↔ `AdForm`'s state, `calls` ↔ the page's server actions, `uploads` ↔ running `handleFile`s, `row` ↔ the ad's media columns | what the operator may do; every answer, late or not |
| `Accounts` | `(auth)/setup`, `(auth)/login`, `lib/session.ts`, `proxy.ts`, `api/auth/logout` | `users` ↔ the table, `at` ↔ the page or action a browser waits for, `session` ↔ the life left of its cookie | each request and redirect; `createAdminAction` as count and insert; login; logout; time |

Compositions and refinements:

- `Viewer` extends `Delivery`: a request of the composed system is sent by a browser under an identity
  `Resolve` gives it, the rest is `Delivery`'s. `MCDelivery` runs the composition, and `DeliveryProofs`
  shows that it is one way to use `Delivery`.
- `Delivery` implements `Allowance` (`Abstract`: budgets offered are those of the published snapshots,
  impressions shown are the inline responses).
- `Drainer` implements `Ledger` (`LedgerView == INSTANCE Ledger WITH total <- stats, ...`).
- `Selection` answers with the documents of `Response`.

The other modules meet at named interfaces: `Delivery` takes any candidate of the best priority where
`Selection` computes it; `Registry` has versions where `Selection` has contents; `Campaigns` has a
whole reload and a whole reservation as one step; `WorkerLock` guards what `Drainer` and `Campaigns`
do, and `Drainer` is checked without it, so its results do not depend on it.

Some definitions are preceded by a variant of themselves with a plausible mistake (for instance
`BudgetScriptOffByOne` before `BudgetScript`). Nothing uses them: substituting one, as listed under
`mutants`, must make TLC report the property, which shows that the property looks at that code.

Choices that hold throughout:

- One action is one atomic step of the program: a Redis command or script, a SQL statement, a map or
  pointer operation, or a stretch of code on private state. What runs between two of those is never
  merged across them.
- A failing Redis command either ran or did not; the client may send a command again. A crash stops a
  process between any two steps.
- Redis is assumed to keep its data (it runs with an append-only file), Postgres to be serialisable
  for single statements, clocks to run at the same rate.
- History variables (`published`, `slots`, `fired`, `booked`, `lost`, `caps`, `counted`, `served`,
  `forgiven`, `stamp`, `misses`, `strays`, `late` of `Registry` and `Accounts` ...) only record; no guard reads
  them except to bound a run.

## 3. What the runs check

Every passing run checks a type invariant and the following.

| Run | Bounds | Shows |
|---|---|---|
| `MCDelivery` | 2 requests of 1 browser, 1 named and 2 minted users, 3 ads, 2 campaigns, 2 snapshots, 2 attempts, 1 resend | `BudgetCeiling`: the counter stays under a published cap, and `ImplementsAllowance`: a campaign is shown within a budget it was given. `FreqCapHeld`: as many grants per identity and window as the rule says; `ViewerCapHeld`: as many per person, plus one allowance for each time it came as a stranger. `PriorityHeld`, `NoFillJustified`: retries go through better ads first and stop for a reason |
| `MCWorkerLock` | 2 workers, 1 restart each, TTL 5, tick 3, delay 1, one late command, one release sent again | `MutualExclusion`, as long as no release was sent again, and `LockFreed`: whatever crashes, the key goes away. Deadlock is checked |
| `MCDrainer` | 2 workers, 1 ad, 2 hits, 3 days, 1 failure | `Accounted`, `SteadyDrained`, `ImplementsLedger`. Deadlock is checked |
| `MCRegistry` | 3 commits, 2 failing loads, a channel of 2, 2 pings, 2 requests in flight | `AcceptedAreAnswered`, `NeverRollsBack`, `CatchesUp`, `StopsCleanly` |
| `MCTracking` | 2 pixels, 3 fires, half-second clock, TTLs of 2 s, 1 fault, 1 resend | `CountedOnce`, `OneLossPerFault` |
| `MCSelection` | 8 loads of up to 5 ads in words of 2 bits, 18 queries, 4-bit integers | `AnswersAsRows`: the index answers as the rows' own eligibility does; `FairShare`: of the points the request may draw, an ad answers as many as its weight says; `ReportsEveryEvent` of the document. Deadlock is checked |
| `MCRateLimiter` | 2 addresses, 3 requests, cap 1, rate 1, burst 1, 1 sweep | `RateHeld`, also noticing a test of idleness that is wrong; `SizeAccounted` |
| `MCCampaigns` | 1 campaign, 2 ads, budgets 0 to 2, 4 edits, 1 fault, 1 message | `CompletesOnlySpent`: a campaign is completed for a budget its row had since the tick began, section 5; `SpentCompletes`, `StopsServing` |
| `MCCreativePicker` | 2 visits, 2 URLs, 2 uploads, 2 queued actions, 6 kinds of answer | `SavedMediaExists` |
| `MCAccounts` | 2 browsers, 3 spellings of 2 addresses, 2 passwords, sessions of 2 time units | `OneAccountPerAddress`, `SetupCloses`, `Settles`. Deadlock is checked |
| `MCDrainerStranded`, `MCRegistryBoot` | | violations, section 5 |

Why the bounds are enough to see the interesting cases:

- Two requests are the smallest number that race on a counter, and on a cookie; two attempts are fewer
  than the three ads, so the retry bound is reached; the second snapshot raises a budget and a
  frequency cap and drops an ad, so stale and fresh caps meet on one counter.
- Three words in `MCSelection` are one more than a shrunk buffer needs to leave a stale word behind;
  the 4-bit integers make the mid-roll window wrap within the instance; agents match none, one or both
  of two classes, so their order matters.
- Three days are the smallest number at which yesterday is not enough (`SteadyDrained`, and its
  counterexample for an ad that is not steady).
- A cap of one entry with two addresses makes every new bucket evict; three requests let two of them
  evict while a third uses the bucket.
- The timings of `MCWorkerLock` keep the order of the code's constants (45 s deadline, client timeout
  of a few seconds, 60 s TTL); the proof covers all that keep it.
- Two browsers are enough for a setup to count before and insert after another's; two spellings of one
  address meet at the index, a second address gets past it.
- Where a cfg says `CHECK_DEADLOCK FALSE`, the model may really stop: requests, fires or visits of
  the instance are used up, or the process has exited.

Fairness is assumed only where liveness is stated:

- `WorkerLock`: time passes, `WF(Elapse)`. Nothing is asked of workers: they may die with the key.
- `Registry`: the goroutines of boot, refresher and shutdown go on and the ticker fires, `WF`; a ping
  answers or times out, and `Shutdown` has a deadline of its own. For SIGTERM `SF(OnStop)`, because
  Go's `select` picks among ready cases at random, so a case that is ready again and again is taken,
  but nothing promises that `ctx.Done()` is taken while a tick waits too. Nothing is asked of clients
  or of Redis.
- `Campaigns`: the worker's ticks go on and the adserver reloads, `WF(Work)`, `WF(Reload)`, as both
  run on tickers. No fairness for dashboards, messages or requests.
- `Accounts`: a request that was sent is answered, `WF(Serve(b))` for each browser. Nothing is asked of
  operators, and the clock need not run.

## 4. What is proved

For all values of the constants (any number of requests, browsers, workers, ads, hits, days and any
timings that satisfy the named assumptions), checked by TLAPS:

| Theorem | States | Argument |
|---|---|---|
| `TypeCorrect`, `ViewerTypeCorrect`, `LockTypeCorrect`, `DrainTypeCorrect`, `RegistryTypeCorrect`, `AccountsTypeCorrect`, `CampaignsTypeCorrect`, `PickerTypeCorrect`, `TrackingTypeCorrect`, `SelectionTypeCorrect`, `LimiterTypeCorrect` | the type invariants | per action; lemmas give the type of each record update |
| `BudgetSafe` | `BudgetCeiling`, `ResponsesReserved` | `BudgetInv` adds that goroutines hold published snapshots, that the counter is at most a published cap, and at least the number of requests holding a slot; only `budgetScript` moves the counter, and no step adds a holder without it |
| `DeliveryImplementsAllowance` | `Delivery!Spec => Allowance!Spec` | from the same invariant: a response that appears was a holder, so the responses so far are fewer than the counter, which a published cap bounds; reloads offer budgets, every other step stutters |
| `FreqSafe` | `FreqCapHeld` | as for the budget, per user, ad and window; expiry resets both sides |
| `ViewersKeepDelivery` | `Viewer!VSpec => Delivery!Spec` and what follows from it | sending is one of the three arrivals, receiving an answer stutters |
| `PrioritySafe`, `NoFillSafe` | `PriorityHeld`, `NoFillJustified` | `LoopInv`, per goroutine: it was refused different ads, one per attempt; the candidate it holds is a best one among the others; a no-fill found no other or had no attempt left. That a selection finds none only if there is none needs a largest priority to exist, hence finite snapshots |
| `ViewerCapSafe` | `ViewerCapHeld` | the uids a browser went by are its cookie's, the ones minted for answers it has not received, and one per stray; a uid belongs to one browser; so its grants are a union of at most `1 + strays` sets, each bounded by `FreqCapHeld`, and `UnionBound` sums them |
| `TicksExclude` | `MutualExclusion`, `WorkersOwnLock`, while no release has been sent again | `LockInv`: a tick that can act owns the key and the key outlives it by `Delay`; a release in flight finds the key it was sent for. `TickTimeout + Delay < LockTTL` is used, and so is the condition: after a resend exclusion fails (section 5) |
| `EachHitInOnePlace` | `Accounted` | inductive with `TypeOK`; the key-wise form is kept by each kind of move of a hit |
| `SteadyAdsDrained` | `SteadyDrained` | a clean tick of today has emptied, or still has to read, every key of yesterday of an ad that never left the active set; when it finishes the day may end, and yesterday's keys are then out of reach but empty |
| `NeverOvercounts` | a column never exceeds what was recorded | from `Accounted`, as booked hits are fired hits |
| `DrainImplementsLedger` | `Drainer!Spec => Ledger!Spec` | every step is a `Fire`, a `Book` or a stutter of the ledger |
| `RequestsAnswered` | `AcceptedAreAnswered` | main listens only once `ready`, `ready` only after a store, no step stores less than a version; requests are gone, or Shutdown timed out, when main stops waiting |
| `SnapshotsGoForward` | `NeverRollsBack` | what was loaded lies between the snapshot and the database, as one goroutine loads and stores |
| `SetupIsClosed` | `SetupCloses` | users are never removed, so a form submitted late counts at least one and never reaches the insert |
| `AddressesUnique` | `OneAccountPerAddress` | the index refuses a second spelling, and one row is added at a time |
| `CountsOnce` | `CountedOnce` | a pixel is held, counted or about to be, through a claim that outlives every fire in time, so a second handler in time cannot find the key free; a count is at most the INCRs sent |
| `LossPerFault` | `OneLossPerFault` | only a fault adds a pixel to those accepted and lost, and only its own; `Losing` is finite and grows by at most one where `faults` does |
| `IndexAnswersAsRows` | `AnswersAsRows` | a bucket is the bitset of the ads that admit its key, wildcard ads folded in (`InBucket`); the AND of three bitsets is the bitset of the intersection, for any word width (`Intersection`); so the candidates are the ads that fit the derived request, and these are the eligible ones, all of them where the window does not wrap (`FitsEligible`) |
| `DrawIsFair` | `FairShare` | the running totals exist and grow by each weight; a binary search ends at an entry exactly for the points above the total before it, up to its own; counting them gives the weight, off by one at the ends; `ShareOf` carries that through `Answered`, what the request gets, to the eligible ads of the best priority |
| `RateSafe` | `RateHeld` | `Balance`, for every interval that ends now: what was admitted, what the stored bucket has left and the requests still on their way to a deleted one stay within burst, rate and `forgiven`; a request takes from one of the first two terms what it adds to the other, a deletion moves into `forgiven` at least what the bucket lacked and who holds it, a unit of time gives a bucket at most `Rate`. `Looked`: a bucket is deleted by a stamp older than its age, so `Lost` covers what it lacked |
| `SizeSafe` | `SizeAccounted` | one request or the sweep moves at a time (`AtMoves`), and each move changes the count, the entries and those between the two steps by the same amount |
| `SpentIsSpent` | `CompletesOnlySpent` | `TickInv`: the cap of a campaign the tick has still to decide on is positive and one of `caps`, the budgets its row had since the tick began; the one it decided on had reached it, and `imps` only grow |
| `SavedMediaIsThere` | `SavedMediaExists` | the row alone is not inductive: `Kept` adds what the form holds and what each save still queued carries, and that a PUT under way has an allowed type. What was seen or stored only grows, an answer commits what it saw itself, and losing a tab or a page changes no queued call's content (`UnmountKeeps`, `CloseKeeps`) |
| `EveryEventReported` | `ReportsEveryEvent` | the pixels of a document are one signed URL per tracked event, whatever row and deployment it is made from |

`RateHeld` says what an eviction may cost. A bucket that is deleted leaves its key a full one, so the
key gains what the old one lacked. After an idle time that refills a bucket (`EvictAge`, `IdleAge`;
60 s and 15 min against a burst of seconds) that is nothing, and `forgiven` excuses no more than what
such a time leaves missing, unless the bucket was spent from later than the `lastSeen` the test had
read: by a request between the look and the delete, or by one whose Allow came long after it had read
the clock. A test that takes a bucket in use for idle is excused nothing, and substituting one
(`VisitEvictsAny`) violates `RateHeld`. Whoever had loaded the deleted bucket before goes on with it,
also after it has filled up again, so each of those requests may be admitted beside the new bucket;
`forgiven` counts them too. One burst for each such eviction would not be enough, which the proof
shows: the requests still holding a deleted bucket can outlive its refill.

Assumptions: the `ASSUME` of each module, which TLC evaluates in the runs: relations between
timings, finite sets of rows, at least one campaign and budget, a mid-roll tolerance within an
int32, and shapes of inputs. `Ledger` takes the size of a set as a parameter, so that its definition
does not depend on how sets are counted.

Where a proof needs induction over a finite set or a range (`UnionBound`, `RankExists`,
`TotalsExist`), it takes a smallest counterexample: the library's induction theorems have operator
parameters, which the provers cannot instantiate, but subsets of a finite set are well founded and
that is a plain fact. Modules under proof contain no `RECURSIVE` operator; the running total of
`Selection` is a recursive function.

Every invariant and action property of the passing runs is proved. Only model-checked, because it is
out of the prover's reach: liveness under fairness (`LockFreed`, `CatchesUp`, `StopsCleanly`,
`SpentCompletes`, `StopsServing`, `Settles`) and `ENABLED`.

`DashboardProofs` extends `Accounts`, `Campaigns` and `CreativePicker`, which share no variable; the
latter two prefix the names all modules have (`CampaignsSpec`, `PickerSpec`), so that each theorem
says whose specification it is about.

## 5. Where code and text disagree

Shown by a run that violates the statement:

- **Stranded counters** (`MCDrainerStranded`). `docs/architecture.md:229`: "older days have already
  been drained". Events of ads that left the active set stay in Redis.
- **Boot** (`MCRegistryBoot`). `refresher.go:68-69`: the boot sequence "wants to surface the first
  error". A failing first load leaves main waiting until a signal.

Met while modelling, without a run of their own:

- **Lock.** `worker/lock.go:2-4`: the lock "guarantees only one worker replica runs a tick at a time".
  `Release` (`lock.go:78`) compares an id made once per process, and go-redis sends a command again
  whose reply it did not get. A copy that Redis executes late deletes the key of the same process's
  next tick, and another worker starts one beside it. `MutualExclusion` is therefore stated up to the
  first release sent again; putting `OneTickAtATime` in its place in `MCWorkerLock.cfg` shows the case.
- **First admin.** `(auth)/setup/_actions.ts:35-36`: the count "closes a narrow race where two clients
  hit /setup simultaneously". Two clients can both count zero before either inserts, and both become
  admins; the states of `MCAccounts` include it. `SetupCloses` says what the count does achieve.
- **Selection is a weighted draw, not a rotation.** `docs/api.md:32` has `offset` as a "Rotation index —
  same `(pos, country, device, offset)` returns the same ad deterministically", `docs/api.md:80` and
  `docs/architecture.md:160-164` pick the first set bit at index `offset`, and
  `docs/vast-integration.md:248` has players pass `offset=N+1` for a different ad. `Select` compares
  `offset` with the second of a mid-roll (`select.go:15,65-70`), and for nothing else; among several
  ads of the best priority it draws at random by pacing weight (`select.go:95-109`; `handler.go` sets
  no `Rand`). Two equal requests may get different ads, and do in the states of `MCSelection` where
  the best priority has two. `FairShare` is about the draw the code makes, not about the rotation.
- **A budget raised during a tick.** `drainer.go:162`: reconcileBudgets "pauses campaigns that have
  spent their total_budget", and `docs/architecture.md:215` draws the UPDATE as "WHERE over budget". It
  asks for `status='active'` only (`drainer.go:196-199`), with the budget loaded when the tick began: a
  campaign whose budget an operator raised between that load and the UPDATE is completed all the same,
  with budget left. `MCCampaigns` reaches such states. `CompletesOnlySpent` is stated for the budgets a
  row had since the tick began; putting the row's present budget in their place shows the case.
- The picker and the probe accept `application/x-mpegurl` (`creative-picker.tsx:19-24,150`,
  `lib/media.ts:10-15,66-69`), the save accepts `application/x-mpegURL` only (`ads/_actions.ts:12-17`):
  media validated with that type cannot be saved.
- `docs/self-hosting.md:65` calls `RATE_LIMIT_MAP_CAP` the "Max distinct source IPs tracked at once",
  `ratelimit.go:40-41` says "capN bounds map size; when full, the next admission evicts the oldest".
  Only buckets idle for a minute are evicted, and admission goes on without an eviction.
- `docs/architecture.md:153-155`: the dashboard publishes invalidations. No dashboard action does.
- `docs/architecture.md:259`: with Redis unreachable the enforcers allow. Frequency does; a budget
  error is a no-fill (`handler.go:160-164`).
- `docs/architecture.md:264`: after a worker died "next tick re-runs idempotently". Counts taken by
  GETDEL and not yet upserted are gone; `Accounted` has them in `lost`.
- `docs/api.md:90`: "at most 2" Redis round trips, "most requests with no caps configured make 0". It
  is two for each of up to five attempts, and campaigns without a cap still run the budget script.
- `migrations/0004:3-4`: NULL means all. The loader also takes an empty list, and one without any
  usable entry, for all.
- `selection/select.go:11-12` says a request is normalised; `?country=` is used as it is written
  (`handler.go:99`), so a lower-case code finds only ads without a country list. `AnswersAsRows` takes
  it so; near the limits of int32 it also allows a mid-roll to be missed, never served off its offset.
- `selection/select.go:96-97`: SearchFloat64s "returns the smallest i where slice[i] > pick". It
  returns the smallest with `>=`; `FairShare` shows that no share is off by more than one point.
- `tracking/handler.go:26-28`: duplicates within the token's validity are ignored. In the token's last
  second, or with a longer `TRACKING_TOKEN_TTL`, the claim may lapse first; `CountedOnce` is stated
  for the fires before that.
- `handler.go:150-155`: the frequency slot is taken before the budget is asked, and not given back when
  the budget refuses: a viewer's window fills with ads it was never shown. Caps hold all the more.
- `userid.go:13-20`: the cookie is to "remember the visitor's anonymous identity across requests". It
  is `SameSite=Lax`, so a player on another site does not send it and is a new visitor at every request;
  `ViewerCapHeld` counts those.

## 6. What is not modelled

- The walk of `X-Forwarded-For` in `targeting/ip.go` and what the router's middleware does to an
  address before it: selection and limiter take the address as an input.
- A row of `campaign_targeting` that names the wildcard `*` as a country. The column is an
  unconstrained `TEXT[]` (`migrations/0004`), but no code of the repository writes the table: such a
  row comes from SQL by hand. A request may say `?country=*`, and `MCSelection` has one that does.
- XML and JSON serialisation, HMAC and JWT cryptography, password hashing, the S3 and GeoIP clients,
  `net/http` and the Redis client: libraries. What they may answer, lose or repeat is in the models.
- Configuration, metrics, CORS, generated queries: parsing, counters nobody reads back, headers.
- Advertisers, reports, page layout: single statements and read-only queries, no state of their own.
- The seed command: one-shot inserts with ON CONFLICT DO NOTHING.
- A reload in `Campaigns` and `Selection` is one step; that it is several is `Registry`'s subject.

`components` in `PROJECT.json` lists every part with the reason. Within the modelled parts, names,
wording, logs and metrics are left out, as are HTTP headers other than the two cookies.

## 7. Plan

Written, in the order of importance: budgets, frequency and the viewers they are meant for
(`Delivery`, `Viewer`, `Allowance`), the worker (`WorkerLock`, `Drainer`, `Ledger`), what feeds them
(`Registry`, `Tracking`, `Selection`, `Response`, `RateLimiter`, `Campaigns`, `CreativePicker`), and
who operates them (`Accounts`).

Next, models: a reload in parts inside `Campaigns`, once its state space allows it.
