# VOUCHERBASE: a verification project

VOUCHERBASE tells a landlord what a housing-voucher unit may rent for: it looks up the
payment standard and the utility allowances of a housing authority, compares the unit
with observed rents, and works out cash flows. These TLA+ modules model its program
logic. TLC checks them on small instances; TLAPS proves the most important properties
for every value of the constants.

Paths in this file leave out the leading `src/`; `jobs.go`, `store.go`, `engine.go`,
`server.go` and `types.go` are in `apps/api-go/internal/app/`, `pipeline.py`, `model.py`,
`service.py` and `providers.py` in `python/voucherbase/`, `lib.rs` in
`crates/rent-core/src/`.

## 1. The system

| Component | State | Operations | Talks to |
|---|---|---|---|
| Batch queue (`jobs.go`) | `jobs`, `job_items`: status, attempts, lease token and end, analysis | enqueue; per second and worker: list the tenants with work, and for each sweep, claim, evaluate, save, finish; list | PostgreSQL, Planning, Idempotent analyses |
| Idempotent analyses (`server.go:184-218`, `store.go:100-159`) | `analyses`, unique by tenant and key; an advisory lock per key | POST /analyses: look up, evaluate, lock, look up again, insert | PostgreSQL, Planning |
| Policy catalog (`pipeline.py`, tables of `001_init.sql`) | `catalog_sources`, `schedule_rows` with the days a row is valid for and the moments it was known | import, approve (by an operator); lookup by day and moment (by an analysis) | PostgreSQL |
| Schedule selection (`types.go:189-212`) | none | `pick`: the most specific row | |
| Planning (`engine.go:51-190`, `lib.rs:184-276`) | one READ COMMITTED transaction, then two HTTP calls | `Evaluate`, `calculate` | catalog, Rust and Python services |
| Cash flows (`lib.rs:82-183,260-272`) | none | `validate`, `cashflow` | |
| Comparables (`server.go:500-553`, `store.go:94-99`, `model.py:23-61`) | `comparables` | import, candidates, `compare` | PostgreSQL, Python service |
| Request limit (`server.go:58-79`) | a map of buckets under a mutex | `limited` | |
| API gateway (`server.go`, `store.go:26-45`) | a pool of connections with a tenant setting; `api_keys`; `audit_events` | screens, authentication, role; every handler a sequence of statements under a context of 40 s | all of the above |
| Property import (`server.go:233-258,380-488`) | `properties` | insert, with an audit event | PostgreSQL |
| Python service (`service.py`, `providers.py`) | a semaphore | comparables, geocode with retries | Census, HUD |
| Rust service (`crates/rent-service`) | none | wraps `calculate` | |
| Administration (`cli.py`, `pipeline.py`) | schema, tenants, API keys | bootstrap, tenant, revoke | PostgreSQL |
| Browser client (`apps/api-go/web/app.js`) | session, form, poll timer | | API |

The components share state only through PostgreSQL. An analysis runs in one HTTP request
or in one batch worker, under a context of 40 s; it reads in one transaction, calls the
Rust engine (whose failure fails it) and the Python service (whose failure only degrades
it) with no transaction open, and stores its result in a second transaction.

What is hard here:

* **Interleaving.** Two workers per process, any number of requests, an operator's imports.
* **Failure between two steps.** A worker can stop between any two of its three
  transactions; the answer to a COMMIT can be lost while the COMMIT takes effect; a
  signal cancels everything that is under way, and the process does not wait.
* **Shared connections.** No query names a tenant: row-level security compares each row
  with a setting that a transaction makes on a connection other tenants used before.
  Handlers take connections and advisory locks in their own orders.
* **Revocation.** A key is checked once per request, and revoked while requests run.
* **Timeouts.** A two-minute lease against 40 s of work and 5 s of finishing; a retry
  that meets what its first try left behind.
* **Two time axes.** A schedule row has days it is valid for and moments it was known;
  superseding cuts and closes rows; a lookup for a past moment should never change.
* **Integer money.** Cents and basis points, several roundings in a row, casts.
* **Partial data.** A reference must be withheld if one figure is missing.

What makes each component correct is listed with its module below; `hazards` in
`PROJECT.json` has what can go wrong, line by line, with the properties that cover it.

## 2. Modules

| Module | Models | Promise it implements |
|---|---|---|
| `ItemPromise` | abstract: what a landlord is promised about an item | |
| `BatchQueue`, `BatchQueueProofs` | `jobs.go`, the shutdown and restart of `cmd/api/main.go` | `ItemPromise` |
| `WriteOnce` | abstract: what an idempotency key promises | |
| `IdempotentWrites`, `IdempotentWritesProofs` | Existing, Save, enqueue, statement by statement | `WriteOnce` |
| `Timeline` | abstract: one value per key, day and moment of knowledge | |
| `Catalog`, `CatalogProofs` | `import_bundle`, `approve`, `schedules` | `Timeline` |
| `Pick`, `PickProofs` | `pick`, one step per row | |
| `Planning`, `AnalysisProofs` | `Evaluate` and the planning part of `calculate` | |
| `RentCore`, `RentCoreProofs` | `validate`, `cashflow`, the scenario loop of `calculate` | |
| `Comparables`, `AnalysisProofs` | `importComparables`, `candidates`, `compare` | |
| `RateLimiter`, `RateLimiterProofs` | `limited` | |
| `Gateway`, `GatewayProofs` | `authenticate`, `Store.Tx` and every handler of `route` | |
| `MC...` | the small instances for TLC | |

A definition whose comment begins with BUG is a plausible mistake in the code. It is not
used by any specification; put in the place of the definition it follows, it makes a
property fail, which shows that the property depends on that line of code.

### BatchQueue
`row` is `job_items`, `work` the goroutines inside `workOne`, `analyses` what Save has
stored under each item's stable key, `ids` counts lease tokens, `scan` the tenants a
worker's round has still to visit. Every round asks `work_tenants` for at most `ScanLimit`
tenants with open items, in any order and with nothing remembered of the last round, and
visits each of them once; an error ends the visit and the round goes on with the next
tenant (`Lists`, `Visit`, `VisitFails`). A database transaction is one step: row locks and SKIP LOCKED keep others out until it commits. The actions are the
transactions (`Claim`, `SweepOnly`, `Save`, `Finish`), what can go wrong with each
(`ClaimUnacknowledged`, `EvaluateFails`, `SaveUnacknowledged`, `FinishAborted`) and the
environment (`Tick`, `Stall`, `Shutdown`, `Restart`). Every claim sweeps first, in the
same transaction, as the code does. Time is in ticks of 40 s; time does not pass a
goroutine's timeout unless it is stalled, for a stalled one it passes as it likes.
Save is one step here because `IdempotentWrites` opens it up.

* `CompleteReportsStored`: an item shows an analysis exactly when it is complete, and it is the stored one.
* `LeaseOutlastsWork`, `ExclusiveWork`: a worker that is not held up keeps its lease, so no two of them work on one item.
* `AttemptsAreAccountedFor`: `job_items.attempts` against what happened. The variable
  `wrong` is history, no action reads it: it counts, with the first thing that goes wrong
  in it, each attempt whose run fails, is held up or is cut off before its report, or
  whose claim lost its answer (`RunsWell`, `CountWrong`). The row counts those and the
  one under way, no more and no less, so "three failed attempts" of `OPERATIONS.md` means
  three of these. An attempt can be used up though nobody evaluated: three lost claim
  answers fail an item that was never tried, three restarts one never tried to the end.
* `OnlyHolderEndsRun`: what a late worker may do; `CompleteIsFinal` (proved only): that a
  complete item stays so.
* `ImplementsPromise`: the queue implements `ItemPromise`. The promise lets a failed item
  become complete: the sweep keeps `lease_token`, so the worker of the third lease can
  still report. It is what the code does; no document says that failed is final.
* `EveryItemSettles`: an accepted item is complete or failed in the end and stays so, the
  items of a tenant that is not among the first of a scan included. Listing tenants whose
  items are `running` too is what makes it hold: an item whose worker died is otherwise
  never swept.

### IdempotentWrites
Each request is a program counter (`pc`) through the statements of its handler: the
unlocked lookup, the evaluation, the advisory lock, the lookup under the lock, the insert,
the COMMIT. Three kinds of keys take three paths: POST /analyses, a batch worker's Save,
POST /jobs. Any statement may fail, and a COMMIT may lose its answer and go on as an
orphan that still holds the lock. `NoDuplicateKey` says that the unique constraint is only
a second line of defence; `AnswersMatchRecord` is ARCHITECTURE.md:32-33; `LocksAreReleased`
that every path out ends the transaction; `ImplementsWriteOnce` that a key is decided once.

### Catalog
`rows` is `schedule_rows`, `tx` the one import that the advisory lock lets be open, with
the timestamp it took (`pipeline.py:78`); what it writes appears when it commits.
`AtMostOneVersion` says that the exclusion constraint never has to reject an import,
`RowsCiteTheirSource` that slices of slices still say what their source says,
`ImplementsTimeline` that publishing a bundle changes its own days from its own moment on
and nothing else.

### Pick
One step per row of a lookup. `ChoiceIsStrictlyBest`: the choice does not depend on the
order of the rows (they come in the order of random ids). `RefusedOnlyForOneKeyTwice`:
only two rows of one policy key conflict, which `Catalog!AtMostOneVersion` excludes.

### Planning
A request runs through validation, the read of its lookup, the choice of figures, the
engine and the comparables, while imports change what a lookup returns (`catalog`; the
`history` variable keeps what it was). A lookup has one row per kind, size and utility
code: what `pick` returns (`Pick`), of rows that are unique (`Catalog`).
`ReferenceIsGrounded` spans Go and Rust: a planning reference can be worked out again from
the rows the answer cites, of the right sizes, of a confirmed authority, with one
allowance for every item. `OneVintage`: they were in force together.
`OneAllowancePerService`: heat is not allowed for twice. `VerdictsAgree`: a rent is above
the standard by what it is above the reference.

### RentCore
One step per cash flow. `NoiIsWithinCents` compares the operating income with the exact
value, `MoreRentNeverCosts` two scenarios with each other (more rent can in fact show one
cent less), `LoanIsRepaid` the payments with the loan, `NothingOverflows` every sum and
ratio with `i64`, `EquityIsNeverNegative` a scenario's overrides with the loan. The f64
annuity is any number of cents between the bounds of an annuity.

### Comparables
Imports add observations, with `recorded` the start of their transaction; `Chosen` is the
newest-first loop of `compare` as a fold. `NewestOfEachProperty` states what the loop is
for: an observation that is not acceptable never hides an older one. `PastSamplesStand`
says there is no look-ahead: later imports do not change the sample for a past moment
of knowledge, as long as the candidates fit into the limit (beyond it they can, which is
why the property says so). Moments and days share one clock.

### Gateway
A handler is a program: the statements it makes, in their order (`Me` to `Enqueue`). `at`
is a request's place in it, `conn` says who uses a connection of the pool and what its
`app.tenant_id` is, `pending` and `stored` are the inserts of the open transaction and the
committed ones, `revoked` counts the ticks since a key was revoked. A step is a statement.
Any statement may fail (`Fail`), which rolls back; a COMMIT may lose its client
(`CommitUnanswered`) and take effect or not afterwards (`OrphanEnds`). The audit
event of a write is a statement of its own. Requests wait for connections and for the
advisory lock on their key with no timeout but the 40 s of the request.

* `TenantsAreIsolated`: no statement sees rows of another tenant than the one of the
  request's key, whoever used the connection before and however that request ended.
* `EveryWriteIsAudited`: a request's writes are stored with their audit event or not at
  all; a request that is told of success has them stored.
* `RevocationIsPrompt`: 40 s after a key was revoked no request makes a statement with it
  any more, and viewers never write. A COMMIT the database got before then may still take
  effect, at any time: nothing in the code bounds it, and neither does `Tick`. Batches
  that were accepted from the key are the tenant's work, which the workers go on with.
* `EveryRequestIsAnswered`: no request holds a connection or a lock while it waits for
  what another one holds so that both wait for ever. `Analysis` uses three transactions
  one after the other; were the read transaction still open during `Save`, the pool could
  run dry with everybody holding one connection.

### RateLimiter
The mutex makes a call one step. `BurstIsBounded`: two limits' worth of requests in any
window, whenever buckets start and are swept. `RefusalHasCause`: a refusal is explained
by requests that were let through in the last window, so a lock-out of everybody ends.

## 3. Runs

| Run | Instance | Why it is enough |
|---|---|---|
| `batch_safety` | 2 workers, 2 items of 2 tenants in jobs of one, 2 attempts, lease 3, work and finish 1 tick, every fault | Two workers are what `main.go` starts. Two attempts give a first, a retried and a last one; the lease is the shortest that `TimingAssumption` allows. |
| `batch_liveness` | 2 workers, 2 items of 2 tenants, scans of one tenant, 2 attempts, lease 1, work and finish 0 ticks, every fault but the signal | A scan of one of two tenants is a full one, so that a tenant is left out; a lease outlasts the work as in the code. The signal is left out for size: what it leaves behind, leases of workers that are gone, a crash leaves behind too. |
| `batch_shutdown` | 2 workers, 2 items, the shutdown only | Finds the violation of finding 1. |
| `idempotency` | 3 requests, a key of each kind, 2 bodies | A winner, a loser and one that retries after a lost answer. |
| `catalog` | 1 key, 2 values, days 0..2, clock 0..2, 3 imports | An interval in the middle of another one is cut on both sides; the third import cuts slices. Keys do not interact except by sharing a bundle. |
| `catalog_reproducible` | the same | Finds the violation of finding 2. |
| `pick` | up to 3 rows, 2 subjects, 2 ZIPs, 2 structures | Best, equal and worse row in every order. |
| `planning` | 2 sizes, 3 utility codes of 2 services, every request, 4 lookups, one change | The lookups have every kind of gap, a standard that falls with size, allowances above the standard and above the limit on money. |
| `rent_core` | amounts at and over the limits, 1000 basis points to the whole, base and one scenario | `MaxInt` is the smallest that `RentAssumption` allows; a cent lost and rounding over a cent both occur. |
| `comparables` | 3 observations of 2 properties, limit 2, window 1, sample 1 | The third observation exceeds the limit, duplicates and unacceptable ones occur in every order. |
| `gateway` | 2 requests, 2 connections, 3 keys (two owners, a viewer) of 2 tenants, deadline 1, one key may be revoked | Every operation runs by itself and beside a write, an analysis, a batch or a read of the same or another tenant (`MCAsked`); two requests are enough for connections to pass between tenants, for two that need a lock, and for two that hold one connection each. |
| `rate_limit` | 3 clients, limit 1, room for 1 and one over, 6 requests, time 0..4 | Buckets start, end, are swept and start again, with the map full and not. |

The bounds that the code does not have are `MaxTime`, `MaxDay`, `MaxSources`,
`MaxRequests`, `MaxRows`, `MaxLookups`, `MaxScenarios` (32 in the code), `Requests`,
`Revocable` and `Asked` of `Gateway`, and the sizes of the sets; each is a guard of the
action it bounds. `ScanLimit` is the 100 of `work_tenants`. `pick` and `comparables` have
no type invariant, which nothing in their code could break; it is part of `PickInv` and
`MarketInv`, which are proved. Runs of computations that end, or whose
bounds are used up, do not check for deadlock; the batch queue's runs do. `comparables`
uses the symmetry of the two properties, which nothing orders; it has no liveness property.

Two runs show disagreements of the code with its documents:

1. `batch_shutdown`: the comment at `jobs.go:167` promises that a separate timeout lets
   cancelled requests relinquish their leases. The timeout derives from the cancelled
   context, so after SIGTERM the finish transaction fails at once, and an item whose
   analysis is stored waits for its lease to expire and loses an attempt.
2. `catalog_reproducible`: ARCHITECTURE.md:50 says that earlier queries can reproduce what
   was known before. A lookup between an import's timestamp and its commit, for what is
   known at that moment, finds the old value, and the same lookup afterwards the new one.

## 4. Fairness

Three runs have liveness properties.

* `BatchQueue!FairSpec`: the ticker of `Work` fires every second (`Poll`), the timeouts
  end every call (`Process`), time passes (`Tick`), and a process that was told to stop
  is restarted (`restart: unless-stopped` in `compose.yaml`; `batch_liveness` runs without the signal). The fairness is weak
  throughout; no fault is ever required to happen or to stop. Faults use up attempts,
  which are bounded, so items settle however often faults happen. Crashes need no
  fairness: the model restarts in the same step. With scans that leave tenants out,
  items settle because the listed tenants' items do, after which only the others are
  left to list; more than `ScanLimit` tenants that always have new work could keep others
  waiting (the model has finitely many items).
* `IdempotentWrites!FairSpec`: each handler's 40 s context ends every wait, and the
  server finishes every COMMIT. Requests need not arrive.
* `Gateway!Fairness`: a request's next statement is made if it can be made again and again
  (strong fairness), because pgxpool and PostgreSQL hand out connections and advisory
  locks in the order they were asked for; the database ends every COMMIT it has. Nothing
  is assumed of timeouts or of time: that requests end must not depend on the 40 s. A
  client that never sends its body is outside this assumption; it ends by the timeout.

## 5. Proofs

| Module | Theorems | Assumptions |
|---|---|---|
| `BatchQueueProofs` | `TypeCorrect`, `Invariance`, one per safety property of the batch queue, and `QueueKeepsPromise`: `BatchQueue` implements `ItemPromise` | `TimingAssumption`, `QueueAssumption` |
| `IdempotentWritesProofs` | `WritesTypeCorrect`, `NoDuplicateKeyHolds`, `AnswersMatchRecordHolds`, `WritesKeepPromise`: `IdempotentWrites` implements `WriteOnce` | `WritesAssumption` |
| `CatalogProofs` | `CatalogTypeCorrect`, `AtMostOneVersionHolds`, `RowsCiteTheirSourceHolds`, `CatalogImplementsTimeline`: `Catalog` implements `Timeline` | `CatalogAssumption` |
| `GatewayProofs` | `GatewayTypeCorrect`, `TenantsAreIsolatedHolds`, `EveryWriteIsAuditedHolds`, `RevocationIsPromptHolds` | `GatewayAssumption` |
| `PickProofs` | `ChoiceIsStrictlyBestHolds`, `RefusedOnlyForOneKeyTwiceHolds` | `PickAssumption` |
| `AnalysisProofs` | `PlanningTypeCorrect`, `ReferenceIsGroundedHolds`, `OneVintageHolds`, `OneAllowancePerServiceHolds`, `VerdictsAgreeHolds` | `PlanningAssumption` |
| | `NewestOfEachPropertyHolds`, `PastSamplesStandHolds` | `ComparablesAssumption` |
| `RateLimiterProofs` | `RateLimiterTypeCorrect`, `BurstIsBoundedHolds`, `RefusalHasCauseHolds` | `LimiterAssumption` |
| `RentCoreProofs` | `RentTypeCorrect`, `EquityIsNeverNegativeHolds`, `NothingOverflowsHolds`, `NoiIsWithinCentsHolds`, `MoreRentNeverCostsHolds`, `LoanIsRepaidHolds` | `RentAssumption` |

* **BatchQueue.** No property is inductive alone. `IndInv` adds why they hold: tokens are
  fresh (`TokensAreFresh`), a worker whose token is still in the row has scanned that
  row's attempts (`HolderIsCurrent`), what it is about to report is stored
  (`ResultIsStored`), and the lease time left plus the age of its current timeout covers
  what its timeouts can still use up (`LeaseIsAhead`); with it, only running items are
  leased (`OnlyRunningIsLeased`). The count of attempts (`AttemptsStep`) follows from it: an
  attempt that runs well has the row to itself (`RunsWellRow`), so what goes wrong is
  counted once. That work and finish take less than the lease
  (`TimingAssumption`) matters for `LeaseIsAhead` only. The refinement maps `row` to what `listJobs`
  shows; each action is one step of the promise or invisible.
* **IdempotentWrites.** Who is past the lookup under the lock holds it
  (`HoldersHaveTheLock`), so what the lookup did not find is still not there when the
  COMMIT takes effect (`NothingFoundIsStillTrue`), also when the COMMIT has outlived its
  request. With it every COMMIT is the `Win` of `WriteOnce` and every answer one of its
  answers. That no key is called "none" is assumed, because the promise uses the name for
  a request without a key.
* **Catalog.** A row covers a rectangle of days and moments of knowledge, and accepted
  rows of a key never meet (`RowsAreApart`). A commit cuts the rows it supersedes at its
  own timestamp; what it writes above the timestamp can only meet rows that reach past
  it, which are the current ones, because imports take the lock before the timestamp
  (`ClosedBeforeNow`). The refinement follows cell by cell: where the bundle is
  published its row is the only one, elsewhere the old row, its closed part or one of its
  slices is.
* **Gateway.** Facts about the programs come first (`Sound`): no transaction begins in
  another one, a COMMIT has all writes of its program before it or none. `GatewayInv` has
  a part per theorem: a connection in use has its user's tenant and only for its transaction, an idle one
  has none (`ConnectionsAreClean`); what is pending or stored is what the program has
  written so far (`WritesAreWhole`); a running request is
  younger than its deadline until it answers, and its key was valid when it began
  (`KeysAreRecent`); of a COMMIT whose request is over only its owner is known.
* **Pick.** `Best` says what the loop knows of the rows behind it; the weights 2 and 1
  tell the four grades of a row apart, so two rows of one grade have one policy key.
* **Planning.** `PlanningInv` says that the rows read are one of the lookups in `history`
  and that sources, figures and plan are still what follows from them (`Choice`,
  `Computed`). For the references the sum of the allowances is the same expression on both
  sides. For the types and the two verdicts it has to be an amount: there is one row for
  each utility code, the codes are finitely many (`utilityGroup` of `types.go` lists them),
  and `TotalIsNat` says that such a sum is a natural number.
* **Comparables.** `MarketInv`: observations have ids of their own, so that the order of the
  loop is total, and those of one import one `recorded_at`. The loop invariant is
  `Considered`: after any part of the candidates, what is chosen is the newest acceptable
  observation of each property among them and what is seen are their properties;
  `ConsiderTheLast` is one turn of the loop. A commit adds only observations that were
  recorded later than `known`, so by `NewestOfEachProperty` in both states the choice is
  the same, and `Selected` depends on nothing else. This needs all observations to be
  candidates (`AllAreCandidates`), which is why the property has the limit as a condition.
* **Sums and loops.** The library's induction theorems take an operator, which the provers
  cannot instantiate. `AnalysisProofs` begins with the same for sets: a family of subsets of a
  finite set has a member without a smaller one (`MinimalSet`, from the well-foundedness
  of the strict subset ordering), hence `SubsetInduction`. A fold of the library is a
  function chosen by its recursion, so it must be shown to exist: `FoldExists` glues the
  folds of smaller sets, which agree by `FoldIsUnique`. The loop of `compare` does not
  need this, `Considered` is the function.
* **RateLimiter.** The code keeps a start and a count for each client, the properties
  speak of every span of one window in `log`. `BucketsCount` ties them: a bucket has
  counted exactly what passed since its start, up to the limit, at most one limit passed
  in the window before its start, and nothing passed after its window. A sweep forgets
  buckets, so `TheRestAreQuiet` says what is left to know of a client without one: at most
  one limit passed in the last window and nothing at this moment. A span that begins before the bucket
  is then the part before its start, at most one limit, and the part since, at
  most one. `RefusalHasCause` follows from the same two: a full bucket has let through
  what it counts, and a bucket that a sweep kept has let something through.
* **RentCore.** Each flow is `Cashflow` of assumptions that were validated. Rounding is
  bounded once, for one `Fraction`, and added up; that no sum overflows follows from the
  limits on money and from `MaxInt >= (50 * MaxCents + 2) * Bps`, which holds for 10^12
  cents, 10^4 basis points and 64 bits.

Every safety property of a passing run is proved, each for all values of the constants.
Model-checked only is what needs fairness (`EveryItemSettles`, `LocksAreReleased`,
`EveryRequestIsAnswered`): the prover has no rule for ENABLED, in which fairness is
defined. The bounds of the models (`MaxTime`, `MaxRequests`, `MaxLookups` and the like)
are constants too, so the theorems hold for each of their values.

## 6. What is left out

* Wording, logging, JSON, CSV and SQL syntax, hashes (two digests are equal exactly when
  the data is), distances and medians.
* `BatchQueue`: a COMMIT whose answer is lost takes effect at once (its taking effect
  later is in `IdempotentWrites`); a tenant that waits behind 100 others whose work never ends.
* `Catalog`: authorities and the change log, of which an import inserts what its bundle
  says; rejected bundles; an external key that is imported again, which changes nothing
  (`--accept` of a pending bundle included: only approve accepts it); one key in the run (the proofs are for any number).
* `Gateway`: what a statement asks for and answers (the columns of a CSV file, filters,
  pages); the health check and static files, which touch no tenant; the request limit,
  which is `RateLimiter` by itself, is one of the reasons for `Screen`.
* `Planning`: HUD benchmarks, the demo checks beyond "does not fit", most warnings, replay.
* `RentCore`: a request without underwriting or rent has no cash flows and is not modelled.
* `Comparables`: lookups with more candidates than the limit of 2000, which is applied
  before the moment of knowledge, so that `PastSamplesStand` does not hold for them; two
  imports that overlap in time; a bad observation (it is excluded like
  an unfit one); `rolling_group_evaluation`.
* `RateLimiter`: a count beyond the limit plus one, which refuses the same requests.

Not modelled at all, because nothing more of them can be stated faithfully against the code:

* **Python service.** Its comparison is in `Comparables` and its failure in `Planning`. The
  slots of `service.py` are a non-blocking counter given back in a `finally`; the retries
  of the provider are a loop of three calls. No document promises a bound on either.
* **Rust service.** Stateless; `calculate` is in `Planning` and `RentCore`.
* **Administration.** One command, one transaction, run by an operator by hand; revoking a
  key is an action of `Gateway`.
* **Browser client.** What a page shows. Its requests are those of `Gateway` and
  `IdempotentWrites`, and the server trusts nothing the page keeps.
* **HUD benchmarks, benchmarks and integrity scripts.** Pure input, and tools that are
  not part of the running system.

## 7. Plan

What could still be added, in this order:

1. `Analysis`: `IdempotentWrites` composed with `Planning`: what the retry of a degraded
   answer gets.
2. Two imports of comparables that overlap in time, with the horizon as the earliest
   `recorded_at` of either. `MarketInv` would keep one `recorded_at` for each of them.
