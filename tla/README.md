# Verification of the dashiy backend

The backend pulls advertising figures from Utmify, stores them in PostgreSQL,
works out which collaborators (copywriters and editors) each ad names and what
commission each of them is due, and serves dashboards from what it stored, to
companies and users it keeps the accounts of.
This directory holds TLA+ models of the parts where concurrency, failure and
ordering decide whether the right people are paid the right amounts, shown the
right figures and let in, TLC configurations that check them on small
instances, and TLAPS proofs of the properties that matter most, for every
value of the constants.

Paths below are relative to `src/`.

## 1. Inventory

| component | source | state it keeps | operations | models |
|---|---|---|---|---|
| ad sync service | `internal/sync/service.go` | `utmify_dashboards`, niches, `ads`, `ad_metric_snapshots`, `ad_collaborators`, `commission_entries` | `SyncToday`, `syncDashboard`, `syncAdObject`, `LinkCollaboratorToAds` | CommissionSync; Portal (shortened, with several dashboards) |
| commission calculation | `internal/commissions/service.go`, `db/query/commission_rules.sql` | `commission_entries` of transactions | `ApplyForTransaction`, `resolveRule`, `CalculateProfitBasedCommission` | Nomenclature (the last one) |
| ad name parser | `internal/ads/parser.go` | none | `ParseName`, `parse7`, `parse6` | Nomenclature |
| background scheduler | `internal/workers/scheduler.go` | stop channel, semaphore, dashboards, summary and ad object snapshots | `Start`, `Stop`, `loop`, four jobs | CommissionSync (the ad metrics job), SummaryJob (loop, stop, the summary job), AdObjects (the ad objects job) |
| Utmify client | `internal/utmify/client.go` | none (remote service) | `GetDashboards`, `GetAdObjects`, `GetDashboardSummary`, `callTool` with its retries | UtmifyCalls; its answers and errors in every module that asks |
| collaborators administration | `internal/http/handlers/collaborators.go` | `users`, access lists, overrides on `ad_collaborators` | `Create`, `Update`, `Delete`, `UpdateDashboardCommission`, `SetDashboardAccess`, `MonthlyCommissions`, lists | CompanyAccounts (the first three, as rows of `users`), CommissionSync (the first three, for what they cause), DashboardReads (`SetDashboardAccess`), Portal (`MonthlyCommissions`) |
| collaborator portal | `internal/http/handlers/collaborator.go` | reads only | `Me`, `MeHistory`: joins and sums over links, snapshots and entries | Portal |
| dashboard access | `internal/http/handlers/dashboard_access.go` | `dashboard_access_overrides` | `loadAccessibleDashboards`, `filterDashboardsByID` | DashboardReads |
| dashboard handler | `internal/http/handlers/dashboard.go` | Redis entries, 1 and 5 minutes | `Summary`, `History` | DashboardReads |
| ad objects handler | `internal/http/handlers/adobjects.go` | reads only | `List`, `listByDashboard`, `listByCompany` | AdObjects |
| ads handler | `internal/http/handlers/ads.go` | reads only | filters, pages | - |
| sync handler | `internal/http/handlers/sync.go` | none | `POST /sync/today` | CommissionSync |
| authentication | `internal/auth/*.go`, `internal/http/handlers/auth.go`, `system.go` | `system_users`, `companies`, `users`, signed tokens | setup, logins, change of password, companies and their users | SystemAccounts, CompanyAccounts, CompanySetup, CompanyDirectory |
| routing, middleware | `internal/http/router.go`, `internal/http/middleware` | the locals of one request | guards of groups and routes | Routing |
| Redis cache | `internal/cache/redis.go` | keys with a time to live | get, set, delete | DashboardReads, AdObjects (get, set) |
| container, commands | `internal/app`, `cmd` | the process | start, stop, `create-system-user` | CommissionSync (`Restart`), SystemAccounts (the command) |
| configuration, database, logging | `internal/config`, `internal/platform` | none | environment, pools | - |
| generated queries | `internal/db/sqlc` | none | generated | - |
| company data endpoints | `internal/http/handlers/company_data.go` | - | not wired in the router | - |
| schema | `db/migrations` | unique keys, checks, amounts | migrations | Tables, CommissionSync, SystemAccounts, CompanyAccounts, CompanySetup |
| webhooks, job queue | `README.md` only | - | described, absent from the code | - |

### How the components interact

* A request meets the entries of the **router** in the order they were
  registered; a guard puts the caller's identity into the locals, from a token
  the **authentication** signed earlier or from headers, and the handler reads
  it there. Nobody looks at the user's row again.
* The **scheduler** starts one goroutine per job. The ad metrics job calls
  `SyncToday` for every company that already has a dashboard registered
  (`internal/workers/scheduler.go:648-721`). **`POST /sync/today`** calls the
  same function for the caller's company at any time, so calls may overlap.
* `SyncToday` lists the company's dashboards through the **Utmify client**,
  takes the local date of each and fetches its ad objects *before* it opens a
  transaction. `syncDashboard` then writes the dashboard, its niche, and for each ad
  the ad, its snapshot, and a link and a commission entry for every active
  **collaborator** whose code the ad's name holds.
* **`Create`** of a collaborator answers its request and starts a goroutine
  that runs `LinkCollaboratorToAds`: the two `INSERT ... SELECT` statements
  write the same two tables as the sync, in a transaction of their own.
* **`Update`** and **`Delete`** change the rows from which every later sync
  computes links and entries, and from which every later login makes its
  session. They never touch what has been written or signed.
* The **portal**, the **reports**, the **dashboard handler** and the **ad
  objects handler** read what syncs and jobs wrote, the last two also through
  the **cache**, and ask Utmify when neither has an answer.
* All calls share one Utmify and its rate limit.

### What makes this hard, and what correctness means

| component | hard behaviour | what must hold |
|---|---|---|
| sync and backfill | two kinds of transaction, Read Committed, on the same rows; figures fetched before the lock; failures and restarts part-way; deadlocks | an entry has its snapshot; amounts agree with snapshots; nobody is paid by accident; a day changes as a whole; the current day catches up |
| accounts | every handler reads in one statement and writes in another; `Update` writes back what it read, in two statements; a token outlives its user | a session speaks for a row that was there; an overlap loses no more than the overlap; who is sent away is out at last |
| companies | two inserts of one transaction, unique slugs and e-mails that are waited for | companies appear whole; conflicts are real; nobody waits for ever |
| router | the same routes three times, groups that match more than their own paths, a token that expires between two guards | a handler runs behind its own guards, with its request's identity |
| portal | two queries per page, several links and entries for one ad, ads that are renamed or move | the figures of one page, and of the month, agree |
| scheduler | stop while a job runs; semaphore, wait group and results channel; a limit of time for several levels | every dashboard is fetched once per run; a stop ends the loop; rows catch up |
| Utmify client | a retry for every rate limit answer, inside the job's time limit | nobody gives up before the limit is lifted, or outlives the context |
| dashboards, access, cache | a cached answer outlives the access or the data it came from | an answer is only for whom it was computed; what it shows was visible and stored not long ago |

Each hazard, at its line and with the properties that cover it, is listed in
`PROJECT.json`.

## 2. Modules

| module | role |
|---|---|
| `Tables` | tables as partial functions; the two conflict clauses, `Upsert` and `Missing` |
| `Nomenclature` | what an ad name decides (codes and roles) and how commissions are computed, by the Go code and by the backfill's SQL |
| `CommissionSync` | the sync, the backfill, the administrators, Utmify, the calendar, failures, deadlocks and restarts |
| `SummaryJob` | the loop of a job and its stop; a run of the dashboard summary job, one goroutine per dashboard |
| `SummaryRounds` | what that job promises: rounds of questions, each answered once |
| `AdObjects` | the ad objects job, level after level, its rows and keys, and the handler that reads them meanwhile |
| `DashboardReads` | requests for summaries and histories, access overrides, links, stored summaries, Redis and its clock |
| `SystemAccounts` | system users: setup, login, the command line |
| `CompanyAccounts` | users of a company: login, token, change of password, `Create`, `Update`, `Delete` |
| `CompanySetup` | companies with their first administrator, further users, and the list of them |
| `CompanyDirectory` | what that promises: companies appear whole, slugs and e-mails are unique, nothing disappears |
| `Routing` | one request, any endpoint, token and headers, through the stack of the router |
| `Portal` | the pages of a collaborator and an administrator's month, while syncs and a backfill write |
| `UtmifyCalls` | a burst of tool calls, their retries, time limits, and Utmify's rate limit |
| `MCCommissionSync`, `MCDashboardReads`, `MCCompanyAccounts`, `MCPortal` | names and figures of the instances TLC checks |
| `MCSummaryJob` | `SummaryJob` and `AdObjects` in one instance |
| `MCCompany` | `CompanyAccounts`, `CompanySetup` and the liveness of `DashboardReads` in one instance |
| `MCFront` | `Routing`, `SystemAccounts`, `Portal` and `UtmifyCalls` in one instance |
| `CommissionSyncProofs` | type correctness; every link and every amount follows from something Utmify reported and from a collaborator's own row |
| `CommissionPaymentProofs` | entries have snapshots; payees are paid on the snapshot; the backfill only adds; a day changes as a whole and, once closed, gains only what a backfill adds for its own collaborator |
| `SummaryJobProofs` | the slots, the channel, the rows and the refinement of `SummaryRounds`; `AdObjects`: nothing is shown that is behind its row |
| `DashboardReadsProofs` | an answer shows only what its own reader could see |
| `RoutingProofs` | the inductive invariant of the router |
| `FrontProofs` | `SystemAccounts`: sessions are vouched for, setup stays closed and touches no row; `UtmifyCalls`: calls end in time, a burst outlasts the limit; `Portal`: the figures of a page and of the month agree, with lemmas on sums over finite sets; the theorems of `MCFront` |
| `CompanySetupProofs` | the refinement of `CompanyDirectory`; conflicts are real, lists whole |
| `CompanyProofs` | `CompanyAccounts`: sessions and passwords are vouched for, e-mails stay unique, rates ordered, updates lose only overlaps; the theorems of `MCCompany` |

**Composition.** Modules interact through tables that several of them model
each at the detail it needs: `CommissionSync` has `users` as codes and rates,
`CompanyAccounts` as accounts; `Portal` repeats the sync and the backfill in three
actions each, down to what its queries can tell apart. `MCSummaryJob`, `MCCompany` and
`MCFront` put modules that share no state in one instance: a variable
`part` names, from the start, the module whose behaviour this one is, and
the variables of the others never change. The states are the sum of those of
the parts, never their product. A property of a part is checked on all
the behaviours of that part, and on the others it holds of a state that stays
initial; a liveness property has its fairness restricted to its own part
(`WF_v(part = "x" /\ A)`), so nothing is assumed of a part that stands still. The
constants of the parts that theorems speak of are constants of these modules too, so that a theorem
about `MCSpec` holds for all of their values, and the `.cfg` gives them those of the run.

### CommissionSync: state

| variable | in the code |
|---|---|
| `users` | table `users`, collaborators of one company: `code`, `commission_rate_min`, `status` |
| `db` | committed rows of `utmify_dashboards`, `ads` (`name_parsed`), `ad_metric_snapshots` (`net`), `ad_collaborators` (`commission_percentage`) and `commission_entries` (`base_amount`, percentage, value), each keyed by its unique constraint |
| `tx[p]` | the uncommitted rows of the transaction of process `p`; a user stands for its backfill goroutine |
| `sync[s]` | a call of `SyncToday`: `pc`, the date it took, the batch it fetched, the ads left to write, and the links and entries of the collaborators found for the current ad |
| `link[u]` | the goroutine started by `Create`: `pc`, its arguments, and what its current statement has found |
| `report`, `today` | what Utmify reports for each day, and the dashboard's local date |
| `reported`, `registered`, `payees`, `asOf` | history, read by no guard: they let the properties speak of the past |

### CommissionSync: actions

| action | code |
|---|---|
| `SyncStart`, `SyncFetch` | `SyncToday` up to its call of `syncDashboard`: date first, figures next, without a lock |
| `SyncBegin` | begin, and the upsert of dashboard and niche, which is what makes two calls on one dashboard wait for each other |
| `SyncAdObject`, `SyncPay` | `syncAdObject`: ad, snapshot and the query of the collaborators; then the upserts of their links and entries, which may wait for a backfill |
| `SyncCommit`, `SyncFail` | commit; any error, with the rollback |
| `LinkQueryAds`, `LinkUpsertLinks` | first statement of `LinkCollaboratorToAds`: the rows it sees, and its `DO UPDATE` after a possible wait |
| `LinkQuerySnapshots`, `LinkInsertEntries` | second statement: it looks the ads up again; `DO NOTHING` after a possible wait |
| `LinkCommit`, `LinkFail` | commit; an error that is logged and never tried again |
| `DeadlockVictim` | PostgreSQL aborts one of two transactions that wait for each other |
| `Restart` | the process dies anywhere; only committed rows survive |
| `CreateCollaborator`, `UpdateCollaborator`, `DeleteCollaborator` | the three handlers; `UNIQUE (company_id, code)` is a guard |
| `Revise`, `NextDay` | Utmify and the calendar |

### SummaryJob: state

| variable | in the code |
|---|---|
| `loop`, `stopping` | where `loop` is, and within a run where `syncDashboardSummary` is; the channel `s.stop` |
| `expired` | `ctx.Done()` of the run's `context.WithTimeout` |
| `asked` | what `GetDashboards` listed |
| `pc[d]`, `answer[d]` | the goroutine of dashboard `d` and the `input` it builds |
| `sem`, `wg`, `results`, `closed`, `items` | the semaphore, the wait group, the buffered channel and the slice of `fetchAndPersistSummaries` |
| `stored` | table `dashboard_summary_snapshots`, for the date of the run |
| `before` | history: `stored` when the run began |

### SummaryJob: actions

| action | code |
|---|---|
| `Stop`, `LoopStops`, `Tick` | `Stop` closes the channel; the `select` of `loop` chooses among what is ready |
| `Expire` | the run's time limit, at any point of it |
| `List`, `ListFails` | `GetDashboards`, and the making of semaphore, wait group and channel |
| `Spawn`, `SpawnCloser`, `CloseResults` | `wg.Add` and `go`; the goroutine that waits for the group and closes the channel |
| `Acquire`, `Refuse` | the `select` on the semaphore and the context |
| `Fetched`, `FetchFails`, `PauseEnds`, `GivesUp` | `fetchDashboardSummaryWithRetry`: two calls with a pause between them that the context cuts short |
| `Store` | the upsert; if it fails the row may be there or not, and the answer remains a success |
| `Send`, `Release`, `Finish` | the send, and the two deferred calls, last deferred first |
| `Receive`, `RunEnds` | the `range` over the channel; the run's end |

`SummaryRounds` forgets the goroutines. Its phase is read off `loop`, and its
answers are those of the dashboards in `items`.

### DashboardReads: state

| variable | in the code |
|---|---|
| `linked` | `ad_collaborators` joined with the niches of `utmify_dashboards`: which dashboards each collaborator has ads in |
| `blocked` | rows of `dashboard_access_overrides` with `allowed = false` |
| `stored` | the version of each dashboard's row in `dashboard_summary_snapshots`, for the date asked for |
| `cache` | the keys `dashboard:summary:...` and `dashboard:history:...` in Redis: the answer, and its age in ticks |
| `req[r]` | a request: where it is, its scope, kind and `dashboard` parameter, the dashboards left to read and the figures read |
| `had`, `since` | history, in entries and requests: what each reader could see since the request, or the one its answer comes from, began |

### DashboardReads: actions

| action | code |
|---|---|
| `Begin` | `loadAccessibleDashboards` and `filterDashboardsByID`: always before Redis is asked; with nothing to show the answer is empty, or 404 |
| `Hit`, `Miss` | `cache.Get`: found, or absent or an error |
| `ReadRow` | a turn of `resolveInputsFromDB`: the row, or Utmify if there is none or its query fails |
| `ReadPoints`, `PointsFail` | `loadHistoryPoints`: one query for all dashboards, or the request fails |
| `Answer` | the response and `cache.Set`, whose error is ignored |
| `Done` | the request is over |
| `Block`, `Allow` | `SetDashboardAccess` |
| `Link` | a sync or a backfill inserts a link; nothing removes one |
| `StoreSummary` | the upsert of the summary job |
| `Tick` | Redis ages its entries and drops those whose time is over |


### AdObjects: state and actions

`run` is the level of the run under way; `pc[d]` and `got[d]` the goroutine of
dashboard `d` and the batch it fetched; `rows` the table `ad_object_snapshots`;
`redis` the keys `ads:...`; `batch` what Utmify lists at present; `request` the
request being served, with the batches its rows had when it arrived.

| action | code |
|---|---|
| `Starts`, `ListFails`, `LevelEnds`, `Expires` | `syncAdObjects`: its list, its levels, its time limit |
| `Acquires`, `Refused`, `Fetches`, `FetchFails` | the `select` on the semaphore, and the fetch; what fails sends nothing |
| `Stores`, `StoreFails`, `Caches`, `CacheFails` | the upsert of the deduplicated objects, the `Set` of those fetched; errors are logged only |
| `Asks`, `Takes`, `FindsRow`, `MissesRow`, `FindsKey`, `MissesKey`, `AsksUtmify`, `Answered` | the handler: row, else key, else Utmify, dashboard by dashboard |
| `Revises`, `Drops` | Utmify lists another batch; a key's time is over |

`deduplicateAdObjects` is the function of that name as a fold; `IsUpToDate`
is its reference definition, which speaks of identifiers and last positions.

### SystemAccounts, CompanyAccounts: state and actions

Each request is a record (`request[r]`), or several functions of requests
(`pc`, `body`, `found`, `read`, `age`), with one action per statement, as every
handler reads in one and writes in another. A password stands for its hash.
`held` and `seen` are histories of the rows since the request arrived, `touched`
of the columns others changed since it read.

| action | code |
|---|---|
| `SetupCounts`, `SetupInserts`, `SetupConflicts` | `SetupInitialSystemUser`: `BootstrapStatus`, then the insert |
| `LoginReads`, `Records` (system), `LoginRecords` (company) | the row and the comparison; `last_login_at` and the signature |
| `CreateSystemUser`, `Deactivate`, `Suspend` | the command's upsert; somebody with access to the database |
| `ChangeReads`, `ChangeWrites` | `ChangeCompanyUserPassword` |
| `CreateArrives`, `CreateWrites` | `Create`: its checks, and the insert with the verdict of the table's constraints |
| `UpdateArrives`, `UpdateReads`, `UpdateWrites`, `UpdateResets` | `Update`: the read row merged with the body, written back, and a new password in a second statement |
| `Delete` | one statement: `status` and `active` |
| `Tick` | the age of tokens that can be used; nothing else ends them |
| `Fails`, `Returns`, `Leaves` | an error or a stop between two statements; the answer |

### CompanySetup: state and actions

`slugRow` and `userRow` say which request inserted a row; `committed` which of
their transactions are over. `Companies` and `Employed` are what everybody else sees.

| action | code |
|---|---|
| `InsertCompany`, `InsertAdmin`, `CommitCompany` | `CreateCompany`: each insert waits while its key is held by a row not yet committed |
| `CheckCompany`, `InsertUser` | `CreateCompanyUser` |
| `ReadCompanies` | `ListCompanies` with its count of users |
| `Fails` | an error, or the process stops: what is not committed is taken back |

Through the committed rows it implements `CompanyDirectory`: a company and its first
user appear in one step.

### Routing: state and actions

`request` is any of the requests there may be (prefix, endpoint, token, headers), `at` the
entry of the stack it has come to, `claims` and `scope` the two locals the guards
write. `Slots` are what one call of `registerRoutes` adds, and `Matches` says
which requests an entry meets, which is more than those of its own
registration for a group without a prefix. `SystemGuard`, `CompanyGuard`, `Me`,
`Handle` and `HandleScoped` are the middlewares and handlers; `Expire` is the clock
passing the token's expiry between any two of them.

### Portal: state and actions

`ads`, `links`, `snapshots` and `entries` are the four tables for one collaborator. `SyncReads`
and `SyncCommits`, `BackfillLinks` and `BackfillCommits` are the sync and the
backfill as far as pages can see them. `Asks`, `FirstQuery`, `SecondQuery` make a
page of `Me` or `MeHistory`; `TotalCommission`, `HistoryCommission`,
`HistoryRevenue`, `Spend` and `MonthlyCommission` are the SQL queries, with their joins
and their `DISTINCT`. `calm` says that nothing was committed between the two
queries.

### UtmifyCalls: state and actions

`call[c]` is a call: its tools left to ask, its attempt, the ticks of its request or wait
and of its whole life. `Served`, `Fails` and `Limited` are the answers of
`doToolCall`; `AsksAgain` and `Expires` the `select` between the wait and the
context. `served` and `phase` are Utmify's limit. `Tick` is five seconds, and
passes nothing that is `Due`.

### Abstractions

* `DashboardReads` is one company, its dashboards all registered and active, and one
  date or period. Staff of one role share their keys, so one reader stands for
  them. Figures are versions of a row. A time to live is one tick, or two where an
  entry must be able to age. A database error in `Begin` changes nothing and is
  left out.
* The summary job's keys in Redis are written and never read; they are left
  out, and so are the dates of the rows: a run that crosses midnight for one
  dashboard writes another row, which no other run writes. `AdObjects` is one
  date as well. A call of Utmify is one step there, whatever its retries. In the
  summary job it may succeed after the time limit expired: an answer may
  already have been on its way.
* **Read Committed.** A statement sees what was committed when it began and
  may then wait for rows another transaction holds. Where this matters (both
  statements of the backfill, and the sync's query of the collaborators
  against its upserts) it is two actions. `Blocked` is the wait.
* Within one statement, or one loop over the collaborators of an ad, locks
  are taken at once. The deadlocks that partial acquisition could add end as
  `SyncFail` or `LinkFail` does: one transaction is rolled back.
* An ad name is its pair of codes, or `Unparseable`; how the text is split is
  not modelled. A net profit is one number: chargebacks are never in an ad
  object, and `centsToMoney` makes every figure a whole number of cents.
  A rate is a whole percentage. `PercentOf` is PostgreSQL's `numeric(16,2)`
  rounding, on both paths.
* In `CommissionSync`, `Update` writes any row whose code is free. The fields a
  request omits come from a row read earlier, so every combination is
  possible; `CompanyAccounts` has how they come about, without the code, which is
  written as the role is.
* A changed code makes an `UPDATE` of `users` wait for transactions that hold
  a foreign key lock on the row. It only delays the update and is left out.
* In `Portal` an ad earns the same every day and whoever has a part in it gets
  as much, with figures of which no two sets of rows have the same sum: the
  properties are about which rows are counted, and how often. Impressions, clicks,
  orders and labels are further sums and words of the same rows.
* `CompanyAccounts` is one company. `CompanySetup` has several and leaves out what a
  row says beside its key. Nothing in the code deactivates a company or a
  system user, but every login looks: `Suspend` and `Deactivate` are somebody with
  access to the database.
* In `UtmifyCalls` the limit is a quota in a window of time, which is how the comment on the
  constants of the client (`12 * 5s = 60s max`) describes it. Timers are on time.

## 3. Runs

| run | instance | checks |
|---|---|---|
| `overlap` | CommissionSync: ticker and a manual call, one collaborator, one ad with two possible names, a loss and a profit, two revisions, one failure | `TypeOK`, `EntriesHaveSnapshots`, `EntriesJustified`, `PaidOnSnapshot`, `LinksJustified`, `BackfillOnlyAdds` |
| `settles` | CommissionSync: the ticker and, early, overlapping manual calls, two ads, two days, a profit and a loss, two revisions, an edit, a failure, fairness | `SyncIsAtomic`, `ClosedDaysStay`, `EventuallySettled` |
| `job` | SummaryJob: two dashboards, one slot, two figures; AdObjects: two dashboards, one with a profile, two levels, one slot, two batches, one failure; fairness | `WithinSlots`, `ClosedWhenQuiet`, `AnswersMatchRows`, `ImplementsRounds`, `EveryRunEnds`, `StopsAtLast`; `NeverBehindTheRow`, `StoredAtLast` |
| `access` | DashboardReads: a collaborator and the staff, two dashboards of which one may be named, summaries and histories | `TypeOK`, `OwnScope`, `CheckedEachTime` |
| `company` | CompanyAccounts: two users, two e-mails, passwords and rates, two requests, two edits; CompanySetup: three requests, two slugs, two e-mails; DashboardReads: a collaborator's histories of two dashboards, two versions; fairness | `SessionsAreVouched`, `RatesCheckNeverFires`, `PasswordsAreVouched`, `UpdatesLoseOnlyOverlaps`, `SentAwayAtLast`; `ConflictsAreReal`, `ListsAreWhole`, `EveryRequestEnds`, `ImplementsDirectory`; `BlockTakesEffect`, `StoredIsShown` |
| `front` | Routing: every endpoint, prefix, token and header; SystemAccounts: two e-mails, passwords, requests and commands; Portal: two ads, two dashboards, two days of which a page shows one, one change; UtmifyCalls: three calls, quota two, alone or in a crowd | `IdentityIsTheRequests`, `BehindItsGuards`, `ServedWithoutPrefix`; `SessionsAreVouched`, `SetupsKeepOthers`; `TotalIsTheHistorys`, `MonthlyShowsNoLess`; `OutlastsTheLimit`, `EndsInTime` |
| `orphan` | CommissionSync: one manual call and one backfill | `EntriesHaveLinks` is **violated** |
| `history` | CommissionSync: one manual call and one backfill | `HistoryIsLinked` is **violated** |
| `block` | DashboardReads, as `access` | `BlockHolds` is **violated** |
| `setup` | SystemAccounts: three requests | `OneInitialUser` is **violated** |
| `deleted` | CompanyAccounts: an `Update` and a `Delete` | `DeletedStayInactive` is **violated** |
| `roas` | Portal: two ads, two days, one change | `RoasIsOfOneAggregation` is **violated** |

What the properties say:

* `EntriesHaveSnapshots`: a commission entry is about a snapshot that is
  committed. The two writers insert in different orders from different
  sources, and either may be rolled back between any two statements.
* `PaidOnSnapshot`: whoever the sync that wrote a snapshot meant to pay has
  an entry, computed on that snapshot's net profit. This is what `DO NOTHING`, the
  order of the upserts and the lock on the niche row achieve together.
* `LinksJustified`, `EntriesJustified`: every link and entry follows from a
  name the ad had and from a code and rate the collaborator had, and every
  amount from a net profit reported for that ad and day. A rename, a swap of
  codes between two collaborators, or an edit while a sync waits cannot mix
  the rows of different people.
* `BackfillOnlyAdds`: the commit of a backfill changes no committed entry.
* `SyncIsAtomic`: snapshots change only by the commit of a sync, and it leaves exactly the ads it
  fetched with the names and figures of that fetch.
* `ClosedDaysStay`: once a day is over for the dashboard and no call that took its
  date is under way, its snapshots and entries are final, and it gains only the
  entries of one collaborator, when the backfill of that collaborator commits. This
  is also what the code does not do: the last figures of a day may never
  be fetched, and a sync that failed late in the evening leaves the day as it is
  (`internal/sync/service.go:84` asks for today only). Nothing
  but a backfill repairs a past day, and the backfill starts from the snapshots that are there.
* `EventuallySettled`: when Utmify and the administrators leave things alone,
  the current day ends up with the right names, figures, links and entries,
  whatever failed before, provided some sync once registered the dashboard. Figures
  are fetched before the lock is taken (`internal/sync/service.go:85`), so of two
  overlapping calls the one that fetched first may commit last and put older figures
  over newer ones; in this run it does, at most for a time. Meanwhile
  the entries go with the figures (`PaidOnSnapshot`), and a later call of the ticker
  brings the newer ones back.
* `WithinSlots`: at most `maxConcurrentFetches` goroutines talk to Utmify or
  to PostgreSQL, counted by where they are and not by the semaphore's tokens.
* `ClosedWhenQuiet`: the channel is closed when all goroutines are done; none
  sends on a closed channel, and none of a former run is still about.
* `AnswersMatchRows`: a dashboard reported as failed has the row of the former
  run; one reported with a summary has that summary or, when the upsert
  failed, the row of the former run. It never has anything else.
* `ImplementsRounds`: `SummaryRounds` as a whole: one answer per dashboard and
  run, none changed once received, no run over before all are collected,
  nothing after the stop.
* `EveryRunEnds`, `StopsAtLast`: no goroutine waits for ever on the semaphore, the
  channel or the wait group, even if the time limit never expires; a stop ends the
  loop, whatever it was doing.
* `NeverBehindTheRow`: what a request shows of a dashboard's ads is not older
  than the row there was when it arrived, unless its own query failed. An
  upsert may fail and leave the row behind the key in Redis, or the other way
  round; reading the row first is what makes this true.
* `StoredAtLast`: when Utmify's figures stay and nothing fails any more, every
  level of every dashboard is stored as listed, each id once. No failed fetch keeps
  its slot, and no time limit leaves the later levels without a turn for ever.
* `OwnScope`: whoever filled Redis, an answer shows only dashboards its own
  reader could see since the request it comes from began. It relates the
  keys in Redis, what administrators did meanwhile and who asks.
* `CheckedEachTime`: a dashboard asked for by name is shown only to somebody
  who could see it during this very request, since the handlers look at the
  access before they look in Redis.
* `BlockTakesEffect`: a block that stays takes effect, even on a collaborator
  who asks without pause: a hit does not renew the entry.
* `StoredIsShown`: once no newer figures are stored, answers show the last, or
  those Utmify gave when a row could not be read. A request that read the
  older ones may put them in Redis after the newer ones were stored, but not for
  ever.
* `SessionsAreVouched` (of both kinds of account): a session speaks for a row
  that was active and had the e-mail and password of the login, all at one
  moment since the login arrived, and its claims are of that moment. What
  was read may be stale when the token is signed; it is never made up.
* `SetupsKeepOthers`: a setup never changes a row that exists, so of two with one
  e-mail the one that got a session is the one that holds.
* `PasswordsAreVouched`: a password is replaced by an `Update` that asks for it or by
  somebody who knew one the user had while the change was under way. It need not be
  the one that is replaced: a reset in between is lost, a stranger is not let in.
* `UpdatesLoseOnlyOverlaps`: `Update` changes a column to what was asked, or
  takes back what somebody else wrote since it read the row. It is the
  lost update, and nothing more.
* `RatesCheckNeverFires`: the rates are checked as merged and written both, so no
  overlap of updates meets the `CHECK` of the table.
* `SentAwayAtLast`: nothing revokes a token, yet who stays deleted, or whose
  company stays suspended, has no usable session at last.
* `ConflictsAreReal`, `ListsAreWhole`, `ImplementsDirectory`, `EveryRequestEnds`: who
  is told that a slug or e-mail exists met a committed row, never one that was
  taken back; companies appear with their user; and transactions that wait for
  each other's keys never do so in a circle, even if answers are lost.
* `IdentityIsTheRequests`, `BehindItsGuards`, `ServedWithoutPrefix`: the same routes
  are registered under three prefixes and a group's guard meets requests of later
  registrations too. Nevertheless a handler sees the identity of its own token
  (or headers), runs behind all guards of its group, and without a prefix
  serves whoever brings what it needs. With a prefix the public and the system
  endpoints do not: see below.
* `TotalIsTheHistorys`: the total of a portal page and the sum of its
  history come from two queries that join entries in different ways; unless something
  was committed in between, they agree.
* `MonthlyShowsNoLess`: an administrator is shown for the month what the collaborator is
  shown, and more only if the backfill left entries without links.
* `OutlastsTheLimit`: in a burst of calls twice as large as Utmify serves in a
  minute nobody gives up, whenever in the minute it comes and however slowly the calls run.
  With a larger burst, or with others who spend the quota as well, somebody may: the
  property is stated for what the comment promises and no more.
* `EndsInTime`: a job's call never outlives its context, asking or waiting; a
  handler's ends after all the attempts of all its tools.

**Bounds.** In `overlap` and `settles`, `MaxRevisions`, `MaxEdits`, `MaxFailures` and
`LastDay` bound the world. Two calls are enough to have one wait for the other and
one overtake the other. One failure, of any kind
and at any point, is enough to leave each intermediate state behind; what
several failures do is covered by the proofs, which have no bound, and so is
a swap of codes between two collaborators. Two
revisions give a snapshot an older and a newer figure, and in `overlap` a
rename together with the change from loss to profit.

`MCCommissionSync` narrows `settles` further, by action constraints on steps that nobody is obliged to
take, so that fairness is untouched. `FiguresInTurn`: the first revision is a profit, the second
a loss, each of them news. `AdsInTurn`: the ad numbered first is reported
first; otherwise the two ads are alike. `ManualEarly`: while a manual call runs it is the first day
and only one ad is reported, which is enough for two calls to overlap in all
ways and for the older figures to be committed last. `overlap` has no such conditions.

In `job` each of two dashboards has to wait for the other, and two figures tell the
row of a run from that of the former one. The second batch of ad objects lists an id
twice and objects without one. One failure, of a call, a statement or the
time limit, can leave row and key apart. Nothing in `SummaryJob` counts without end.

In `access`, summaries and histories, which share no key in Redis, are not asked for and kept at the
same time (`OneKindAtATime`). In `access` and `company` one dashboard can be blocked and the other visible. One
request at a time, of either reader, finds in Redis what earlier ones left;
that overlapping requests add nothing is proved. In `company` only the
collaborator asks for histories (`CollaboratorAsks`): the staff have a key of their own and block nobody.
`MaxVersions` bounds how often a summary is stored; an older and a newer one
are enough for `StoredIsShown`. Of users, one is there at first and one may be
created; `MaxEdits` allows any two of create, update, delete, change of
password and suspension to overlap with logins; the bodies of `Update` are
those of `MixedAsks`, one column each. Three setup requests are enough for one to wait for
another that waits itself, and for a list beside them.

In `front`, `MaxCommands` bounds the commands, `MaxChanges` renames and moves of
ads. One of the two days is outside of the pages' period. Twelve retries and the minute of the limit become three and three ticks, and
a job's limit of three minutes is as long as a wait of all of them and one
request; three calls ask for four tools, twice the quota. `Crowded` is the same burst
when others have spent the quota of the minute it begins in.

**Deadlock** is checked in `overlap`, `settles`, `access`, `company`, `orphan`, `history`, `block`,
`setup` and `deleted`: calls of `SyncToday` can always start again, time passes, requests
come again, and `CompanySetup` says by `Quiet` when nobody has anything left to ask.
`job`, `front` and `roas` set `CHECK_DEADLOCK FALSE`: the loop
really stops, a request is over when it is answered, and figures and days are bounded.

**Fairness.** In `settles`: the ticker starts its calls for ever
(`time.Ticker` in `loop`). A goroutine that can take a step takes it. PostgreSQL
detects deadlocks. A backfill, which syncs can make wait again and again, has strong
fairness: that is PostgreSQL's queue of waiters. Nothing is assumed of
manual calls, of administrators, of
Utmify, of the calendar or of failures; failures are bounded, which is to say
that they stop. In `job`: a run and its goroutines take the steps they can, calls to Utmify and
PostgreSQL end because the HTTP client has a time limit and the context another,
the loop's `select`, which chooses at random among what is ready, chooses the stop
channel at last if it finds it closed again and again (strong fairness of
`LoopStops`), and the ticker of the ad objects job fires for ever. Neither a stop nor the
expiry of a time limit is assumed ever to happen. In `company`: time passes; a login that
has begun gets an answer; PostgreSQL answers every statement of a setup that does
not wait; and a request for a history is served, its queries and calls being
bounded. Nobody has to ask for anything, to store anything, or to fail.

### What the violated properties show

* **`orphan`.** `LinkCollaboratorToAds` says of its second statement "Create
  commission_entries for every existing snapshot of those ads", those that
  statement 1 linked. Under Read Committed each statement looks the ads up by itself.
  An ad a sync commits between them gets entries and no link.
* **`history`.** The backfill exists "so that historical data is linked
  without requiring a full re-sync". A sync that looked the
  collaborators up before one was created, and commits after the
  backfill's second query, leaves snapshots that neither of them pays. The
  next sync repairs the current day only.
* **`block`.** The migration that creates the overrides says that an entry
  "with allowed=false blocks the collaborator even if linked via ads". A
  request for all dashboards is answered from Redis with what an earlier one was
  shown, up to one minute ago, or five, even if it begins after the block.
  `CheckedEachTime` says that a request for one dashboard is not.
* **`setup`.** "O usuario principal do sistema ja foi configurado", says the answer to a
  setup that comes too late, and `README.md:64-65` that setup is for when there is no
  system user. Two setups that count before either inserts both get a user and
  a session. `SetupStaysClosed` is what holds: one that *arrives* later never inserts.
* **`deleted`.** "Delete (soft delete)". An `Update` that read the row before writes its
  status back: the user is `active` for the sync, which pays by `status`,
  and not for the login, which looks at `active` as well.
* **`roas`.** "Reload spend values so ROAS reflects the same period aggregation." An ad
  renamed within a day, from the collaborator's copy code to the editor code, has two
  entries of theirs for that day; the join counts its revenue twice and its spend once.

Three smaller disagreements have no run, as one request shows them:

* `README.md:37-51` lists the public and system endpoints under `/api/v1`. The company group of
  the registration without a prefix (`internal/http/router.go:88`) matches them first and
  answers 401 or 403. `ServedWithoutPrefix` says where they do work.
* The role `desenvolvedor` passes `normalizeCollaboratorRole`
  (`internal/http/handlers/collaborators.go:873`) and fails the `CHECK` of
  `users.role`: `Create` and `Update` answer 500. `Verdict` has this as "role check".
* A request for ad objects without a date asks for the day in UTC
  (`internal/http/handlers/adobjects.go:36`), the job stores the dashboard's local day.

## 4. Proofs

All the theorems hold for any sets of callers, collaborators, ads, days,
names, figures and rates, and without the bounds mattering. Those about `CommissionSync` rest on
`ConstantsAssumption` (no caller is a collaborator, figures are integers, rates
and bounds are natural numbers) and on `CodesAssumption` (the empty code is no
code, `Unparseable` is no parsed name). Those about `SummaryJob` hold for any finite set
of dashboards, any number of slots and any figures, and rest on `JobAssumption`
(finitely many dashboards, at least one slot, the two special answers are no
figures). Those about `DashboardReads` hold for any readers, dashboards, requests at
once and times to live, and rest on `ReadsAssumption` (what may be named is a
dashboard, times to live are positive, special values are no versions). Those about the accounts
hold for any number of users, requests, e-mails, passwords, rates, bodies of `Update` and
lives of a token, and rest on `SystemAssumption` and `CompanyAssumption` (special
values are no rows or fields; the users there are at first have rates in order and
e-mails of their own; rates are natural numbers). TLC
evaluates these assumptions on every run. Those about `CompanySetup` hold for any requests,
slugs and e-mails under `Assumed`, which each of them states: `None` is no request, and there are finitely
many e-mails; `SetupAssumption` of `MCCompany` is the same. Those about `Routing` hold for any
companies and roles and rest on `NoneAssumption` (`None` is no scope and no answer). Those about `UtmifyCalls`
hold for any number of calls, retries and ticks, those about `Portal` for any ads, dashboards, roles
and days under `PagesAssumption` (they are finitely many, what an ad earns is a natural
number, as `CalculateProfitBasedCommission` makes it, and no role is `None`). The former rest on `TimesAssumption` (they are natural numbers,
a window has a tick) and, about bursts, on `BurstAssumption`: there are finitely many calls, they ask for
at most twice what Utmify serves in a window, and a call has as many retries as a window has
ticks. The last is what the client counts on ("12 * 5s = 60s max"); the first two say which bursts it
is right about, and `crowd` in `MCFront` is one it is not right about. That about `AdObjects` holds for any
dashboards, levels, slots and batches and rests on `AdsAssumption` (there is a level and a batch, what
is stored of a batch is not the mark of no row).

| theorem | property | argument |
|---|---|---|
| `TypeCorrect` | `TypeOK` | inductive by itself, one lemma per action; lemmas on `Upsert`, `Missing` and `Over` keep tables tables |
| `EntriesAlwaysHaveSnapshots`, `AlwaysPaidOnSnapshot`, `BackfillAlwaysOnlyAdds` | as named | one inductive invariant, `PayInv` |
| `SyncIsAlwaysAtomic` | `SyncIsAtomic` | `BatchWritten` beside `PayInv`'s types: what a writing sync has done of its batch |
| `ClosedDaysAlwaysStay` | `ClosedDaysStay` | `OwnEntries`, beside `BatchWritten` and `PayInv` |
| `LinksAlwaysJustified`, `EntriesAlwaysJustified` | as named | one inductive invariant, `OwedInv` |
| `JobTyped`, `SlotsSuffice`, `QuietWhenClosed`, `RowsMatchAnswers` | `TypeOK`, `WithinSlots`, `ClosedWhenQuiet`, `AnswersMatchRows` | one inductive invariant, `JobInv` |
| `JobIsRounds` | `ImplementsRounds` | every step maps to a step of `SummaryRounds` or to a stutter |
| `ReadsTyped`, `AlwaysOwnScope`, `AlwaysCheckedEachTime` | `TypeOK`, `OwnScope`, `CheckedEachTime` | one inductive invariant, `ReadsInv` |
| `SystemTyped`, `Vouched`, `SetupClosed`, `SetupsKeepOthersHolds` | `TypeOK`, `SessionsAreVouched`, `SetupStaysClosed`, `SetupsKeepOthers` | one inductive invariant, `IInv` of FrontProofs |
| `CompanyTyped`, `CompanyVouched`, `EmailsUnique`, `RatesNeverRefused`, `PasswordsVouchedFor`, `UpdatesLoseLittle` | `TypeOK`, `SessionsAreVouched`, `EmailsAreUnique`, `RatesCheckNeverFires`, `PasswordsAreVouched`, `UpdatesLoseOnlyOverlaps` | `IInv` of CompanyProofs, with `FreshIds` and `TouchedInv` beside it |
| `SetupIsDirectory`, `ConflictsHaveReasons`, `ListsAlwaysWhole` | `ImplementsDirectory`, `ConflictsAreReal`, `ListsAreWhole` of CompanySetup | one inductive invariant, `SetupInv`; every step shows nothing new, or what a step of `CompanyDirectory` shows |
| `ConflictsAreAlwaysReal`, `ListsAreAlwaysWhole`, `CompaniesAreADirectory` | the same, as `MCCompany` has them | the variables of `CompanySetup` take its steps |
| `NeverShownBehindTheRow` | `NeverBehindTheRow` | one inductive invariant, `AdsInv` |
| `IdentityIsAlwaysTheRequests`, `AlwaysBehindItsGuards`, `AlwaysServedWithoutPrefix` | `IdentityIsTheRequests`, `BehindItsGuards`, `ServedWithoutPrefix` | one inductive invariant, `RInv` of RoutingProofs |
| `CallsEndInTime` | `EndsInTime` | one inductive invariant, `AllInTime` |
| `TotalIsAlwaysTheHistorys`, `MonthAlwaysShowsNoLess` | `TotalIsTheHistorys`, `MonthlyShowsNoLess` | one inductive invariant, `PagesInv`, and lemmas on sums over finite sets |
| `BurstsOutlastTheLimit` | `OutlastsTheLimit` | one inductive invariant, `BurstInv` |

**Theorems of `MCSpec`.** A property of a part is proved of that part's `Init` and `Next`. In an
instance of several parts the variables of a part start in its initial states and every step is one of its
steps or leaves them alone (`PartsStep`), so its inductive invariant is one of
`MCSpec`. Where the part has proofs in a module of its own (`RoutingProofs`,
`CompanySetupProofs`), the theorems are taken from an `INSTANCE` of it with the same substitution.

**`PayInv`** (CommissionPaymentProofs). The two properties are about committed rows. To
preserve them, one has to know what open transactions hold:

* `NicheLock`: one call at most is writing;
* `OpenWrites`: a process that is not writing has no uncommitted rows, and
  a backfill has no snapshots;
* `EntriesApart`: two open transactions never hold an entry under
  the same key, and what a backfill has inserted is not committed by
  anyone else meanwhile. This is what the wait of `INSERT` gives, and the mutant
  without the wait breaks it;
* `EntriesGrounded`: every uncommitted entry has its snapshot, committed
  or in the same transaction;
* `PaidOrPaying`: every snapshot of an open transaction has its payees'
  entries in that transaction, or its call is about to write them.

**`BatchWritten`** and **`OwnEntries`** (CommissionPaymentProofs). That a day changes as a whole is a fact
about the commit, and rests on what the transaction holds by then: `BatchWritten` says that a
writing sync holds, of the ads it has dealt with, the names and figures it fetched, and no snapshot
of another ad or day. That a closed day stays closed is mostly this: whoever commits
a snapshot has taken its date and not ended. `OwnEntries` adds that a backfill finds and
holds entries of its own collaborator only. Neither counts the callers.

**`OwedInv`** (CommissionSyncProofs) follows each row back to its cause through
every place it rests in: committed tables, open transactions, the batch of a
call, the links and entries a call has computed and not yet written, and what a
statement of the backfill has found. `Recorded` ties the histories to the
world, and `OwedForever` says that histories only grow. The step that prices
a snapshot is where the two formulas, Go's and SQL's, are shown to agree.

**`JobInv`** (SummaryJobProofs). `TypeOK` alone is not inductive: that a release finds
a token and that `wg.Done` never counts below zero are facts about where the
goroutines are. `Counters` says that the semaphore and the wait group count
exactly the goroutines that hold a slot and those not done; `WithinRun` that
goroutines exist within a run and that a closed channel has seen them all
done; `SentOnce` that an answer is in the channel or received exactly if its
goroutine has sent it; `Found`, goroutine by goroutine, what it has found and which
row it has left. `GoroutineStep` says once what a step of one goroutine
must do to preserve all of it, and each action is an instance.

**`AdsInv`** (SummaryJobProofs). A row is written by the goroutine of its dashboard only, with what it
fetched. `Ahead` says that this is not behind the row about to be written, and not ahead of Utmify, so
rows never go back (`RowsGrow`). `Reading` says that what a request knew of the rows when it arrived is
still no more than what they hold, and that it looks further than the row, to Redis or to Utmify, only where it
knew of no row or its query failed: an old key can never take the place of a row.

**`ReadsInv`** (DashboardReadsProofs). An answer in Redis outlives the request that
computed it, so each entry carries what its answer rests on: `SoundEntry` says that
it shows only what the reader of its key could see and only what its
key names. `SoundRequest` says the same of a request at each of its
steps, and that one that asks Redis by name could see that dashboard. Entries and
histories grow together (`NotedKeeps`), which is why a hit may be as old as
it likes and `OwnScope` still holds.

**`IInv`** (FrontProofs). `HeldIsCurrent` says that a request under way
has in its history the row its e-mail has now, so that what a login reads is
in it. `LateMeansRegistered` says that nobody is ever unregistered, without which a
setup that arrived late could still count zero.

**`RInv`** (RoutingProofs). The stack of the router is 18 entries long: three prefixes, six entries each.
`LocalsAreTheRequests` says that the claims and the scope a request carries are its own token's and headers',
whichever guard, of whichever prefix, wrote them; `GuardsPassed` that past the guards of its own
registration it carries them; `NotPast` that whoever is to be served has not been carried past its handler.

**`AllInTime`** and **`BurstInv`** (FrontProofs). `InTime` bounds the age of a call by its attempts, each of
which costs at most a request and a wait. For a burst, `Left` counts what is still to be asked, and there are
two kinds of states: `Calm`, in which the present window has room for all of it, and `Patient`, in
which nobody has tried more often than the window has ticks, and who was refused was refused by a window
that is full. When a full window ends, a quota's worth of the burst has been served and the rest fits in the next:
`Patient` turns into `Calm`, and a calm burst is never refused.

**`PagesInv`** (FrontProofs). `Grounded` says that every entry is about a day that has a snapshot; with it, the
rows of a day of the history are the entries of that day among those the total counts (`DayOfHistory`),
and those of the month are at least the same (`MonthCounts`). `StillTrue` says that the total of a page under way is
what it would be now, unless something was committed. That equal rows have equal sums, that the sums of the days
are the sum of all and that more rows are no less are facts about `MapThenSumSet`, a recursive function that
picks one element at a time. The induction theorems of the library cannot be used on it, since they take an operator;
the section on sums argues instead from a smallest counterexample, which the well-foundedness of strict inclusion gives for a *set* of
counterexamples (`Least`): the recursive function exists (`Exists`), any two agree (`Unique`), and what is picked
first makes no difference (`TakeAway`).

**`IInv`** (CompanyProofs). What the table accepts depends on what a request read
before it. `BodyOK` and `ReadOK` say, place by place, what a request under way has brought and
read, above all that the rates it is about to write, merged from the body and an old row, are in
order; `RatesOrdered` is the same of the table. `SeesNow` says that a request under way has seen
the rows as they are, `VouchedFor` that who is about to sign or to replace a
password has a row in its history that knew the password. `EmailsAreUnique` is
preserved by the verdict of the table, for any `Update` in any overlap, because the e-mail
written is the row's present one or the one asked for. `FreshIds` (nobody else has found the id that
is being created) and `TouchedInv` (where the row an Update has read is not the row there is,
somebody has touched that column since) rest on it and are proved beside it.

**`SetupInv`** (CompanySetupProofs). A row that is not committed belongs to a request that is
between its insert and its commit, and that request is the one whose input names it (`Held`,
`Place`). So a commit publishes one company and one user and nothing else, and a rollback takes away nothing that
anybody has seen. `Informed` says that a request has met all that was committed since
it arrived, `Staffed` that each company has a user.

**Only model-checked.** `EventuallySettled`, `EveryRunEnds`, `StopsAtLast`, `StoredAtLast`,
`EveryRequestEnds`, `SentAwayAtLast`, `BlockTakesEffect` and `StoredIsShown` need
fairness and liveness, which are out of the prover's reach. Every safety property
that a passing run checks is also proved. What `deduplicateAdObjects`, a fold over a sequence, computes for every
input is checked on the batches of `job` only; no proof needs more of it than that its result is a result.

## 5. Plan

Done, in this order: `CommissionSync`; `SummaryJob` and `SummaryRounds`; `DashboardReads`; their proofs;
`SystemAccounts` and `CompanyAccounts` with their proofs; `CompanySetup` and
`CompanyDirectory` with theirs; `Routing`; `UtmifyCalls`; `AdObjects`; `Portal`; the proofs of `Routing`,
`UtmifyCalls`, `AdObjects` and `Portal`, and of what a day's snapshots may do.

Left, the most important first:

1. `UpdateDashboardCommission`: the override of a commission on one dashboard
   against the sync that writes the collaborator's own rate over it.
2. `CommissionSync` with two dashboards that share an ad: the lock on the niche row
   no longer protects the ad, its links and its entries.
3. The precedence of rules in `resolveRule` as a function, checked against a reference
   definition.
4. A bound in ticks on how stale an answer from Redis can be.

## 6. Not modelled

* The **ads handler** filters and pages rows that other modules write, and decides nothing.
* **Configuration, database and logging** are I/O before anything else runs.
* **Generated queries** are used by `ApplyForTransaction` only. That function and
  `resolveRule` have no caller, so what would call them, and in which order, is unknown: a model
  would have to invent it.
* The endpoints of **`company_data.go`** are not wired: no request reaches them. `listAllFallback` of
  the ad objects handler, and `Delete`, `DeletePattern` and `Expire` of the cache, have no caller either.
* **Webhooks and the job queue** of the repository's README do not exist in the code.
* **`UpdateDashboardCommission`** is a second writer of the column that `LinksJustified` ties to a
  collaborator's rate; `PROJECT.json` lists it as a hazard without a property.
* **Offers, accounts, campaigns and ad sets** are upserted on the way of a sync, and nothing decides
  by them. The **dashboards list** of the scheduler writes a key that nobody reads.
* Parsing of text, decoding, formatting, hashing and signing are pure functions or library calls
  without state of their own; the aggregation of summaries is sums and labels.
