# Personal Finance Hub: formal models and proofs

TLA+ models of Personal Finance Hub, TLC configurations that check them on small
instances, and TLAPS proofs of the main theorems. Paths below are relative to the
repository's root; paths without a directory are found under `src/` and `include/`.

## 1. The system

The backend is a C++ service over PostgreSQL, with in-memory adapters beside it, and a
browser frontend in TypeScript. Requests run on Drogon's threads, background jobs on a
bounded worker pool; several instances of the service share one database. Almost every
hard behaviour is an interleaving of database statements of different sessions, of
answers that arrive late, of crashes and of timers.

| Component | State | Operations | Talks to |
|---|---|---|---|
| Outbox and publisher (`outbox_publisher.cpp`, `postgres_outbox_repository.cpp`) | rows of `domain_events_outbox` with status, retry count, due time, lease, claim token | emit (with the business commit), claim, recover stale leases, mark published or failed, list unhandled dead letters | event bus, handlers, scheduler, operator |
| Event bus and supplemental audit (`local_event_bus.cpp`, `supplemental_audit_handler.cpp`) | registered handlers; `outbox_handler_receipts`, `audit_logs` | publish in registration order, stop at the first failure; append once per receipt | outbox |
| Operations (`postgres_operations_repository.cpp`) | `outbox_retry_commands` | retry a dead letter under an idempotency key | outbox |
| Ledger (`transaction_repository_impl.cpp`, the posting and account use cases) | `accounts`, `transactions`, `transfer_groups`, `transaction_corrections`, `transfer_corrections` | create, correct, soft-delete a transaction or transfer; open, change, archive, restore, delete an account | balance cache, idempotency, outbox |
| In-memory adapters (`in_memory_*.h`) | the same as maps under one mutex | a unit of work stages its writes and merges them at its end | use cases |
| Balance cache (`account_repository_impl.cpp`) | `account_balance_cache` | read through, fill, invalidate, rebuild | ledger |
| Request idempotency (`idempotency_repository_impl.cpp`) | `request_idempotency` | begin, complete, replay, expire, clean up | every create or correct use case |
| Scheduler (`recurring_job.cpp`, `bounded_thread_pool.cpp`, `job_manager.cpp`) | job flags, queue, workers, timers | start, stop, trigger, execute; submit, shutdown | publisher, refresh, cleanups |
| Job leases (`postgres_job_lease_repository.cpp`) | `scheduled_job_leases` | try_acquire, release | scheduler |
| Exchange rates (`refresh_exchange_rates_use_case.h`, `exchange_rate_providers.cpp`) | `exchange_rates`, append-only | refresh with a fallback provider; find latest, historical, range | scheduler, leases, reports |
| Authentication (`auth_service.cpp`, `auth_session_repository_impl.cpp`) | `refresh_tokens`, `revoked_sessions`, `revoked_access_tokens` | login, rotation with detection of reuse, logout, the filter's checks, cleanup | HTTP filter, frontend |
| Categories and tags (`category_repository_impl.cpp`, `tag_repository_impl.cpp`) | a tree per board; tags; their rows on transactions | create, restore, activate a template, rename, delete, list | ledger, reports |
| Reports (`report_query_service.h`, `report_analysis_query_service.cpp`) | none; several reads per report | dashboard, trend, analysis, export | ledger, rates, categories |
| Domain arithmetic (`decimal.cpp`, `transfer_domain_service.cpp`) | none | fixed-point arithmetic, the modes and fees of a transfer, conversions | ledger, reports |
| Frontend (`session.ts`, `http.ts`, `refresh-coordinator.ts`, `transactions.ts`) | stores per tab; a shared cookie, lock and broadcast channel | restore, login, refresh, logout; load, load more, detail, create, correct, delete | HTTP API |
| Preferences, HTTP parsing, configuration, views | one row per user; none | | |

What makes each component correct, and what is hard about it:

* **Outbox.** Every committed event reaches each of its handlers' effects exactly
  once before it counts as published, or ends as a dead letter that is audited.
  Hard: leases expire while the publisher still works, so two publishers may work
  on the same event; a mark may succeed although its caller sees an error; the
  process may die anywhere.
* **Ledger.** What concurrent requests do is what they would do one after the other:
  rows agree with their accounts, a correction replaces exactly one posting, nothing new
  reaches an archived account. Hard: checks and writes are separate statements; only row
  locks hold them together.
* **Balance cache.** A committed cache row is the exact balance. Hard: a fill races
  with a write, and a statement's snapshot is older than the locks it waits for.
* **Idempotency.** A key has one business write per lifetime, whatever is repeated, and
  every answer is that write's. Hard: attempts overlap; expiry, retries and the
  cleanup delete the same row; servers and database read different clocks.
* **Worker pool.** Every accepted task is run once, also when the pool is shut down
  meanwhile, and the shutdown returns. Hard: notifications come after the mutex is
  released; workers sleep, wake by themselves and exit between any two steps.
* **Recurring jobs.** A job runs once at a time in a process, is never left marked as
  running, and rests after `stop`; the process ends. Hard: runs are rejected by a full
  queue, skipped by a lease, and end while `stop` begins to wait for them.
* **Job leases.** Two servers run a job at the same time only when one has outlived its
  lease. Hard: late releases, crashes, lost replies, statements that wait for the row.
* **Exchange rates.** A refresh stores a rate for each currency or for none, and the alert
  of a failed one tells the truth about old rates. Hard: a host that outlived its lease
  goes on while another refreshes; queries without a common snapshot.
* **Authentication.** A refresh token is exchanged once, and a closed session stays closed.
  Hard: concurrent refreshes, reuse and logout cross at row locks; the cleanup removes
  what closes a session; requests read their clock and are slow.
* **Categories and tags.** The tree stays a tree of rows in use, names are unique, what old
  transactions say stays true. Hard: the walk to the root is not locked; unique indexes
  make writers wait for each other.
* **Reports.** The parts of a report agree with each other and with what was there. Hard:
  every statement has a snapshot of its own; rates are looked up in a window loaded once.
* **Domain arithmetic.** Computed as decimals are, or refused. Hard: the edge of 128 bits,
  derived amounts that are rounded, answers rebuilt from what was stored.
* **Frontend.** A tab shows the data of its user, in answer to its last question or as its
  corrections have made it since, and tabs that refresh together do not look like a thief.
  Hard: answers that come late.

`PROJECT.json` lists each hazard at its line together with the properties that
would catch it.

## 2. Modules

| Module | What it is |
|---|---|
| `Outbox` | the outbox, its publishers, handlers, operator and database clock |
| `OutboxDelivery` | the abstract promise of the outbox: queued, handled once, delivered or given up |
| `Ledger` | accounts, postings, corrections, locks and the balance cache, on PostgreSQL |
| `MemoryLedger` | the same use cases on the in-memory adapters, one unit of work a step: the specification that `Ledger` implements |
| `Idempotency` | the table of idempotency keys, the statements around a business write, the cleanup |
| `OncePerKey` | what idempotent writes promise their callers |
| `TaskPool` | what `IBackgroundExecutor` promises: bounded queue, each task once, a shutdown that drains |
| `WorkerPool` | `BoundedThreadPool`: threads, mutex, condition variable |
| `JobRuntime` | `JobManager`, `RecurringJob`, timers and the workers, on a `TaskPool` |
| `JobLease` | the lease row of one job and the servers that share it |
| `Rates` | the refresh of exchange rates as the job that a `JobLease` is held for |
| `Sessions` | login sessions, their refresh and access tokens, the cleanup |
| `Browser` | the tabs of one browser and the server's answers |
| `Catalog` | the categories and tags of a user, and the filing of a transaction, on PostgreSQL |
| `MemoryCatalog` | the same requests on the in-memory repositories, one step each: the specification that `Catalog` implements |
| `Decimals` | fixed-point arithmetic over a word, a scale and columns |
| `Transfers` | transfers from command to stored rows and back, on `Decimals` |
| `Reports` | reports and exports, statement by statement, on `Transfers` |
| `Figures` | one question of arithmetic at a time, on `Transfers` |
| `OutboxProofs`, `LedgerProofs`, `CommandsProofs` (idempotency, arithmetic and transfers), `SchedulerProofs` (pool, jobs, leases and the refresh of rates), `ReportsProofs`, `SessionsProofs`, `BrowserProofs`, `CatalogProofs` | theorems for all constants |
| `MC...` | constants for TLC |

Compositions: `JobRuntime` uses the actions of `TaskPool`, which `WorkerPool` is shown to
implement; a job's steps between `leasing` and `releasing` are the run of one host in
`JobLease`; `Rates` extends `JobLease` and refines its `acting`. `Reports` posts what
`Transfers` computes and converts with what `Decimals` computes. `Browser` keeps of
`Sessions` what a client can tell: the newest refresh token of a session, and whether it
is closed.

### Outbox

One action is one statement, one database transaction or one local step between
two of them. The row is kept as `status`, `retry_count`, `due`, `expired`,
`claim_token`; `claims` counts the claims of a row and serves as the source of
fresh tokens (`gen_random_uuid()`). The database clock is abstracted to two facts
the SQL reads off it, "the row is due" and "its lease has expired", which become
true by the actions of `Clock`; so no bound on time is needed.

A run of a publisher is `pc`: `auditing` (list unhandled dead letters and audit
them), `recovered` (after `claim_due`, auditing what lease recovery buried),
`loop`, `handling` (the bus calls the handlers), `failing` (before `mark_failed`),
`burying` (the audit of a row just buried). `claim_due` is one transaction with
two statements and is one action, `ClaimDue`, because rows it touches are locked
until it commits (`FOR UPDATE SKIP LOCKED` keeps concurrent claims apart).
Faults, bounded by `MaxFaults`: a failed audit, a handler that commits and is told
it failed, a mark that errs with or without effect, a crash. That a handler simply
fails is not a fault and not bounded.

Abstractions: one event type; the retry delay is "some time" (any retry waits for
the clock); the order of `locked_at` among stale rows is left open; a publisher that
cannot list dead letters or claim has merely not started its run; the bounded-length
checks on names and error texts are left out. An operator's revival keeps the receipts of
its event (`postgres_operations_repository.cpp:291`), and the receipt of the dead-letter
audit tells only that the event has one: when a revived row is buried again, that audit is
taken for done, so the second burial leaves no audit of its own. The model does the same,
and `Resolves` asks for one audit per event, not for one per burial. The validation of the publisher's
configuration is the assumption `OutboxAssumption`.

### Ledger

A posting is what a use case writes as one: a transaction, or a transfer with all
rows of its group. `money[g]` gives the currency of its row on each account, so a
transfer is a posting with rows on several accounts. Amounts are abstracted by
identity: the balance of an account is the set of the active postings with a row on
it, which distinguishes any two ledgers that could have different sums.

Statements run under READ COMMITTED. A transaction's writes become visible at its
commit, so everything a transaction does after its last lock is one action. What is
split: every account lock (`LockAccount`), the recheck, sum and fill of `balance_of`,
and the statements that take a snapshot first and locks later
(`rebuild_balance_cache`; `physical_delete_transfers_touching_account`), whose
snapshot is kept in `snap` and `visible`. `NOWAIT` and refused accounts end the
request (`Refuse`); any statement may fail and any process may die (`Abort`), which
also stands for the version conflicts of account updates.

`op` and `pc` are the request of a session and where it stands; `plan` is what it
will write; `row` the posting whose rows it locked; `need` and `holds` the account
locks; `recent` is auxiliary: the balances its account had since the request began.

`MemoryLedger` has the same state without locks, requests and cache, and one action for
each use case over the in-memory adapters: checks and write together, or nothing, for
`InMemoryUnitOfWork` holds the store's mutex throughout and merges the staged maps only
when all went well. `Ledger` implements it: every commit is one of its units of work, every
other step writes nothing. That the checks made before the locks were awaited still hold
at the commit is what this says.

Left out: amounts, rounding, categories, tags, audit rows, several users (every
query is restricted to the tenant). In `MemoryLedger`, the balance cache: the in-memory
one is checked against the number of active rows and erased in the unit of work that
writes, so it cannot race; one difference is that an account's `save` keeps its cache row,
so that an account without rows whose currency changes keeps a cached zero of the old one.
Reads outside a unit of work are not locked there (`in_memory_store.h:150` asks that they
do not race).

### Idempotency

A request is one attempt that reaches a server; a caller who retries is another
request with the same `key` and `print` (the fingerprint). `key` stands for the
primary key of the table: user, operation, idempotency key. All protected use cases
run the same protocol in one transaction: `begin` (delete the expired row, insert,
select for update), the business write, `complete`, commit.

Under READ COMMITTED each statement has its own snapshot, and a statement that meets
a row changed by an open transaction waits and looks again. The DELETE and the SELECT
are therefore two steps each, the second of them guarded by `Mine` (no other
transaction has changed the row); what the snapshot showed is `target`. A row that was
replaced meanwhile is another version, so the DELETE leaves it alone and the SELECT
returns nothing. `row` is the committed row of a key, named by the request that wrote
it; `writer` is the open transaction that deleted or inserted it. A row `in_progress`
is never committed, since `complete` runs in the transaction that inserted it: the
code's "still in progress" is unreachable, which `RowsHaveEffects` states. The stored
response is identified with the request that wrote it. A replay locks the row and
commits with nothing written, so it is one step. `Commit` may lose the reply.

`created` is the server's clock when the request arrives, at most `Skew` from the
database clock `now`; `expires_at` is `created + Lifetime`. The DELETE compares it
with the server's clock, the cleanup with the database's, as the code does. `effects`,
`made` and `answer` record what the properties talk about.

Of the business write only success or failure is kept; `Ledger` has the rest. The
key's and fingerprint's syntax and the decoding of stored responses are left out.

### Worker pool

A critical section of the pool's mutex is one action (`Push`, `Look`, `Close`);
`notify_one` and `notify_all` happen after the mutex is released and are actions of
their own (`Notify`, `NotifyAll`), so that workers may look, sleep or exit in between.
`worker` says where a worker is: `ready` to take the mutex, `asleep` in the wait,
`running` a task, `exited`. `WakeUnasked` is the spurious wakeup of a condition
variable. Tasks are identities; a task that throws ends like one that returns. The same
class serves the background jobs and the HTTP requests, whence several submitters.
Left out: an empty task, which `submit` refuses at once, and a constructor that fails.

### Recurring jobs

All of `start_all`, the timer callbacks, `stop_all` and the shutdown of the pool run on
one thread: the first is called by the event loop's beginning advice, timers fire in
the same loop, and the destructor of the composition root runs after the loop has
ended. `phase`, `call` and `target` are where this thread, `main`, is. It waits in
`stop` (`waiting` holds the predicate's mutex, `asleep` sleeps) while the workers go
through `step`: `leasing`, `acting`, `releasing`, `finishing`, `notifying`.
`started`, `stopping`, `running` are the flags of a job. Every job in production has
`run_immediately` set, so a started job triggers itself. A start may fail
(`StartFails`) before or after the timer; either way its flags are as before. The
lease may be granted, refused or fail; the use case may return, fail or throw; the
control flow afterwards is the same.

Left out: the runtime snapshot, `conflict` results of starting twice, which no caller
provokes, and an executor that throws, which is handled like one that rejects.

### Job leases

One row per job, kept for ever; so one job is modelled. `live` is "`lease_until` is in
the future", and becomes false by `Lapse` or a release, so no bound on time is needed;
`over[h]` is the same of the lease that `h` was granted. `NOW()` is the time a
transaction starts: a statement that started while the lease was live is refused even
if it is over when the statement gets the row. `inTime` records that. It is assumed
that no statement waits longer than a lease lasts. Of tokens only identity matters;
those that nobody refers to any more may be drawn again.

A reply may be lost after the row was written (`GrantUnheard`), a release may fail,
a process may die at any time and comes back under a new random instance id (`Departed`
stands for all former ones).

`Docs/Architecture/12_Scheduler_Design.md:112` says that acquiring also succeeds for
the same owner. The code has no such case: the owner of a live lease, whose release
failed or whose grant it never heard of, is refused until the lease is over
(`postgres_job_lease_repository.cpp:49`, and the in-memory adapter alike). The model
follows the code; `JobActsAgain` holds with it.

### Exchange rates

`Rates` refines the time in which a host of `JobLease` acts: list the currencies of open
accounts and of users, ask the primary provider, then the fallback, then append the rates
in one transaction, or check for old rates, currency by currency, and raise the alert. An
answer is the set of currencies it names and of those with a usable rate; a provider may
answer with any. A host goes on when its lease is over: nothing fences its writes.

Left out: the HTTP exchange, the values of rates (`Reports` has those) and their
timestamps. A fallback rate's timestamp may lie in the past, or up to five minutes in the
future, so an answer about a past time can change when it arrives later; the code accepts
that.

### Sessions

A pair of tokens is named by its refresh token: `issued` is the issuing time of both,
`parent` the token it was exchanged for. A refresh is four steps: find the row with
`FOR UPDATE`, wait for it, check, rotate and commit; a reuse or a logout closes the
session, by an upsert into `revoked_sessions` and an UPDATE that locks the rows of the
session one by one. `now` is read once per request, so a slow request compares with an old
clock, by at most `Patience`. The filter's checks (`Admits`) are a predicate of a token
and such a time. The cleanup deletes rows that are past their expiry.

Two consequences of the code that the properties allow on purpose: a token stored while a
closing is under way survives it (`OnlyRacersSurvive` bounds its age), and a chain of
refreshes can keep a closing waiting.

Left out: passwords, signatures, users, the rate limiter of logins.

### Catalog

One user's tree per board and the tags, with the rows numbered as they are inserted. A
behaviour is about one of the two tables (`scope`), for no statement locks rows of both. It
begins with what registration installs: the templates of the user's language (`Shipped`), a
child under the row of its parent. A
transaction is `work[w]`: statements that read, `FOR UPDATE NOWAIT` on parents and
children (refused when locked), the insertion or update that meets other writers of its key
in the unique index and waits there, and the commit. The walk to the root reads each
ancestor in a statement of its own; the model takes it in one step, because from a parent
that is locked and in use the walk stays what it is, whatever others commit (`WalkKept` of
the proofs). A filing transaction takes the lock of its category, a tagging one `FOR SHARE` on its tags, and waits.
Creation restores a deleted namesake, or activates a template under the row of its parent
template.

`MemoryCatalog` is what one mutex makes of the same requests: find, check and save are one
step. It is a stronger promise than the tree invariant, for it says of every commit which
request it was and that all that request had checked was still so. One difference of the
two was found on the way and is in the specification: on PostgreSQL the identity of a root
category that a template installs is guarded by the index on names only, so a template may
be activated twice (a first request finds no row of it; a second one inserts the row and a
third renames it; the first inserts another). The in-memory repositories cannot do that.
Under a parent it cannot happen on PostgreSQL either: the lock on the parent's row is held
from the search to the commit.

Left out: sort order, audit rows.

### Browser

A tab runs tasks on the token endpoints (restore, login, the refresh that its calls share,
logout) and calls on everything else. Generations of `session.ts`, `http.ts` and the stores
are only compared with the current one, so a task or call carries whether it is still
`current`. The lock `pfh-web-refresh-lock` is held by one task of all tabs. The server is
what a client can see of it: `newest` is the version of a session's usable refresh token; an
older one closes the session and counts as an alarm. The environment lets access tokens
lapse, reloads pages and cuts off exchanges, within a budget.

A transaction is `<<thing, n>>`, what the n-th correction has made of it: the server stores
each correction as a new transaction, whose answer `correctSelected` shows in place of the
one corrected (`DetailAfter`). `wanted` is the transaction last asked for, so the detail may
be a later `n` of it (`Succeeds`). A correction or deletion is made on the transaction shown
and is under way in the slot of the store's one action; `load`, `loadDetail` and the next
action abort it, `loadMore` does not. When its answer comes, the code takes the row of the
transaction shown *by then* from the list (`transactions.ts:193`); the last part of `AsAsked`
says that it is still the one the correction or deletion was made on. The server corrects
and deletes a transaction for its own user only (`Found`), which matters after a refresh has
brought another user's token.

Behaviours of the code that the properties leave room for: a cookie that another tab's
login replaced gives this tab the other user's token at its next refresh (`swapped`;
`Docs/Architecture/13_Frontend_Design.md` has one user per browser in mind); a late
'anonymous' message logs a newer login out; an exchange that was cut off makes the next
one look like a reuse, which closes the session (`broken`); the refreshes inside `logout`
set a token without a generation check (`QuietWithoutUser` excepts that moment).

Left out: the rows of a page (a detail refreshes its row, a correction or deletion takes it
out; a page that `loadMore` asked for before that and is answered after it may bring the old
row back, until the list is loaded anew), the intent keys, the flag that aggregates are out
of date, the fallback of the lock in `localStorage`, the `loading` flags (an aborted list
request leaves `listState` at `loading` while a detail is shown), and the other stores,
which repeat the patterns of the transaction store.

### Decimals, Transfers, Figures

`Decimals` translates `decimal.cpp`: products that may wrap in the unsigned word and the
checks for it, sums that wrap in two's complement, quotients, rounding half to even,
reading and printing. `Word` and `Scale` are parameters. `Transfers` has the shape check,
the three builders, the validation with its tolerance, the rows that are stored and the two
ways back to the answer, from the rows and from the stored response. `Figures` asks one
question at a time and compares with exact arithmetic, which TLC has.

Of the parameters is assumed what the code's have: the word is a multiple of four
(`WordAssumption`), the questions are numbers of the word and texts of digits
(`QuestionAssumption`), no text is taken for the absence of one (`NoneAssumption`), and the
columns stay below the headroom of the word
(`ColumnAssumption`: with 2^128, `NUMERIC(20,8)` and `NUMERIC(20,10)`, numbers of 10 fraction
digits, about 10^22 and 10^22 against 8.5 * 10^37).

Left out: blanks and malformed characters, comparison and hashing.

### Reports

A report is a sequence of reads, each with a snapshot of its own: pages of rows by
keyset, categories, balances per account, and per pair of currencies one window of rates
with the last one before it. Between any two of them rows are posted, corrected and
deleted, categories created, rates appended. The figures (`CashFlow`, `Trend`, `Breakdown`,
`NetWorth`, `Distribution`, `TopExpenses`) are computed from what was read and converted.

`report` is the state of the running report: its `file` of rows, its balances (`points`), the
`tree` of categories, the `cache` of rate windows, the rows and balances converted to the base
currency (`lines`, `values`) and the `dimension` to cut by; `steady` and `ever` are auxiliary,
the rows that were there from the beginning and still are, and those that were there at some time.
`Due`, `Conversion` and `Asking` say what is to be converted, at what time, and which pairs of
currencies that asks for; `LoadHistory` loads the window of the first pair that is missing.
Drafts, moves and quotes have times (`TimeAssumption`), the categories stored before are a
forest and rows name some of them (`CategoryAssumption`, foreign keys of the schema), there is
a page size, a row limit, a base currency and finitely many accounts, and the mark for
"nothing" is neither a number nor a kind of report (`ReportAssumption`). Stored amounts and
rates fit their columns, and what a command says is a number of the word
(`ColumnsAssumption`).

Every figure is a sum that the code adds up with checked arithmetic: `Plus` adds two numbers
or fails, `Total` adds a sequence, and `Sum` lets a report end only if each of its sums has
room in the word (`Summable`); it is refused otherwise, which happens in `figures`. An analysis
values its months one after the other and reads more in between.

Two assumptions about what surrounds a report: ids of rows and rates grow in the order in
which they become visible (a row or rate is numbered when it commits, where the code takes
its id from a sequence before that), and the accounts with
their currencies and types, and the user's base currency and time zone, stay as they are
while a report is drawn up.

What the code does not promise, and the model shows: an export that crosses a correction
may list neither or both of the old and the new row; the dashboard reads the balances of
the accounts one statement at a time, so a transfer in between is counted on one side; the
dashboard's balances include rows of the future, those of an analysis do not. Left out:
tags as a dimension, percentages (which may refuse a report that `Sum` lets end) and other
formatting, the age of rates, the CSV's text, categories that are moved, and the standalone
cash-flow and net-worth queries, which compute the same.

## 3. Runs

| Run | Instance | Shows |
|---|---|---|
| `outbox` | 2 events (one with a handler, one without), 2 publishers, batch 2, retry limit 2, 1 fault, 1 operator key | `ClaimsSound`, `DeliveredExactlyOnce`, `DeadLetterIffExhausted`, `SettledByHolder`, `DeliverySpec`, `Resolves` |
| `ledger` | 2 accounts, 2 postings, 2 currencies, 2 sessions, the requests `LockingOps` | `PostingsSound`, `CacheExact`, `ReadsRecent`, `MemorySpec` |
| `ledger_live` | 2 accounts, 1 posting, 2 sessions, every way to wait | `RequestsEnd` |
| `ledger_rebuild` | 2 accounts, 2 postings | **violation** of `CacheExact` by a rebuild |
| `idempotency` | 3 attempts, 2 keys, 2 fingerprints, lifetime 1, skew 1, time up to 2, batch 1 | `AnswersSound`, `PromiseSpec`, `RequestsEnd`, `ExpiredRowsGo` |
| `pool` | 2 submitters, 3 workers, 2 tasks, a queue of 2 | `PoolSound`, `PromiseSpec`, `ShutdownReturns` |
| `jobs` | 3 jobs, one of them leased, 2 workers, a queue of 1 | `JobsSound`, `StopsQuiet`, `ProcessEnds`, `JobsGoOn` |
| `rates` | 2 servers, 3 tokens, 2 currencies | `RefreshSound`, `LeaseSound`, `JobActsAgain` |
| `sessions` | 2 sessions, 3 tokens in use, 2 requests at a time, time up to 4 | `TokensSound`, `ClosingHolds`, `SomebodyMoves` |
| `browser` | three casts: two tabs; two tabs, one with a list; one tab with a busy page, whose things are corrected once each | `NoFalseAlarm`, `OwnScreen`, `AsAsked`, `WaitsEnd` |
| `catalog` | 2 writers, 2 boards, 2 names, an installed template and a child of it added later, depth 2, 3 rows | `CatalogueSound`, `OnlySwapsDeadlock`, `MemorySpec` |
| `figures` | numbers of two places in a word of 2^19, some thousand transfer commands; reports over 5 rows, 5 rates, pages of one row, months of two days | `NumbersSound`, `TransfersSound`, `RowsSound`, `RatesInForce`, `PartsAgree` |

A property with "Sound" in its name is a conjunction: `ClaimsSound`, say, is the type
invariant of `Outbox` with `ClaimAccounting` and `ClaimsExclusive`; `NumbersSound` is of
arithmetic (`PairSound`, `SumSound`) and of what is read and printed (`TextSound`);
`TransfersSound` of the tolerance, the rows and the answers of a transfer; `RowsSound` of the
rows of a report (`PagesSound`) and their categories (`RowsCategorized`). Each property has a
mutation of the code's model, listed in `PROJECT.json`, which violates it in the same run.

Why the bounds suffice. Two publishers are what it takes to lose a claim and have it
taken over; two events make a batch with a tail and a choice of what is claimed; a
retry limit of two has a first failure that is not the last; one revival starts the
count again. Two handlers and more faults are beyond a run of minutes; there the proofs
hold for any number. Two sessions are what every race of the ledger needs: one that waits
or has read, one that commits. Two accounts make a transfer and a lock order; two postings
a correction, or two competing requests.
Three attempts on a key are one whose row expires and two that race for its successor; the
third has either another request on the same key or another key, so that a batch of one
leaves an expired row behind. Attempts and keys are alike, so two assignments of keys and
fingerprints stand for all (`CanonicalInit`), and the retry comes second (`RetrySecond`).
Three workers can sleep, run and exit at once, and a queue of two is neither always
empty nor always full. With three jobs, two workers and a queue of one a job is
running, queued or rejected at the same time; in production the queue (64) is longer
than the list of jobs (4), and a rejection is rare, which makes it worth checking.
Two servers are a holder that has outlived its lease and one that asks; a
token is always left, for at most two are in use. Two currencies can tear a batch.
Two sessions and three tokens, which are used again when nothing refers to them, have two
requests with one token beside a third token stored meanwhile; the clock has a lapsed
closing. Two writers of the catalogue are one that walks and one that changes what it has
walked over; a depth of two has a parent and a child, three rows a namesake beside them.
In `figures` the word is as small as amounts of one digit and one place and rates of two
places allow, so that every overflow check is met; the reports have a row before, at and
after each edge of a month, two rows at one time, and rates before, in and after the window.

Some runs leave out combinations of two things that are each in the run (`CONSTRAINT
Scene`), to stay within minutes. `ledger`: balance reads take part where the accounts have
one currency, the other requests also where they have two; a balance is read of one account
and in its currency. `sessions`: a second session, which a request could mix up with the
first, is there while nothing is closed and the first access tokens last; the lapses of a
closing are looked at with one. `browser`: exchanges are cut off in the casts of two idle
tabs and of one busy page, not in the one with both. `figures`: a report begins while at
least one write is still to come. In each the proofs, where there
are some, hold without the constraint. `RetrySecond` is a symmetry, not a restriction.

Symmetry sets are used in runs of safety properties only. Deadlock checking is off in
`ledger_live`, `idempotency`, `sessions` and `browser`, whose ids, attempts, tokens or
budget are finally used up, and in `pool` and `jobs`, which end with their process.

Bounds in guards: `MaxFaults`, `RetryKeys`, `Messages` in `Outbox`; `Postings`, `Accounts`
in `Ledger`, where `Room` keeps a fresh posting id for every write in progress; `Requests`
and `MaxTime` in `Idempotency`; `MaxClock` in `Sessions`; `budget` and `cast` (with
its `calls` and `corrections`) in `Browser`;
`MaxRows` in `Catalog`; `MaxRows`, `MaxRates`, `MaxWrites` in `Reports`.

### Fairness

`Outbox!FairSpec`: weak fairness of what an undisturbed publisher does next
(`OutboxPublisherJob` is started again and again by its timer, and every step of
`run_once` runs to the next), and of the database clock, by which retries come due and
leases end. Nothing is assumed of handlers: they may fail for ever. Nothing is assumed of
the operator. `Resolves` asks of a committed event that it comes to rest, published or
buried with its burial on record; that an operator may disturb that rest is no exception
to it.

`Ledger!FairSpec`: strong fairness of each session's next step. A waiter for a row
lock is queued by PostgreSQL and gets the lock though others take it again and again.

`Idempotency!FairSpec`: weak fairness of the requests together, some request that can
goes on, and of the cleanup, which its recurring job starts again and again. That is less
than fairness of each request, and suffices: each is made once and has finitely many
statements, so one that can go on is not passed over for ever.

`WorkerPool!FairPool` and `JobRuntime!FairSpec`: weak fairness of what each thread does
next: the operating system schedules threads, and tasks end. Nothing is assumed of
submitters, of wakeups without a notification, or of the shutdown's beginning. A
timer's callback is served with strong fairness (`Fire`): the loop is busy again and
again, and serves each timer that is due when it is not.

`Rates!FairRates`: weak fairness of the hosts' next steps together (the HTTP calls of a
refresh have timeouts) and of time, strong fairness of a grant that is possible again and
again: it may fail, lose its reply or meet a crash any number of times, but not always.

`Sessions`, `Catalog` and `Browser` state that nobody waits in vain as invariants
(`SomebodyMoves`, `OnlySwapsDeadlock`, `WaitsEnd`): whatever waits, waits for something that
is under way, or PostgreSQL's deadlock detector ends one of the two. No fairness is needed.
`Reports` and `Figures` have none.

### What the violation means

It concerns the statement "a committed cache row is itself a valid snapshot"
(`Docs/Architecture/05_Repository_and_Persistence_Design.md:321`, also
`02_Database_Design.md:164`), on which `balance_of` relies when it answers from the
row alone.

* `ledger_rebuild`: the rebuild's only statement takes its snapshot, then waits for
  the account lock that a posting holds; the posting commits; the rebuild gets the
  lock and upserts the sum of its snapshot, without the posting. Later reads answer
  from the row until the next write on the account.
* The purge of an account has the same flaw. Its statement takes a snapshot in which
  another account of a purged transfer has no cache row; before it locks that account a
  balance read fills the row; the purge then deletes the rows its snapshot shows, and
  the new one survives with the purged amount. TLC finds this with `Ops <- PurgeOps` in
  the configuration of `ledger_rebuild`; since it is the same property, it has no run.

The rows themselves are not concerned: `Serial` (below) holds with both.

## 4. Proofs

`OutboxProofs` proves, for all constants that satisfy `OutboxAssumption`:

| Theorem | States |
|---|---|
| `TypeCorrect` | `Spec => []TypeOK` |
| `ClaimsAccounted` | `Spec => []ClaimAccounting` |
| `NoSharedClaim` | `Spec => []ClaimsExclusive` |
| `SoundClaims` | `Spec => []ClaimsSound`, the three together |
| `ExactlyOnce` | `Spec => []DeliveredExactlyOnce` |
| `DeadLetters` | `Spec => []DeadLetterIffExhausted` |
| `Finality` | `Spec => ResolvedIsFinal` |
| `Holders` | `Spec => SettledByHolder` |
| `Implements` | `Spec => DeliverySpec` |

The argument rests on one inductive invariant, `IInv`. None of the properties is
inductive alone. That a published event was handled needs what a publisher has done
so far: every handler it has passed has left its receipt. That a mark under the right
token is legitimate needs that tokens never exceed the number of claims, that a held
token is the current one only while the row is processing, and that a publisher past
`loop` works on a row it holds. All row changes are a handful of moves (appears,
claimed, released, reclaimed, published, revived); `RowStep` shows that every action is
one of them or leaves the row alone, and each part of the invariant is then a
lemma about moves, not about actions. The refinement maps
`pending`, `processing` and `failed` to `queued` and receipts of bus handlers to
`handled`; the recovery of several leases in one transaction is why the abstract
`GiveUp` takes a set.

`LedgerProofs` proves, for all constants that satisfy `LedgerAssumption`:

| Theorem | States |
|---|---|
| `TypeCorrect` | `Spec => []TypeOK` |
| `RowsMatch` | `Spec => []RowsMatchAccounts` |
| `Corrections` | `Spec => []CorrectionsSound` |
| `SoundPostings` | `Spec => []PostingsSound`, the three together |
| `ArchivedClosed` | `Spec => ArchivedTakesNothingNew`: nothing new is posted to an archived account |
| `CacheIsExact` | without rebuilds and purges, `Spec => []CacheExact` |
| `ReadsAreRecent` | without rebuilds and purges, `Spec => []ReadsRecent` |

The invariant says what the locks are for. `LocksExclude`: no account and no posting
row is held by two sessions. `Shape`: what a request plans has the shape of its kind.
`OriginalsLive`: the posting that a correction or deletion has locked is still active.
`Covered`: an account that a write touches is locked or still to be locked.
`Checked`: what was checked of an account when it was locked stays true while it is.
From these every commit preserves the four properties. The cache needs one
part more, `CInv`: under a lock, what a balance read has summed is the balance, for
whoever would change it needs the lock. It is proved under the hypothesis `Usual`, that
neither a rebuild nor a purge is among `Ops`; with them the property is false, as the
violation shows.

It also proves `Serial`, `Spec => MemorySpec`: `Ledger` implements `MemoryLedger`,
for all constants, all kinds of request and without the hypothesis `Usual`. A step that is
no commit changes neither accounts nor postings (`OnlyCommitsWrite`). A commit finds, by
`Checked` and `OriginalsLive`, that what the request checked when it locked is still so,
which is what the in-memory use case checks in the same step (`CommitsHold`); its writes are
those the in-memory repositories stage. The one strengthening of the invariant is `PlansPost`:
a request that posts has something to post.

`CommandsProofs` proves, for all constants that satisfy `IdempotencyAssumption`:

| Theorem | States |
|---|---|
| `TypeCorrect` | `Spec => []TypeOK` |
| `RowsOfEffects` | `Spec => []RowsHaveEffects` |
| `RightAnswers` | `Spec => []AnswersFit` |
| `NoSecondEffect` | `Spec => []EffectsApart` |
| `SoundAnswers` | `Spec => []AnswersSound`, the four together |
| `Implements` | `Spec => PromiseSpec` |

The part that makes `EffectsApart` inductive is `Remembered`: every effect is either
remembered by its key's row, or its lifetime is over by the database clock, give or
take the skew. `Owners` says that a request which works owns its key, and that
whoever owns a key found it free or its row due; `Targets` that a row about to be
dropped has expired; `Ends` that only a finished request has an effect. With these,
every step maps to a step of `OncePerKey` or changes nothing there.

and of what a command says in figures, for every word, scale, column, text and command that
satisfy the assumptions above (`Decimals`, `Transfers`, `Figures`):

| Theorem | States |
|---|---|
| `NumbersAreSound` | `ProbeSpec => []NumbersSound` |
| `TransfersAreSound` | `ProbeSpec => []TransfersSound` |

A question keeps nothing, so the invariant is only that what was asked is a number of the
word, a text of digits or a command; the proofs are about operators.

* *Arithmetic.* A wrapped product is not the quotient's divisor times the quotient
  (`WrappedOK`), so a product that passes the check is exact; `NearestOK` relates truncated
  division, its remainder and the parity of the quotient to the nearest integer; `AddExact`
  does the same for a sum in two's complement.
* *What is defined step by step.* Powers of ten and the number that digits stand for are
  recursive functions, and those have a value only if there is a function that satisfies
  their equations. `Recursion` shows that there is one: the library has that every set of
  natural numbers has a least element, so a set that has 0 and goes from each number to the
  next has all of them (`Steps`, `Induction`, statements about sets and not about
  operators, which the provers can use). `TenToOK` and `TenToSum` are the laws of powers,
  `NumberBound` and `NumberConcat` those of digits.
* *Reading.* The parser keeps a prefix of the digits and rounds by the digit behind it and
  by whether any other is set (`Padded`, `Halves`). `CutOK` says that this is the comparison
  with one half, and `CutNearest` that the result is the nearest number, halves to even. The
  running check of the parser fails exactly when the number has no room (`PushedOK`,
  `ParseOK`, `TooLarge`): `ParseRight`. `ColumnKeeps` and `ColumnRefuses`: a column takes a
  text if and only if it is a number of its units.
* *Printing.* `DigitsOfOK` and `SplitOK` give the digits of a number and of its two parts,
  `PrintedReads` reads them back whatever zeros are cut or padded: `ToTextOK`, `ColumnReads`.
* *Transfers.* An amount that the builder derived is off by half a unit of its column and
  half a step of the rate (`ColumnNear`, `ProductNear`, `QuotientNear`), the validation
  multiplies again and is off by half a step more, and `Tolerance` is the sum of two rounded
  products that is not smaller (`FitsTolerance`). `ColumnAssumption` is what keeps those
  products below the headroom: a product that overflowed there would answer the tolerance 0.
  What an accepted command stores is what was typed (`StoredOK`, by `ColumnReads`); its two or
  three rows add up, account by account, to what it says (`RowsOK`, `EffectOK`:
  `ConservesOK`); and the answer rebuilt from them, or decoded, has every field of the first
  (`ReadBackOK`, `KeptAnswerOK`).

`SchedulerProofs` proves, for all constants that satisfy `WorkerPoolAssumption`:

| Theorem | States |
|---|---|
| `PoolTypes` | `PoolSpec => []PoolTypeOK` |
| `NoLostWakeup` | `PoolSpec => []NobodySleepsThrough` |
| `SoundPool` | `PoolSpec => []PoolSound`, both together |
| `PoolKeepsPromise` | `PoolSpec => PromiseSpec` |

The one part beside the properties is `ExitedLast`: a worker that has exited saw an
empty queue of a stopping pool, which stays empty. Hence a worker that is not asleep
when work is queued will look at it, and the join finds every accepted task done.

and, for all constants that satisfy `JobRuntimeAssumption`:

| Theorem | States |
|---|---|
| `TypeCorrect` | `Spec => []TypeOK` |
| `RunsAreAccounted` | `Spec => []RunsAccounted` |
| `StoppedJobsRest` | `Spec => []StoppedRests` |
| `PoolClosesQuiet` | `Spec => []QuietAtClose` |
| `SoundJobs`, `QuietStops` | `Spec => []JobsSound`, `Spec => []StopsQuiet` |

`FlagHasRun` and `RunsAlone` say of `main`, the queue and the workers what
`RunsAccounted` says with sets. `MainFits` relates what `main` does to the flags of the
job: it triggers only started jobs and waits only for jobs without a timer.
`StartedInOrder`: started are the jobs that the manager has counted. So when the count is
back at zero no job is started, by `StoppedRests` none runs, and by `RunsAlone` the
queue and the workers hold none: the pool closes on quiet workers (`ClosedLast` keeps it
so).

and, for all constants that satisfy `JobLeaseAssumption`:

| Theorem | States |
|---|---|
| `LeaseTypeCorrect` | `LeaseSpec => []LeaseTypeOK` |
| `LeaseIsKept` | `LeaseSpec => []HolderKeepsLease` |
| `RunsApart` | `LeaseSpec => []AloneWithinLease` |
| `LeaseWorks` | `LeaseSpec => []LeaseSound`, the three together |

With the types, which include that no two runs hold one token, `HolderKeepsLease` is
inductive: whoever could take the row needs it to be over, and whoever could release it
needs its token.

and of the job that the lease is held for, for any number of servers and currencies:

| Theorem | States |
|---|---|
| `KeepsLease` | `RatesSpec => LeaseSpec`: the job with its refresh is a job under a lease |
| `RefreshUnderLease` | `RatesSpec => []LeaseSound` |
| `RefreshesSound` | `RatesSpec => []RefreshSound` |

`RunSound` is inductive: a run has seen what it was asked for at most; while it has found
an old rate of each currency it has seen, the table has them, for nothing is ever deleted;
and a host that does not act has no run.

`ReportsProofs` proves of the reports, for any ledger, any rates, and any requests beside the
report:

| Theorem | States |
|---|---|
| `PagesAreSound` | `ReportSpec => []PagesSound` |
| `RowsAreCategorized` | `ReportSpec => []RowsCategorized` |
| `RowsAreSound` | `ReportSpec => []RowsSound`, both together |
| `RatesAreInForce` | `ReportSpec => []RatesInForce` |
| `PartsAreSums` | `ReportSpec => []PartsAgree` |

`PagesInv` relates the file to the cursor: a row that was there all along is listed or lies
below the last row of the file (`Progress`), and no row that is counted in the range is
unknown to `ever` (`Listing`), for rows are only added or deleted (`Evolves` says so of every
request at once). That a page is the head of what lies below, in order, comes from `Listed`:
a finite set under a strict order is listed once each (`FS_*` of the library, no recursion).
`ForceInv` adds when things are valued: rows lie in the asked range (`Timed`), balances
between the first month and the valuation (`Valued`), so that each time that is asked for
lies in the window of its rates; `CacheOK` says that a window once loaded answers every time
in it as the repository would have when it was loaded (`HistoryFound`), which later rates
cannot change. `CategoryInv`: the categories are a forest that only grows (`Filed`), and the
tree was read after the rows, so it has the categories of all that are listed (`TreeOK`).
That a category of a forest has a root at all takes an argument, since `RootIn` is a recursive
function: the categories above a given one are finite in no sense that is assumed, so the
function is defined from the root that is reached (`TopOf`, `RootsExist`), and it is unique
because the set where two root functions differ would have no way out (`RootOK`).

That the parts of a report add up to the whole is an argument about sums and one about what
was converted:

* *Sums.* A sum over a sequence is a recursive function on an interval and has a value by
  `Recursion` again (`SumsOK`). A sum of the program stops at the first overflow, so one that
  was found is exact (`PlusOK`, `TotalOK`); the order in which it was added up does not matter
  from there on. If the positions of a sequence are cut into parts, the sums over the parts
  add up to the sum over the sequence (`SumOfParts`), and where a part is what has one key, the
  parts are the keys' (`CutByKey`): `FlowsAddUp`, `BreakdownOK`, `TopExpensesOK`,
  `DistributionOK`, `NetWorthOK`.
* *Months.* The code walks the lines and the months of a trend side by side and never goes
  back. That every counted line falls into exactly one month (`BucketsOK`) needs the lines in
  the order of time and within the months, `InOrder`.
* *Room.* `Magnitude` has no value in the word for its least number. No line is that: an
  amount of a column is converted by at most two products, and a product that passes the check
  of the code is within the headroom, half of the word's range (`ColumnBounded`,
  `ConvertBounded`), which is `LinesOK`.
* *Induction.* `SumsInv` says so of a running report: its file ascends when it is a trend
  (`Ascends`), its range is its months (`Framed`), and a report that is done has lines in order
  and sums that were found (`Drawn`), which no request can change afterwards (`SumsQuiet`).

`SessionsProofs` proves, for all constants that satisfy `SessionsAssumption`:

| Theorem | States |
|---|---|
| `TokensAreSound` | `Spec => []TokensSound` |
| `ClosingsHold` | `Spec => []ClosingHolds` |
| `OnlyClosingsDeadlock` | `Spec => []SomebodyMoves` |

`TokensOK` says how tokens hang together, whatever else happens: one that was exchanged
cannot be exchanged again, and its heir is of its session. `PlaceOK`: a rotation holds the
row it found live, so two rotations of one token cannot both find it live. Closings need
time. `TimeOK`: no request is older than its patience; `ClosingOK`: a closing is recorded
for longer than an access token and a slow request last together, which is why the cleanup
may forget it; `SnapshotOK`: a closing misses only tokens that were stored after it had
looked, but for that patience, and `OnlyRacersSurvive` follows when it commits.

`BrowserProofs` proves, for all constants that satisfy `BrowserAssumption` (any number of
tabs, users, sessions, calls and corrections, any budget):

| Theorem | States |
|---|---|
| `TabsAreNoThief` | `Spec => []NoFalseAlarm` |
| `ScreensAreOwn` | `Spec => []OwnScreen` |
| `PagesAreAsAsked` | `Spec => []AsAsked` |
| `WaitsAreForSomething` | `Spec => []WaitsEnd` |

`LockOK`: the lock is held exactly while a task exchanges the cookie. `CookiesOK`: a cookie
in the jar or with the task that holds the lock is the newest of its session, unless that
session is closed or had an exchange cut off; hence the server sees an old cookie only after
a cut. For each tab, `StatusOK` says which tasks and calls go with which status, `OwnOK`
that what it shows and asks for is of the user whose token it holds, `AskedOK` that each
answer to come is to the question last asked, `WaitOK` that somebody is under way for
whoever waits. `AskedOK` needs more for corrections: a detail is under way only while none
is shown, and no two details and no two actions are under way at once. So when a correction
is answered no other detail or action is under way, and what it puts in place succeeds the
transaction last asked for; and a deletion leaves nothing behind that was made on what it
has taken away. What makes them inductive is the same in all of them, and it is the point of
the generations in the code: a task or call that is out of date may do nothing but end.

`CatalogProofs` proves, for all constants that satisfy `CatalogAssumption` and
`TemplatesAssumption` (any number of transactions, boards, names, templates and rows, any
depth from two):

| Theorem | States |
|---|---|
| `TypeCorrect` | `Spec => []TypeOK` |
| `TreeIsSound` | `Spec => []TreeSound` |
| `CatalogueIsSound` | `Spec => []CatalogueSound`: also, lists show every row |
| `HistoryIsKept` | `Spec => HistoryHolds`: no row goes, moves or changes its board; what a transaction names is in use when it commits |
| `OnlySwaps` | `Spec => []OnlySwapsDeadlock` |
| `WorksAsInMemory` | `Spec => MemorySpec`: `Catalog` implements `MemoryCatalog` |

The tree alone is not inductive: that a commit leaves it sound depends on what its
transaction checked, several statements ago. `Fits` says of each transaction what is still
true of that: its row and its parent are as it found them, for it has locked them
(`PutFits`, `ParentFits`); the walk from its parent still reaches the root (`ReachesRoot`,
which no other commit can break, since a row with a child in use is not deleted); its key is
nobody else's (`KeyFits`, which the index sees to); and its tags are in use (`TagsFit`).
`Apart` says of two transactions that their locks, new numbers and keys differ. `Shallow`,
by chains of parents (`Ancestry`), bounds the depth of every row, deleted ones included:
lists stop at `MaxDepth`, and only because nothing is deeper do they show everything. The
walk up the tree is a function on an interval and not a recursive operator, so that its
chains can be lengthened and cut in a proof; the one induction needed, that a set of numbers
has a least one, comes from the library (`LeastNumber`).

With the invariant the refinement is short: a step that is no commit changes no row; a
commit does what the request does in memory, for what it checked is still so
(`CommitRowIsMemory`, `CommitNamesIsMemory`).

Each of these invariants was checked by TLC as an invariant of the component's run before it
was proved.

Only model-checked:

* liveness under fairness (`Resolves`, both `RequestsEnd`, `ExpiredRowsGo`,
  `ShutdownReturns`, `ProcessEnds`, `JobsGoOn`, `JobActsAgain`), which the prover cannot
  treat;
* the cache beside rebuilds and purges, where exactness is refuted.

## 5. Plan

Everything planned is done: the outbox, the ledger with its cache and its in-memory
specification, idempotency, the pool, the jobs, the leases, exchange rates, sessions, the
browser, categories and tags with their in-memory specification, arithmetic, transfers and
reports are model-checked and have proofs.

What would come next: tags as a dimension of the breakdown, a user's second report beside the
first, and the refusal of nested units of work in the in-memory adapters.

### Not modelled

* User preferences: one row, read and replaced in one transaction.
* HTTP parsing, routing and formatting: no state outlives a call. The cookie handling of the
  authentication controller is part of `Browser`.
* Configuration, logging and bootstrap: nothing changes after start-up. The order in which
  the process shuts down is part of `JobRuntime`.
* In the in-memory adapters, the staging within a unit of work and the refusal of a nested
  one, which no other thread can see.
* Passwords, signatures, the rate limiter of logins, the parsing of providers' answers, the
  text of CSV exports and of audit rows.
* Frontend views and the stores that repeat the pattern of the transaction store.
