# Formal models of the festival ordering backend

TLA+ modules about `src/backend`: the NestJS server through which customers of a
university festival order food and the operators take payments, cook, hand out
and refund.  The server is one Node.js process over PostgreSQL.  It keeps no
state of its own between requests; what keeps concurrent requests apart is
row locks, unique indexes and transactions, and that is what the models are
about.

- [The system](#the-system)
- [The modules](#the-modules)
- [How the code is read](#how-the-code-is-read)
- [The runs](#the-runs)
- [The proofs](#the-proofs)
- [Disagreements between code and documents](#disagreements-between-code-and-documents)
- [What is not modelled](#what-is-not-modelled)
- [Plan](#plan)

Run a configuration with `tlc -config X.cfg M`, the proofs with
`tlapm M.tla` for each `M` whose name ends in `Proofs`.

## The system

| Component | State | Operations | Talks to |
| --- | --- | --- | --- |
| Order placement (`orders/orders.service.ts` `create`) | `orders`, `order_items`, the first row of `order_history` | `POST /orders` | menus through `MENU_READER`, order numbers, domain events |
| Request normalisation (`merge-order-items.util.ts`, `order-fingerprint.util.ts`, the DTOs) | none | one spelling, merged items, a fingerprint | placement |
| Order numbers (`orders/order-number.service.ts`) | `order_daily_counters` | `issue`, inside the order's transaction | the process's clock |
| Menu catalogue (`menus/`) | `menus`, `menu_history` | `PATCH /admin/menus/:menuId`, lists, `getSnapshotsForOrder` | locked by orders FOR SHARE |
| Order lifecycle (`orders/orders.service.ts`) | `orders.status`, `payment_confirmed_at`, `order_history`, `order_refunds` | confirm payment, change status, cancel, refund, history | domain events |
| Database access (`database/database.service.ts`) | a connection pool | `query`, `withTransaction` | everyone |
| Domain events (`common/events`) | none | `publish`, synchronous, in memory | realtime |
| Realtime (`realtime/`) | sockets, their session and expiry timer | handshake, connect, disconnect, emit, disconnect on logout | admin sessions, events |
| Admin authentication (`admin-auth/`) | `admins`; the session is a JWT in a cookie | login, logout, guard | realtime, by an event |
| Payment settings (`payment-settings/`) | one row, its history | read, register or change | |
| Sales (`sales/`) | none, reads orders | one query, after the password is checked again | orders, authentication |
| Lookup and listing (`orders/`) | none | lookup by name and number, keyset pagination | |
| Migrations and seeds (`database/`) | the schema, `schema_migrations`, first rows | `npm run migrate`, `npm run seed:*`, by hand | the tables of all |
| Frontend | none yet | static pages | |

What is hard here, component by component, and what makes each correct:

- **Placement.** Customers retry and double-click; two calls with one
  `orderRequestId` run side by side.  The lookup before the transaction is
  stale as soon as it returns, the unique index decides, and the loser looks
  again.  Queries fail, the acknowledgement of a COMMIT gets lost, the process
  dies between COMMIT and the event.  *Correct*: one order for each id, every
  answer true, every order announced at most once and, without a fault, at
  least once.
- **Normalisation.** A retry may write the same order in another spelling, order
  or division into items.  *Correct*: two bodies have one fingerprint exactly when
  they order the same, and merging loses no menu and no quantity.
- **Numbers.** The upsert makes all orders of a day queue for one row until
  COMMIT.  *Correct*: no number twice, no gap after a rollback, nobody waits
  for ever.
- **Menus.** Prices and availability change while orders that have read them
  wait for other locks.  *Correct*: an order is charged what the menu says at
  the instant the order commits; no PATCH undoes another; the history accounts
  for every value.
- **Lifecycle.** Several operators act on one order, each from a screen that
  may be out of date; a refund has two unique indexes and four ways to find
  that somebody was faster.  *Correct*: the calls behave as if each happened at
  an instant; the history tells the status; money goes back once, for paid
  orders only, and the answer to a refund is true.
- **Sessions and sockets.** The server keeps no list of sessions.  A logout races
  the handshakes of its session that are under way, its response races that of
  a login, the expiry timer races disconnects.  *Correct*: a logout closes every
  open socket of its session and no other; no socket outlives its token for ever.
- **Settings.** Before the first registration there is no row to lock.  *Correct*:
  the audit trail names the account customers saw, and what replaced it.
- **Sales.** Five queries must speak of one instant, and of the same days, while
  payments are confirmed and midnight passes.  *Correct*: the numbers of one answer
  add up, and count each payment on its day in Seoul.
- **Listing and events.** An order gets its `created_at` at BEGIN and becomes
  visible at COMMIT, so orders appear behind a page that has been read; an event is
  sent once to the sockets there are, and kept nowhere.  *Correct*: a list read page
  by page misses and repeats nothing that was there at its start, and a connected
  screen comes to show every order that was announced.
- **Connections.** All calls share one bounded pool and keep a connection while they
  wait for a row.  *Correct*: no connection is lost, shared, or handed on inside a
  transaction; nobody waits for ever, however small the pool.
- **Deployment.** Migrations and seeds are run by hand, again, twice at once, and
  are interrupted.  *Correct*: the record and the schema agree, every release gets
  applied, and seeding again undoes no administrator's change.

## The modules

| Module | What it is |
| --- | --- |
| `OrderRequest` | what a request body becomes: merged items and fingerprint, as operators, and what they are for (`Content`, `FaithfulFor`) |
| `MenuCatalog` | the catalogue: `PATCH`, and the reading side of `MENU_READER` |
| `OrderPlacement` | `POST /orders`; extends both and runs with the PATCHes; implements `OrderIntake` |
| `OrderIntake` | abstract: what `POST /orders` promises, each order coming into being at an instant |
| `MCOrderPlacement` | the instances of all of these for TLC |
| `OrderPlacementProofs` | theorems about normalisation, placement and the catalogue |
| `OrderBook` | abstract: what the administration promises of every order, each operation at an instant |
| `OrderLifecycle` | the calls that confirm, cancel, move on and refund, step by step; implements `OrderBook` |
| `MCOrderLifecycle`, `OrderLifecycleProofs` | its instances for TLC; theorems about it |
| `OrderFeed` | how the operators' screens learn of orders: pages of `GET /admin/orders` and `order.created` over sockets |
| `MCOrderFeed`, `OrderFeedProofs` | its instance for TLC; theorems about it |
| `ConnectionPool` | `DatabaseService`, from the check of `DB_POOL_MAX` to the shutdown |
| `MCConnectionPool`, `ConnectionPoolProofs` | its instance for TLC; theorems about it |
| `PaymentSettings` | `PATCH /admin/settings/payment`, its row and its audit trail |
| `MCPaymentSettings`, `PaymentSettingsProofs` | its instance for TLC; theorems about it |
| `Sales` | `POST /admin/sales/query` against confirmations, refunds and the clock |
| `MCSales`, `SalesProofs` | its instance for TLC; theorems about it |
| `AdminSessions` | login, logout, expiry and the sockets of an administrator's devices |
| `MCAdminSessions`, `AdminSessionsProofs` | its instance for TLC; theorems about it |
| `Deployment` | `npm run migrate` and the seeds, over several releases |
| `MCDeployment`, `DeploymentProofs` | its instance for TLC; theorems about it |

`OrderPlacement` and `MenuCatalog` run together, as orders and PATCHes lock the
same rows, and a call's body goes through `OrderRequest`; `OrderLifecycle`
implements `OrderBook`, `OrderPlacement` implements `OrderIntake`.  The others share
no row that both sides write: `Sales` reads the two instants that `OrderLifecycle`
sets, and takes their changes as steps of its own; `OrderFeed` has a call of
`POST /orders` as four steps (BEGIN, COMMIT or not, the event); in `ConnectionPool` a
call is a sequence of queries and transactions with no content, so that the other
models may take a connection for granted; `AdminSessions` has no tables at all.

### Correspondence

`MenuCatalog`. `menus` and `menuHistory` are the tables, committed rows only.
`patchStep`, `patchReq`, `patchRow` are the local state of one call of
`MenusService.update`: where it is, its `dto` with the instant of its `BEGIN`,
and `current`.  `shared` and `snapshot` are what an order's transaction has
locked and read.  `PatchBegin`, `PatchNotFound`, `PatchLock`, `PatchCommit` follow
`update` from the check of the body to COMMIT, and `PatchOutOfRange` is the UPDATE
that fails because the DTO lets through a price beyond INTEGER (`MaxInt`);
`ShareRow` is one row of
`SELECT ... ORDER BY id FOR SHARE`.

`OrderPlacement`. `step`, `body`, `number`, `returned` are the local state of one
call of `OrdersService.create`; `orders`, `counter`, `events` the table, the
counter and the published events; `today` is the date in Asia/Seoul.  Each call
is one model value, and the order it makes has its name as id.

| `step` | in the code |
| --- | --- |
| `lookup` | `findByOrderRequestId` before the transaction (`orders.service.ts:107`) |
| `menus` | `getSnapshotsForOrder`, one row after another, and the checks (466-485) |
| `number` | the date is taken, the upsert waits for the counter row (492) |
| `insert` | holds the counter row, the INSERT waits in the unique indexes (494) |
| `written` | items and history row are in, COMMIT is next (503-526) |
| `publish` | committed, `order.created` is next (121) |
| `raceLookup` | rolled back after the unique violation, looks again (130) |
| an answer | the code the caller got; `lost` when the process died |

`body` has the `orderRequestId`, the DTO, `mergedItems` and `fingerprint`.
`InsertOrder`, `InsertOutOfRange`, `InsertNumberTaken` and `InsertKeyTaken` are the
outcomes of the INSERT, in the order in which PostgreSQL finds them: a total beyond
`MaxInt`, then the index of order numbers, then that of request ids, then, in
`order_items`, a quantity beyond `MaxInt`.

`OrderRequest`. A body is a customer and a sequence of items.  `LowerCase` and
`NormalizeText` stand for the transforms of the DTO, a table from each way of
writing to the one that is kept; `AddItem` is the body of the loop of
`mergeOrderItems`, with the insertion order of a JavaScript `Map`, and
`MergedItems(dto)[n]` the map after `n` rounds of it; `Sort` is the sequence of the
same lines that the comparison of `computeRequestFingerprint` puts in order, and
`RequestFingerprint` drops what its JSON has not.

`OrderIntake` has no tables, no locks and no numbers.  `OrderPlacement` maps to it
with `Asked` (the id and the fingerprint of each call), `Answered`, the ids of
`orders`, and `events`: `Commit` is `Take`, `CommitAckLost` is `Take` with the error
the caller gets, `Publish` is `Announce`, all else answers or stutters.

`OrderLifecycle`. `req` and `tx` are the local state of a call, `status`,
`confirmedAt`, `refunds`, `history` the rows.  `WriteStatus` is the one
transaction that `confirmPayment`, `cancel` and `changeStatus` share, from the
row lock to the history row; `LookupRefund`, `LockForRefund`, `InsertRefund`,
`RecordRefund`, `RefundOrderTaken`, `RefundKeyTaken`, `ResolveOrderRace`, `ResolveKeyRace` follow
`refund`.  `OpenStatuses` and `NewStatus` are `STATUS_TRANSITIONS`,
`REFUNDABLE_STATUSES` and the two tests on `PAYMENT_PENDING`.  `InsertRefund` and
`RecordRefund` are the INSERTs of the refund and of its history row: a query that
fails or a process that dies between them must leave neither.

`PaymentSettings`. `row` and `history` are the two tables; `step`, `dto` and
`current` the local state of a call of `PaymentSettingsService.update`.
`LockAndUpdate` is the usual path; `FindNone` and `Upsert` that of a call whose
`SELECT ... FOR UPDATE` found nothing to lock, which then waits in the primary
key and inserts the row or changes the one inserted meanwhile.  What a call wrote
becomes visible in `Commit`, its audit row with it.

`Sales`. `confirmedAt` and `processedAt` are the columns of the orders and
refunds; `step`, `asOf`, `snapshot` and `view` the local state of
`SalesService.query`: `now` in the code is `asOf`, read before the transaction, and
`snapshot` is what PostgreSQL fixed at the first aggregate (`TotalsToday`), not at
BEGIN and not at `SET TRANSACTION`.  `Totals`, `DailyBreakdown` and `ByMenu` are the
three SQL statements, joins and groups included; `KstDate`, `KstRange` and
`SqlDate` the three ways the code has of telling a day.  Queries change nothing
and cannot see one another, so one at a time is enough.

`AdminSessions`. A token is its session id; `expiresAt` is the `exp` signed into
it.  `cookie` is the browsers' state, `call` the login and logout requests with
their responses on the way, `socket` and `timer` the gateway's state, in which
`loggedOut` and `late` record what the properties ask for.  The `adminId` is the
same everywhere, the case in which matching by it would close too much.
Verification, joining the room and setting the timer are one step: no other
handler runs between the middleware and `handleConnection`.

`OrderFeed`. `call`, `createdAt` and `clock` are the orders' side; `announced` what
was emitted; `joined` the admin room, `wire` what Socket.IO has sent and not
delivered; `scroll` a list being read, with the `cursor` of its next request, and
`refetch` and `shown` the screen, which is external: it keeps to
`docs/03_API명세서.md:636` and `689`, that is, it lists the orders from the first page
after each connection and each event.  `Behind` and `IsPage` are the WHERE and the
ORDER BY ... LIMIT of `findPage`; `FetchPage` is `listForAdmin` with its `limit + 1`.
The cursor names an order and the database looks its `created_at` up again.

`ConnectionPool`. `pc` and `todo` are a call's place in its operations; `queue`,
`holder` and `session` the library's queue and connections and the database's end of
each.  One row stands for all rows that calls wait for: it is the worst case, as
then every transaction waits for every other.  `Begin`, `Work`, `Commit`, `Throw`,
`Rollback`, `Release` follow `withTransaction`.  `Break` and `Crash` are the two
fates of a connection that breaks: it is noticed at the next use, or its `'error'`
event, for which `pool.on('error')` listens on idle connections only, ends the
process.  `Start` is `validateEnv` for `DB_POOL_MAX`; `Terminate`, `EndPool`, `Exit`
the shutdown hooks.

`Deployment`. `recorded` is `schema_migrations`, `applied` the files whose statements
have taken effect; a file may need the objects of others (`Requires`) and may or may
not succeed when it is repeated (`Repeatable`: `ALTER COLUMN ... SET DEFAULT` may,
`CREATE TABLE` not).  `RunSql`, `Record`, `Commit`, `Rollback` are `applyMigration`,
where the statements of a second process wait for those of the first.
`SeedMenusRead` and `SeedMenusInsert` are the two ends of one
`INSERT ... WHERE NOT EXISTS`, which locks nothing.  `overlapped` is a history
variable: two such seeds at a time may both insert.  `readAt` is another: the release
that was checked out when a migrate read the files, since the next may be checked out
while it works.  `InNameOrder` is `sort()`: the file in place `i` has `i - 1` files
before it.

## How the code is read

**The grain of a step.** Between two points where another transaction can get in
(taking a lock, a wait in an index, BEGIN, COMMIT) a call's queries see and
change only rows nobody else can see or change, so they are one step.  The refund
and its history row are two steps all the same, so that a failure may come between
the queries.  Elsewhere a failure before the first query of a step and one after its
last stand for those in between: all these queries go through the client of one
transaction, and ROLLBACK takes back all of them.

**Transactions.** PostgreSQL's READ COMMITTED: a statement sees what has
committed, and a locking SELECT that waited sees the row's latest version.  What
a transaction has written is kept with the call and reaches the tables at
COMMIT.  An INSERT whose value is in a unique index uncommitted waits for that
transaction to end; the index that was created first is checked first.  `now()`
is the instant of BEGIN, `clock_timestamp()` that of the statement: the defaults
of `menu_history.changed_at`, `order_refunds.processed_at` and
`payment_confirmed_at` are the former, that of `order_history.occurred_at` is the
latter since migration `b1_007`.

**Faults.** `abort`: any query fails or exceeds `statement_timeout`, and the
transaction rolls back.  `ackLost`: COMMIT takes effect but `withTransaction`
throws.  `crash`: the process dies, PostgreSQL rolls back what is open, no
caller is answered.  The database itself does not lose what it committed.

**Data.** Menu ids are numbers, since the locks are taken and the items sorted in
the order of the ids; SHA-256 is taken to be injective, so a fingerprint is the
payload itself; an order number is the pair of its MMDD and its sequence number.
INTEGER columns end at `MaxInt`.  The name and phone number of a customer are one
value, of which several spellings may be given.  Reasons, amounts of refunds (always
the order's total) and the admin's id are left out: no decision in this code
depends on them.

## The runs

| Run | Configuration | Shows | Instance | States |
| --- | --- | --- | --- | --- |
| `placement` | `MCOrderPlacement.cfg` | `IdempotentAnswers`, `NumbersUniqueAndDense`, `AnnouncedOnce`, `ImplementsIntake`, `NormalisationFaithful`, types | 3 calls, 2 ids, one content written in two ways and one that does not fit, 2 menus, 2 days, all faults, no PATCH | 258,000 |
| `prices` | `MCOrderPrices.cfg` | `SnapshotsFresh`, `ChargesCurrentPrices`, `HistoryAccountsForRows`, `NoLostUpdate`, `ServerErrorsExplained`, `EveryCallAnswered` | 2 calls with one id, with overlapping menus, one of them unknown; 2 PATCHes, of a price that fits or of one that exceeds `MaxInt`; totals that exceed it at the higher price; two days with one MMDD; no faults | 555,000 |
| `lifecycle` | `MCOrderLifecycle.cfg` | `HistoryTellsStatus`, `PaymentInstantFixed`, `ImplementsBook`, `AnnouncedChangesHappened`, types | 1 order and an unknown id, 2 refund ids, 2 calls at a time, 5 history rows, all faults | 217,000 |
| `refunds` | `MCOrderRefunds.cfg` | `RefundsSound`, `RefundAnswersTrue`, `EveryCallAnswered` | 2 orders, 1 refund id, 2 calls at a time, 3 history rows | 117,000 |
| `feed` | `MCOrderFeed.cfg` | `ScrollExact`, `ScreenMissesNothing`, `EventuallyListed`, types | 3 orders on 2 instants, 1 screen, pages of 1 and of 2, all faults | 163,000 |
| `pool` | `MCConnectionPool.cfg` | `ConnectionsSound`, `EverythingEnds`, types | 3 calls of 2 or 3 operations, pools of 1 and 2, refused settings, all faults | 133,000 |
| `settings` | `MCPaymentSettings.cfg` | `AuditTrue`, `EveryCallEnds`, types | 3 calls, 2 accounts, registered before or not, all faults | 17,900 |
| `sales` | `MCSales.cfg` | `ViewConsistent`, `ViewExact`, types | 1 query, 3 orders with menus in common and changed prices, 2 days of festival and one after it, 5 instants, all faults | 341,000 |
| `sessions` | `MCAdminSessions.cfg` | `ClosesOnlyItsOwn`, `LogoutMissesNone`, `SessionsEnd`, types | 2 devices, 3 calls, 2 sessions, 2 sockets, 3 instants, losses and crashes | 154,000 |
| `deployment` | `MCDeployment.cfg` | `SchemaSound`, `SeedsKeepChanges`, `EveryReleaseApplied` | 2 terminals for migrate, 2 for seed:menus, 2 releases of 3 files, 1 menu, 1 fault | 214,000 |
| `retry_menu_unavailable` | `MCOrderRetry.cfg` | `RetryReturnsExisting` is violated | 2 calls, 1 PATCH | |
| `menu_changed_at` | `MCMenuClock.cfg` | `ChangedAtIsCommitOrder` is violated | 2 PATCHes | |

**Why these bounds.** Three calls is what a duplicate needs at least: a first
call, one that waits for it in the index, and a third that takes over when the
first fails.  Two ids let calls compete for the counter row only.  Two days let
midnight fall between any two steps.  Of the contents one is the first written
otherwise, with an item split and the menus in another order, and one has a total
that fits and a quantity that does not, so that its row of `orders` is written and
taken back.  Calls send these (`Sent`); `NormalisationFaithful` compares every two bodies
of up to three items of two menus, in two spellings and with two quantities, by three
spellings of two customers (`Bodies`): merging meets equal, split and reordered items
there.  In `prices`, two
PATCHes and two orders give every pair of lock modes on a row, and the overlapping
items lock rows in a chain; the days with the same MMDD are those of two years, the one
case in which the unique index of order numbers refuses a number.

In `lifecycle` a call's slot is used again when its call has ended, so any number of
calls pass through two slots; five history rows take one order from payment to
pick-up and refund.  Two orders and one refund id are what the second unique index
needs.  In `feed`, three orders on two instants make a tie of `created_at`, an order
that commits behind the cursor and one ahead of it; pages of one and two make lists
of one to three pages.  In `pool`, two calls are in each other's way and a third is
queued, and one connection is the smallest pool there can be; the real bounds are
10 and 100, and the proof holds for them.  In `settings`, a third call is what can change the
account between the two first registrations.  In `sales`, three orders can be
paid before, during and after each query and on either side of a midnight that
is not midnight in UTC; a confirmation runs for at most `LongestTx` instants, so
that it may begin on one day and commit on the next.  In `sessions` one device
can be logged in twice or log out while the other stays.  In `deployment`, the second
release adds a file whose name sorts before an applied one and whose statements can
be repeated, the one case where only the primary key of `schema_migrations` is left
to stop a second process; a seed's menus are independent of one another.

`MaxTicks` bounds the history rows, `LastDay` the days, `LastInstant` the clock of
`Sales` and `AdminSessions`, `MaxTime` that of `OrderFeed`, `MaxFaults` the faults of
`Deployment`, `Sent` the bodies that are sent, and the finite sets of calls the rest;
all are constants.

The configurations never disable the check for deadlock: a state in which every
call waits for another would be reported.  When all calls have ended the models
stutter in `Finished` or `Stopped`, and only then (in `AdminSessions`: when the clock
has reached its bound and no socket is open); in `OrderFeed` and `Deployment` screens
reconnect and administrators go on for ever.

**Fairness.** `Proceed` is weakly fair for each call: Node.js runs every
continuation and PostgreSQL every query.  In `OrderLifecycle` the steps that wait
for a row or an index entry are strongly fair, as PostgreSQL queues waiters for
a row, and calls keep coming.  In `OrderPlacement` the calls are finitely many,
so weak fairness is enough.  No call has to be made, no PATCH, no fault has to
happen; the liveness runs of orders leave out crashes, after which nobody is
answered; in `PaymentSettings` a crash ends the calls.  `AdminSessions` needs
only that time passes and that Node.js runs a timer that is due; no request,
response or handshake has to arrive.  `OrderFeed` needs that the process goes on from
COMMIT to the event, which is one continuation, that the network delivers on a
connection that lasts, and that a screen asks for its pages; nobody has to order or
to connect.  `ConnectionPool` needs that calls which can go on do, and that a
statement on a broken connection throws; `connectionTimeoutMillis` and
`statement_timeout` need not fire, so the answer does not rest on them.  `Deployment`
takes it that somebody runs `migrate` again until it succeeds, as
`docs/backend/11_배포_체크리스트.md` asks before the service is opened; kills
are bounded.

**What is shown to matter.** Next to each definition on which a property rests
stands a mutant of it, marked *Mutant*: the definition with a bug that could
plausibly be made there (a lock that is not waited for, a counter not rolled
back, `now()` for `clock_timestamp()`).  With it, the property fails.

## The proofs

### Orders

`OrderLifecycleProofs` proves, for any orders, calls, request ids, faults and
`MaxTicks`, from `OrderLifecycleAssumption` only (ids and `Absent` are told apart):

| Theorem | States |
| --- | --- |
| `TypeCorrect` | `Spec => []TypeOK` |
| `Invariance` | `Spec => []IInv` |
| `HistoryCorrect` | `Spec => []HistoryTellsStatus` |
| `RefundsCorrect` | `Spec => []RefundsSound` |
| `RefundsAnswered` | `Spec => RefundAnswersTrue` |
| `PaymentInstantCorrect` | `Spec => PaymentInstantFixed` |
| `Implementation` | `Spec => ImplementsBook` |

**The invariant.** Neither `HistoryTellsStatus` nor `RefundsSound` is inductive.
That the history stays a chain at a COMMIT depends on what the transaction read
some steps earlier still being so (`ReadStillTrue`), which depends on nobody else
having held the row meanwhile (`RowLockExclusive`); that the new row sorts last
depends on its instant being later than all rows of that order and not merely
later than its own BEGIN (`WrittenIsLatest`, `HistoryInThePast`).  That a refund
stays unique depends on the uncommitted refunds colliding with nothing, each
other included (`WrittenIsUnique`), and that refunded orders are paid on
`ConfirmedIsPaid`.  `IInv` is the conjunction.  For the answer to a refund,
`CommittedStands` adds that between COMMIT and the answer the refund is there.

**The argument.** Steps are of four kinds: those that leave every other call and
the rows alone and the mover without a lock (`QuietStep`), those that take the
lock (`LockStep`), the insertion of a refund and of its history row
(`InsertRefundStep`, `RecordRefundStep`), and COMMIT,
acknowledged or not (`CommitStep`, from the facts collected in `Commits`).  Only
COMMIT changes rows (`OnlyCommitChangesRows`), and each COMMIT is a move of
`OrderBook` (`StatusCommitBook`, `RefundCommitBook`): so the calls implement it.

`AnnouncementsCorrect` (`Spec => AnnouncedChangesHappened`) rests on
`CommittedIsInHistory`: between COMMIT and the event the row of the change is in the
history, where rows are only added.

### Placement and menus

`OrderPlacementProofs` proves, for any calls, ids, menus, PATCHes, days (with
whatever labels, repeated ones too), `MaxInt` and faults, from
`MenuCatalogAssumption`, `OrderRequestAssumption`, `OrderPlacementAssumption` and
`AbsentAssumption`:

| Theorem | States |
| --- | --- |
| `TypeCorrect`, `Invariance` | `Spec => []TypeOK`, `Spec => []IInv` |
| `NumbersDense`, `Announced` | `[]NumbersUniqueAndDense`, `[]AnnouncedOnce` |
| `ErrorsExplained` | `Spec => ServerErrorsExplained` |
| `SnapshotsCurrent`, `HistoryComplete`, `UpdatesKept` | `[]SnapshotsFresh`, `[]HistoryAccountsForRows`, `NoLostUpdate` |
| `Implementation` | `Spec => ImplementsIntake` |
| `NormalisationHolds` | `Spec => []NormalisationFaithful` |
| `Idempotence`, `ChargesCorrect` | `Spec => []IdempotentAnswers`, `Spec => ChargesCurrentPrices` |

**The invariant.** What a call knows at each step (`CallsConsistent`): the number it
has is the next one as long as it holds the counter row, which one call at a time
does (`CounterExclusive`); a written row collides with nothing, committed or not
(`Unique`).  `OrdersConsistent` ties an order to the call that made it,
`EventsConsistent` an event to its call's answer (so that a call about to publish has
not done so yet), `AnswersConsistent` is idempotence with fingerprints in place of
contents, and `RaceLookupFindsWinner` says that a call which met the violation of its
request id has an order to find.  `MenusConsistent` has the row
locks excluding one another (`LocksExclusive`) and what was read under them still
true (`ReadUnderLock`), from which `SnapshotsFresh` and the chain of `menu_history`
follow.

**The argument.** `Cases` sorts the steps by what they touch.  The lemmas about
`MenuCatalog` speak of any step that takes, holds or releases row locks, so
placement cites them for its own.  `EntersOrKept` says how a call can come to hold a
counter or to have a row written, which carries `CounterStep`, `UniqueStep` and
`NumbersStep`.  `ErrorStep` goes through the steps after which a caller gets
INTERNAL_ERROR: a number that is refused cannot be of its own day, since those go up
to the counter and a call that holds the counter has the next one.  For the refinement each step is a reply, an ask, a taking or a
stutter (`IntakeStep`), by what `SeenOf` says callers see of it.

**Normalisation.** `NormalisationCorrect` is about data alone: for any bodies, two
have one fingerprint exactly when they order the same, and the merged lines have each
menu once, with all that was ordered of it.  What the loop has after `n` items is the
item lines merged so far and, of each menu, the sum so far (`MergesTo`), an invariant
of the loop by induction over `n`; that lines of different menus can be sorted is
shown by inserting one after another (`Sortable`); and lists that are sorted and
say the same of each menu are equal.  The recursive functions `MergedItems` and
`Ordered` are shown to exist first (`MergedItemsDef`, `OrderedDef`).

**Induction.** The induction theorems of the library take an operator as a parameter,
which the provers cannot instantiate.  They are stated here about sets: `UpTo` (a set
of numbers up to `N` that has 0, and `n` whenever it has `n - 1`, is `0 .. N`), from
`LeastNumber`, from `SmallestSet`: a family of subsets of a finite set has a smallest
one, as strict inclusion is well-founded there.  `SetInduction` in `SalesProofs` is the same
for the subsets of a finite set.

### The other components

| Theorem | States |
| --- | --- |
| `OrderFeedProofs!TypeCorrect`, `Invariance` | `Spec => []TypeOK`, `Spec => []IInv` |
| `OrderFeedProofs!ScrollCorrect`, `ScreensCorrect` | `[]ScrollExact`, `[]ScreenMissesNothing` |
| `ConnectionPoolProofs!TypeCorrect`, `Invariance` | `Spec => []TypeOK`, `Spec => []IInv` |
| `ConnectionPoolProofs!PoolSound` | `Spec => []ConnectionsSound` |
| `SalesProofs!TypeCorrect`, `Invariance` | `Spec => []TypeOK`, `Spec => []SalesInv` |
| `SalesProofs!ViewsExact`, `ViewsConsistent` | `[]ViewExact`, `[]ViewConsistent` |
| `SalesProofs!AnswersOfOneSnapshot`, `DaysCorrect` | `Spec => []OneSnapshot`, `Spec => []DaysConsistent` (the part of `ViewConsistent` about days) |
| `PaymentSettingsProofs!TypeCorrect`, `Invariance` | `Spec => []TypeOK`, `Spec => []IInv` |
| `PaymentSettingsProofs!AuditCorrect` | `Spec => AuditTrue` |
| `AdminSessionsProofs!TypeCorrect`, `Invariance` | `Spec => []TypeOK`, `Spec => []IInv` |
| `AdminSessionsProofs!LogoutCorrect` | `Spec => []LogoutMissesNone` |
| `AdminSessionsProofs!ClosingCorrect` | `Spec => ClosesOnlyItsOwn` |
| `DeploymentProofs!SchemaStaysSound` | `Spec => []SchemaSound` |
| `DeploymentProofs!SeedsNeverUndoChanges` | `Spec => []SeedsKeepChanges` |

They hold for any orders, screens, limits, calls, programs, pools, calendars,
accounts, devices, sessions, sockets, releases and terminals, from the assumption of
each module.  What is summed or sorted is finite: the orders and the items of each
(`SalesAssumption`), the files (`DeploymentAssumption`).

`ScrollExact` is kept by a page because `Older` is a strict total order
(`OlderTotal`, `OlderTransitive`) and a page takes the newest of what is behind the
cursor (`PageOfPage`); that the last page completes the list is `LastPageHasAll`.
`ScreenMissesNothing` speaks of screens that are at rest; the invariant
`AnnouncedCovered` says for every connected screen, at rest or not, why it will show
an announced order: the event is on the wire, the screen is to list the orders, its
list has not begun or began after the COMMIT (`Covered`).  `OnlyCommitted` is why an
order that was read stays.

`ConnectionsSound` needs that a call holds exactly one connection from the step that
gets it to the one that gives it back (`Ownership`), on every path through `catch`
and `finally`, and that a session is not in a transaction where it changes hands
(`SessionsClosed`).

`ViewExact` rests on `RangesAreDays`: an instant is in the range that
`kstDateStringToRange` makes of a day exactly when its date in Asia/Seoul is that day,
for any length of a day and any offset (`DayHasBegun` is the division behind it).
There, sums are equal because their rows are (`PaidOnTheDays`, `DailyIsDay`).
`ViewConsistent` says more: that the days add up to the total, and the menus too, which
are groups of a join in one query and of orders in another (`DaysAddUp`, `MenusAddUp`).
Both follow from `SumOfParts`: sums over the parts of a finite set add up to that over
the set, by `SetInduction` over the parts; `SumsRemove` is what makes a sum independent
of the order in which it is taken.  `SalesInv` says that what a snapshot has still stands
(`SnapshotStands`) and that each result is that of its query in it
(`AggregatesTrue`), from which every answer is of one snapshot.

`AuditTrue` speaks of COMMIT only:
that the account a call read is the one it replaces needs that at most one call
has the row (`OneWriter`) and that what it read is unchanged since
(`ReadStillTrue`).  `ClosesOnlyItsOwn` needs that a timer is set exactly as long as
its socket is open and for the expiry of that socket's token (`TimersSet`), and
that the server signed every token that is on the way (`TokensSigned`): otherwise
a timer left over could close a socket early.

`SchemaSound` needs that two migrates never hold the same file between its statements and
COMMIT (`OneHolder`) and that the one about to commit has found the file unrecorded
(`CommitsUnrecorded`): the check of the primary key and the COMMIT are two steps, and
only the wait for the first transaction's objects keeps another COMMIT of the file
from between them.  That a migrate that succeeds left nothing out is
`NothingForgotten`: each file of the release it read is recorded or still pending,
which rests on `InNameOrderCorrect` (sorting loses and repeats no file; a
pigeonhole argument about the numbers of files before each).  `SeedsKeepChanges`
needs `SeedsAlone`: as long as no two `seed:menus` have overlapped, what one saw of a
name when its INSERT began still holds when it ends, prices set meanwhile
included.

### Model-checked only

Of the properties of the passing runs, those about liveness: `EveryCallAnswered`,
`EveryCallEnds`, `SessionsEnd`, `EventuallyListed`, `EverythingEnds` and
`EveryReleaseApplied`.  Fairness is stated with ENABLED, which is out of the prover's
reach.  All others are theorems.

## Disagreements between code and documents

1. *A retry may be told that the menu is sold out.*  `docs/02_기능명세서.md:628`
   promises the existing order to a call with the same id and content.  A call
   whose lookup came before the first call's COMMIT, and whose menus are read
   after a PATCH, gets `MENU_UNAVAILABLE` (`orders.service.ts:469-485`): create()
   looks again only after a unique violation.  Run `retry_menu_unavailable`.
2. *`changed_at` is not the instant of the change.*  `docs/04_DB스키마.md:181` says
   it is the instant of COMMIT; the default `now()` is that of BEGIN, before the
   wait for the row lock.  Run `menu_changed_at`.

Two more promises of the documents have no code yet, so there is nothing to check:
the limit of 9999 orders a day (`docs/02_기능명세서.md:174`,
`docs/04_DB스키마.md:134`; neither `b1_003` nor `order-number.service.ts` has one),
and `refundedAmount` (`docs/03_API명세서.md:603`;
`refund-aggregation.service.ts:46` returns 0, its comment saying that the table does
not exist yet, which `b1_008` creates).

Observations that are no disagreements:

- An order number repeats on the same date of another year, and then every order of
  that day fails on the unique index until the rows are gone (`InsertNumberTaken`);
  `ServerErrorsExplained` says that no number is refused for any other reason.
- An order whose process died after COMMIT is never announced, though its retry is
  answered; `AnnouncedOnce` says exactly when, and `ScreenMissesNothing` that
  the next list shows it.
- A quantity has no upper bound (`create-order-item.dto.ts:10`), nor has a price
  (`update-menu.dto.ts`), and a total, a quantity or a price beyond INTEGER is an
  internal error; nothing of the order or the change remains.
- Two first registrations of the payment account at a time leave a change without an
  audit row, as the comment at `payment-settings.repository.ts:38` admits;
  `AuditTrue` says that nothing else does.
- A handshake that is under way during a logout gets its socket until the token
  expires; `docs/backend/003` 10 accepts that tokens stay good.
- A connection that breaks inside a transaction may end the process, as nobody
  listens for its `'error'` there; the invariants hold across it.
- Two `seed:menus` at a time may put in a menu twice: there is no unique index on
  its name.

## What is not modelled

The HTTP shell (wiring, the shape of error responses), the rate limits (a library's
counters) and the rest of `env.validation.ts` keep no state that a property is
about.  Password hashing and JWT signatures are libraries.  The validation of
request bodies lets through the bodies the models start from.  Plain reads (menus,
settings, the lookup of an order, its history) change nothing; what they return is
the tables.  `seed-admin` is `seed-payment-settings` on another table.  The frontend
calls nothing yet.

Three cases are left out of models that have the rest of their component.

- *Tokens without `jti`.*  `verify-admin-jwt.ts:29` accepts them, with `sessionId`
  undefined, and `disconnectAdmin` (`realtime.gateway.ts:100`) compares undefined with
  undefined: a logout with such a token closes every socket of the account that was
  opened with another such token.  `login` signs a `jti` into each token, so these are
  tokens of an earlier release until they expire; `ClosesOnlyItsOwn` is about tokens
  of this one.
- *A ROLLBACK that fails on a connection that works* (`database.service.ts:53`).
  `RollbackSession` fails on broken connections only.  ROLLBACK takes no lock and no
  argument, and no timeout of the client is configured that could give it up half-way.
- *Sums beyond INTEGER.*  The sums of `sales.repository.ts` are cast to `integer`, and
  the query fails when one does not fit.  `Sales` has no bound for them: of such a call
  only the abort that any query may end in is modelled, after which nobody gets a view.

## Plan

Done: the inventory, the modules and the runs above, and a theorem for each safety and
action property of the passing runs.  What is left, in this order:

1. When the code sums the refunds of a day, `RefundedAmount` in `Sales`, with
   `processed_at` being the instant of BEGIN.
2. The limit of a day's numbers, when the code has one.
