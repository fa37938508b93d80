# TLA+ verification of the store platform

The store platform runs the shops of a retail tenant. A FastAPI control plane
(`services/control-plane-api`) holds the books of every branch in PostgreSQL;
desktop, mobile and web clients call it over HTTP; a worker process runs
background jobs; an older API (`services/api`) still serves tenants that have
not moved. This directory holds TLA+ models of the protocols of these programs,
the TLC configurations that check them on small instances, and TLAPS proofs of
what matters most. Paths below are relative to
`services/control-plane-api/store_control_plane/` unless they start with
`apps/`, `docs/` or `services/`.

    tlc -workers 2 -config MCBilling.cfg MCBilling     # one run
    tlapm BillingProofs.tla                            # one proof module

## Inventory

Every request of the control plane is one SQLAlchemy session and one database
transaction under READ COMMITTED, committed by the service at its end. There is
no lock beyond a `FOR UPDATE` in the queue's lease and what PostgreSQL's unique
constraints and row updates imply. A session gives back the object it has
already loaded (the identity map) and writes only the columns that differ from
what it loaded. Most hard behaviour follows from these three facts: a value
read before another commit is used after it.

| Component | State | Operations | Hard behaviour | What makes it correct | Module |
|---|---|---|---|---|---|
| Operations queue and worker (`services/operations_queue.py`, `operations_worker.py`, `repositories/operations.py`, `scripts/run_operations_worker.py`) | `operations_jobs`: status, attempts, lease, token, `run_after` | enqueue, lease, settle, requeue, sweep, operator retry | several workers, crash inside a batch, lapsed leases, stale copies, a dying poll | one worker per live lease, no lost job, bounded attempts, success is final | OperationsQueue, JobLeases |
| Billing (`services/billing.py`, `returns_policy.py`, `exchange_policy.py`) | sales, invoices, returns, credit notes, exchange orders, ledger, serialized units | sale, return, exchange, refund approval | check-then-write races, numbering by counting, approvals twice | numbers without gap, unit sold once, stock, returns and refunds covered | Billing, BranchLedger |
| Checkout payments (`services/checkout_payments.py`, `checkout_payment_providers.py`) | `checkout_payment_sessions` | create, webhook, refresh, finalize, retry, cancel | repeated and reordered reports, concurrent finalizations, deadlock, half-written sale | a sale only for a paid order, one posted sale per session, paid means finalized | CheckoutPayments |
| Checkout pricing (`services/checkout_pricing.py`, `billing_policy.py`) | none | preview | spreading discounts and rounding over lines, stacking | the preview adds up to the paisa | CheckoutPricing |
| Promotions and vouchers (`services/promotions.py`) | campaigns, codes, assignments, redemption counts | issue, cancel, switch, redeem | limits not looked at again after the preview | limits hold, counts are the sales | Promotions |
| Gift cards, store credit, loyalty (`services/gift_cards.py`, `store_credit.py`, `loyalty.py`) | balances, lots, ledgers, points | issue, adjust, redeem, earn, return | read-modify-write across branches | a balance is its ledger's sum | CustomerValue |
| Inventory documents and purchasing (`services/inventory.py`, `purchasing.py`) | orders, receipts, ledger, counts, transfers, tasks | submit, approve, receive, adjust, count, review, transfer, restock | approval of a stale count, receipt twice | documents settle once, the boards tell the ledger | StockDocuments |
| Batches and expiry (`services/batches.py`) | lots, write-offs, reviews | record, write off, review | lots recorded twice, write-off of a stale remainder | lots go out first-expiry-first and are covered | BatchLots |
| Procurement finance, supplier reports (`services/procurement_finance.py`, `supplier_reporting.py`) | invoices, returns, payments, disputes, report snapshots | bill, return, pay, dispute, refresh | paid twice, a snapshot refreshed while it becomes stale | never overpaid, a clean report is current | SupplierLedger |
| Compliance (`services/compliance.py`, `gst_export_jobs.py`) | export jobs, IRN attachments, IRP profile | request, retry, prepare, submit, attach | a job run by two workers, a retry racing an attachment | sale, attachment and export agree | GstExport |
| Working day (`services/workforce.py`) | shifts, attendances, cashier sessions, policy | open, close, force close | two opens, close with open children | sessions nest, one per cashier and till | Workforce |
| Devices (`services/workforce.py`, `runtime.py`, `auth.py`, `commercial_access.py`) | registrations, claims, activations, tokens | register, claim, approve, issue, redeem, unlock | a claim approved twice, two activations of one version | claims, activations and devices agree | DeviceAccess |
| Store runtime: print jobs (`services/runtime.py`, `apps/store-desktop`) | print jobs; the desktop's poll | queue, poll, print, report | lost reports, overlapping timers, restarts | one print per report, a report for each print | PrintQueue |
| Hub runtime (`services/runtime.py`, `spoke_runtime.py`, `sync_runtime.py`) | hub secret, spoke activations, observations, status | bootstrap, issue, heartbeat, observe | answers out of order, reports that overtake each other | one activation a profile can use, a board that counts | HubRuntime |
| Sync and offline replay (`services/sync_runtime.py`, `offline_continuity.py`) | envelopes, mutations, cursors, conflicts | push, pull, replay | lost answers, version races | a replay applies once, a pull misses nothing | SpokeSync |
| Offline till (`apps/store-desktop`) | one snapshot on the device | seed, sell, replay | three handlers that save whole snapshots, crashes, lost answers | the till tells the truth about the cloud | OfflineTill |
| Commerce (`services/commerce.py`, `commercial_access.py`) | plans, subscriptions, entitlement, overrides, events | trial, event, suspend, override | events out of order and again | entitlement follows a subscription, suspensions hold | Commerce |
| Identity and access (`services/auth.py`, `onboarding.py`, `rbac.py`, `routes/*.py`) | users, sessions, invites, memberships | sign in, refresh, sign out, invite, grant | concurrent refreshes | one session per sign-in, floor staff stay on the floor | Access, RouteGuards |
| Legacy API (`services/api/store_api/main.py`) | one store in memory, a state file | every POST, restart | threads without a lock, snapshot and rollback of everything | served whole or not at all, documents settle once | LegacyStore |
| Catalog, barcodes, customer profiles; observability; consoles, mobile, hub relay; release tooling | master data, views | single-row calls and reads | little | - | not modelled |

How they interact: routes call services, services share one session. Checkout
payments call `create_sale(auto_commit=False)` of billing inside their own
transaction, and billing calls inventory, promotions, gift cards, store credit,
loyalty and workforce in it. Compliance and supplier reporting enqueue jobs in
the transaction of their request; the worker dispatches these to their handlers.
The payment provider calls back by webhook and answers polls. Clients reach
everything through HTTP, the branch hub replays what was sold offline.

`PROJECT.json` lists every component with its status, and under `hazards` what
in this code is hard to test, each at its line, with the properties for it.

## How the models are built

The three models with the most dangerous races, OperationsQueue, Billing and
CheckoutPayments, follow a request or a worker through every place where
another one may commit. The others rest on `Desk`, which says what all services
have in common:

* a request reads and checks (an action `Checked` with what it read in its
  errand), and commits later (`Committed`, with the rows it wrote), or is rolled
  back (`RolledBack`: it died, or a unique constraint refused its row);
* what it writes is computed from what it had read, as in the code, so a stale
  copy overwrites, and a column equal to the copy is not written;
* `overtaken` is history: the requests during which another one committed.
  `blind` is the rows that an overtaken request has written. A property that a
  race can break is stated up to blind rows (`Seen`), so it still rules out
  every other way to break it, and names exactly which race is needed;
* a request that reads nothing it depends on is one step (`AtOnce`).

This is coarser than Billing in one way: all reads of a request are one step,
which is sound where its later reads only see what a request that began later
would have seen; where the code reads again after its own writes (a number after
an INSERT, a copy of a row after a flush) the module has a step for it
(`NumberReplay`, the `late` parameter of `StoreCredit`, `StoreFact` and
`StoreSnapshot`). Document numbers are unique and read late: two requests that
compute the same one are the case that `RolledBack` covers.

`Sums` is Python's `sum()` over a list, as a recursive function.

### Compositions

`BranchFloor`, `BackOffice` and `Platform` put the components together that
serve a branch, the office and the tenants. The parts share the control plane
(the desks, and the history of who was overtaken) and no row: no handler
modelled in one part reads a row that another part writes. Therefore every
behaviour of the whole is a shuffle of behaviours of the parts, a safety
property of one part's rows holds of the shuffle if it holds of the part, and
TLC needs to explore only one part at a time: the variable `floor` (`office`,
`platform`) says which, and the others stand still (FloorHolds, OfficeHolds and
PlatformHolds prove the properties of these compositions). Where components of the code
do share rows, one module holds both sides: billing and the serialized units,
sync and replay (`SpokeSync`), invoices and their report snapshots
(`SupplierLedger`), purchase orders and the stock ledger (`StockDocuments`),
the payment session and the sale it posts (`CheckoutPayments`), the export job
and the queue's task that runs it (`GstExport`).

## Modules

### OperationsQueue and JobLeases (job queue and its workers)

`row` is the table, `pending` and `retrying` are a producer's and an operator's
request between its read and its write, and `pc`, `expired`, `batch`, `current`
and `copy` are what a worker process holds: where its poll stands, the lapsed
rows it has read, its batch, the job in its hands, and the `attempt_count` it
has loaded. `crashes` and `retries` count against their bounds, `overrun` is
history: jobs whose lease has lapsed at some time.

A poll is ScanExpired (the unlocked read of `requeue_expired_leases`),
LeaseBatch (its flush, the locked SELECT and the commit of the lease), one
Dispatch and one settlement per job, and Sweep. What the model says of the code
and a reader might not expect:

* the two reads of a poll are one session, so a lapsed row keeps the copy of the
  first read, and the requeue writes over what another session did meanwhile;
* the token of `mark_job_succeeded` and `mark_job_retryable` is compared with
  the same copy it was taken from, so the comparison always succeeds;
* a handler ends in one of three ways (`Outcomes`): it returns, it raises before
  any query of its own, or it raises after one. In the last case the rollback
  expires the job objects and the poll ends with another exception (PollAborts);
* an UPDATE of a row the sweep has deleted raises and ends the poll as well.

Abstracted: payloads and results, timestamps (a lease is none, live or lapsed; a
retry delay has elapsed or not), the order in which due jobs are taken.

`JobLeases` is the abstract specification, what producers and operators may rely
on: a job is waiting, taken by one worker, orphaned, done, dead or overrun. Only
its taker finishes or fails it, every failure is counted, the last one the budget
allows buries it, a taken job is not disturbed by an operator's late retry, and
what is done is only forgotten or, on an operator's request, run again. Once a
lease lapses before its work the job is overrun and nothing more is promised:
`queue_stale` shows why. `OperationsQueue` implements it (ImplementsJobLeases);
the mapping (StateOf) reads the table for who leased a job and the session of
that worker for whether it still works on it and at which attempt.

### Billing and BranchLedger (the books of a branch)

A request reads and checks (CheckSale, CheckReturn, CheckExchange,
ReadForApproval), counts documents to number its own (CountNotes, CountSales),
inserts (InsertNote, InsertSale) and posts with its commit (PostSale,
PostReturn, PostExchange, PostApproval), or is rolled back (RollBack). Each of
these is a step of its own, because other requests commit in between. An INSERT
waits while another transaction holds its number, and fails if that commits:
that is the only order between two requests.

`sale`, `note`, `ledger` and `credited` are the tables. `behind` and `late` are
history: a request is behind when another one has committed a change of a
figure it had read, and late when it commits nevertheless.

`BranchLedger` is the abstract specification: invoices and credit notes are
appended to two sequences, and stock moves with them and with nothing else.
`Billing` implements it (ImplementsBranchLedger) under a refinement mapping that
reads the tables in the order of their numbers. For that the numbers must have
no gap, a document must never change, and both halves of an exchange must be
posted at once.

Abstracted: one price per product with tax and discount included, a request has
one or two lines of one product, quantities are whole numbers, the customer is
known. Serialized units are here, batches in BatchLots.

### CheckoutPayments (payment sessions and their finalization)

`rec` is the session table, `sales` the sale rows in the order of their
numbers, `left` the tenders of each cart that still have balance, `happened`
what the provider has seen. A request is at a place `pc` with a copy `job` of
the row it loaded. It writes columns that differ from its copy (WithLife), and
its first UPDATE locks the row until it ends (RowFree). Finalization runs
`create_sale`: it may be refused before it writes (RefusedEarly), counts and
inserts the sale, then debits the tenders and links the session (Post), or
stops at a tender without balance, where the exception is caught and the caller
commits what was flushed (PostOrphan). A finalize that holds a number and waits
for a row, and a webhook that holds the row and waits for the number, deadlock;
the database rolls one of them back (Deadlocked, RollBack).

The provider is external: it confirms or fails an order, and reports any of it
in any order, any number of times, or not at all. `behind` and `raced` are
history as in Billing: a session is raced when the request that posted its sale
had been overtaken by another finalization of the same session.

### Workforce (the working day)

`shifts`, `attendances` and `cashiers` are the tables by number. Check and Write
are the two halves of each of the nine requests (open, close and force-close of
each kind); a number taken first by another request rolls it back (DeskFails).
UpdatePolicy switches what the branch requires. FORCED_CLOSED is CLOSED:
nothing decides on the difference. `sales` of a cashier session stands for the
sales that hang on it.

### DeviceAccess (devices, claims, activations)

`devices`, `claims` and `activations` are the tables, `redeemed` the codes whose
token is out, `seat` the surface a holder's runtime user is bound to,
`lifecycle` the entitlement the gate asks. Registration, claim, approval, the
two kinds of activation, redemption and unlock each have a check and a Store
step. Only `installation_id` is unique, so a second registration of one
installation fails, and a second claim, hub or activation does not.

### HubRuntime (the hub's secret, spokes and reports)

BootstrapHubIdentity makes a new secret and puts it in an answer that reaches
the hub in any order or never (HubStoresSecret, SecretAnswerLost). Spoke
activations, heartbeats and observations are requests of the desk, refused when
the hub's secret is not the stored one. A report counts the spokes it names, and
turns the rows of the others to DISCONNECTED.

### SpokeSync (push, pull, replay)

`envelope` keeps the answer of every call by its idempotency key, `log` the
accepted mutations in the order of their commits, `invoices` the branch's sales
by number. Push reads the envelope and the versions, StorePush and StoreConflict
commit; Replay reads, NumberReplay computes the invoice number, StoreReplay
commits; SyncFails is a rollback, also of a call whose envelope another one has
written first. `cursor` and `pulled` are the hub, which pulls page by page. A
repeated call is the same action again: the envelope answers it, or it runs next
to the first one. TillSale is a sale of another till of the branch.

### OfflineTill (the till without a cloud)

`shelf` is the snapshot in the device's store and `view` the one in the React
state. Billing, replay and the seeding effect hold what they were rendered with,
save a whole snapshot and show it after the save: an action each for the save
and for what follows it. ReplayAnswered, ReplayUnanswered and ReplayRefused are
the answers of the cloud, which keeps an answer by its key as SpokeSync does;
EndApp is a crash between any two steps, SetUpElsewhere a change of scope,
LoadFails a store that cannot be read.

### PrintQueue (print jobs and the desktop that prints)

`printJobs` is the device's rows, `polling` where each timer callback of an app
stands and the jobs it was answered, `dispatching` the flag that lets one poll
run at a time. A poll asks, prints the oldest job it has a printer for, and
reports COMPLETED or FAILED. A call or its answer may be lost, the session may
change during a poll, the app may restart; `sheets`, `untold` and `byHand` are
history: prints, prints whose report never arrived, jobs completed by hand.

### StockDocuments, BatchLots (stock)

`StockDocuments` has purchase orders with their approval, receipts,
adjustments, counts, reviewed counts, transfers and restock tasks of one product
over two branches, each document with its ledger entries in one commit, and the
boards of `inventory_policy.py` as operators. `BatchLots` has the lots of a
receipt: a lot does not know what was sold of it, the report spreads the stock
over the lots by expiry (Depleted), and write-offs are checked against that
spread.

### SupplierLedger (suppliers and their reports)

`facts` is what was booked, in the order of commits; `snapshots` the rows of one
report, each with how many facts it shows and its dirty flag; `refreshJob` the
queued refresh. A fact marks dirty the rows that the request reads as clean: it
may read them before or after its own INSERT is flushed (`late`), and the ORM
writes no flag that was dirty in its copy. Between a refresh's read of the facts
and its commit other facts come in.

### GstExport (exports of invoices)

CreateExport and RetryExport queue a task of the job queue; RunPrepare is the
worker that takes it, SubmitIrn, SubmitRefused and SubmitFails the portal's
answers, StoreAttachment and StoreRefusal the commit. A lease may lapse while the
portal is asked (TaskLapses), so a second worker runs the same task. The portal
is external and answers a registered invoice with its IRN again.

### CustomerValue, Promotions, CheckoutPricing (what a cart is worth)

`CustomerValue` has a card, a customer's credit with its lots and loyalty points:
rows of a tenant that two branches work on at once. Each kind of value keeps its
ledger's sum next to the balance (`book`), so a lost update shows as a
difference. `Promotions` has codes and vouchers with their counts. A sale is
checked by the preview and raises the counts the preview had read.
`CheckoutPricing` is `build_preview` in whole paise: which automatic campaign
applies, what a code given by hand adds, how a discount is spread over lines
with the remainder on the last, GST within or between states, and the tenders.
Its operators take the request as a parameter, as the functions of the code do.

### Commerce (subscriptions)

`subs` are the subscriptions, oldest first, `entitlement` the one row they are
projected to, `today` a day. A provider's event, a fresh trial and the rebuild
of platform requests write the entitlement without looking at each other. Events
come in any order and again; the ids that were PROCESSED are kept.

### Access and RouteGuards (who may do what)

`RouteGuards` is a table, router by router, of the check in front of each route,
and of the capabilities of each role. `Access` signs people in by either
provider, refreshes, signs out, invites, grants memberships and suspends
tenants; Allowed asks the guards. A refresh reads the session, and deletes what
it has read when it stores the replacement.

### LegacyStore (the API that is being replaced)

`store` is the process's memory, `snapshot` the state file. A POST is four
steps: Asked (the middleware copies the whole store), Look and Handler (a handler
in a thread checks, then writes, and may refuse after it has begun to write) and
Respond (the middleware saves the snapshot, or puts the copy back). Restart loads
the file. In cutover mode the migrated domains answer 410. `torn` and `raced` are
history: a copy, save or rollback over another request's unfinished work, and a
document that changed between a handler's checks and its writes.

### MC modules

`MCOperationsQueue`, `MCBilling`, `MCCheckoutPayments`, `MCBranchFloor`,
`MCBackOffice` and `MCPlatform` give the constants small values. Symmetry is used
in safety runs only, over identifiers the code does not order.

## Runs

| Run | Instance | Shows |
|---|---|---|
| `queue_safety` | 2 workers, 2 rows of one key, 1 producer, 2 attempts, 1 crash, 1 operator retry | rows and leases agree, a job whose lease has not lapsed is in one worker's batch, success is final but for a lapse or an operator's earlier read |
| `queue_liveness` | 2 workers, 1 row, as above, fair | refinement of JobLeases, an abandoned job is requeued, every job settles |
| `queue_stale` | 2 workers, 1 row, no crash, no operator | finding: a stale worker settles the job of a newer owner |
| `billing` | 3 requests, 2 products, one of them with one serialized unit, quantities 1 and 2 | numbers without gap, units sold once, stock and returns covered up to late requests, refinement of BranchLedger |
| `billing_approvals` | 4 requests, 1 product, quantity 1 | credit issued for a return is its refund, once, unless two approvals overlapped |
| `billing_returns` | 2 requests, two lines of one product | finding: more comes back than was sold |
| `payments` | 2 sessions, 2 requests, no tenders, 2 sales | a sale only for a paid order; posted once unless overtaken |
| `payments_liveness` | 1 session, 2 requests, 2 tenders, 1 death, fair | a linked sale is a posted one; a paid session is finalized |
| `payments_orphan` | 1 session, 1 request, 2 tenders | finding: several sales of one payment |
| `branch_floor` | 2 requests; 2 staff at 1 till; 2 installations; a hub with 2 spokes; 2 pushes and 2 offline sales; 2 printing apps; a till with 2 purchases and 1 crash | DayHolds, DevicesAgree, HubRowsAgree, ReplayedOnce, OnlyTheOvertakenErr, PaperMatchesReports, TillTellsTheCloud |
| `back_office` | 2 requests, 2 branches, one order, one receipt in lots, one sale to export, one customer, 2 codes and a voucher, 1080 previews | DocumentsSettle, StockRequestsHold, FirstExpiryFirstOut, LotsCovered, NeverOverpaid, CleanIsCurrent, ExportsAgree, ValueFollowsLedger, RedeemedWithinLimits, PreviewAddsUp |
| `platform` | 2 requests, 3 days and 3 events of a provider; 2 tenants, 2 people; a legacy store in the middle of its day with 2 requests at a time | EntitlementFollowsSubscription, SuspensionHolds, OneSessionPerSignIn, FloorStaysOnTheFloor, ServedWholeOrNotAtAll, LegacySettledOnce |

### Bounds, and why they are enough

* `MaxAttempts = 2`: an attempt that is retried and one that buries. Counts
  beyond the maximum are one value (OneMore).
* `MaxCrashes = 1`, `MaxRetries = 1`, `MaxDeaths = 1`: a crash, a retry or a
  death between any two steps. Two rows of one key let a batch hold a job behind
  the one in hand, and let the producer enqueue anew while an old job is retried.
* `BatchLimit = 2` lets a worker lease everything; the lease also takes less
  when less is due.
* Three billing requests are two that race and one that came before them (the
  sale that both return). Approvals need a fourth: sale, return, two approvals.
* `MaxQty = 2` separates part of a line from all of it. `MaxSecond` is 0 except
  in `billing_returns`: a second line of the same product is the finding, and
  would hide behind itself what else could go wrong with returns.
* `MaxSales = 2`: one sale too many. Two sessions are a session and its retry.
* Two desks: every race of these services is between a request that has read and
  one that commits. `MaxBlind = 1`: once an overtaken request has written, the
  requests under way end and no other begins; what would follow is a consequence
  of the race that the property already names.
* Rows: two of whatever may exist twice (devices, claims, activations, lots,
  snapshots, sessions, purchases, print jobs), one where the second is a copy of
  the first. Documents of the stock are bounded in all (`MaxDocuments = 2`
  when a new one begins, so up to four).
* `CampaignLimit = 3` and `CodeLimit = 2` are reached by two codes; a fourth sale
  is then one too many. Points go in steps of 2, so one is refused.
* Carts of three lines tell part of a spread from its remainder; carts of five
  lines let the rounding of four lines fall on the last, and one of six lines lets
  it take the last below zero before a second discount is spread.
* `MaxDay = 3` with a trial, a grace and a period of one day each: every date of a
  subscription can pass.
* The legacy store opens in the middle of a day, with documents of each kind
  that a request names. Three calls are two that race and one after them; the
  last call is only a sale's submission, or a restart (`Late`).

The safety runs `branch_floor`, `back_office` and `platform` switch the deadlock
check off: their counters stop at their bounds. In `Billing`, `Quiet` is the
state in which every request has been answered; the deadlock check is on in every
run of the queue, of billing and of payments.

### Fairness

* Queue: the worker loop runs for ever (`run_worker_loop`) and is restarted when
  it ends (`Restart=always` in the systemd unit), so every step of a poll is
  weakly fair; a handler returns or raises; time passes, so leases lapse and
  retry delays elapse. Producers, the operator and crashes owe nothing.
* Payments: a request that waits for a row or a number is served in turn by the
  database's lock queue, hence strong fairness of a request's steps; the provider
  sends a success webhook again until it was committed, hence strong fairness of
  that webhook. Polls, finalizations by hand, cancellations, retries and the
  customer owe nothing. `PaidIsFinalized` therefore needs neither the desktop's
  poll nor an operator.
* The other components promise nothing eventually: a request that dies is not
  repeated by the control plane, the hub's replay is a button, an order of
  reports or pulls is the client's.

## Proofs

Seven modules prove, for every value of the constants, what the runs check on
small instances; an eighth, SumProofs, has the facts about sums that several of
them need. The number of jobs, workers, requests, staff, tills, devices,
keys, events and rows is arbitrary. The assumptions are named in the modules
that declare the constants, and TLC evaluates them in every run of them:

* bounds of counters are natural numbers (each module's assumption);
* a handler of the queue ends in one of the three ways, and NULL is no key, job
  or worker (`QueueAssumption`); a provider's failures are FAILED or EXPIRED
  (`PaymentsAssumption`);
* billing requests are finitely many, prices are positive (`BillingAssumption`);
  codes and vouchers are finitely many (`PromotionsAssumption`); orders, totals,
  splits and amounts are positive (`StockDocumentsAssumption`,
  `SupplierLedgerAssumption`, `BatchLotsAssumption`);
* keys of pushes and of replays differ, no replay has the key of the till's own
  sale, and a sale's mutation is of another table than what is pushed
  (`SpokeSyncAssumption`);
* "none" is no installation, and surfaces are the two the code knows
  (`DeviceAccessAssumption`); the launch plan is a plan, events are of the
  provider's kinds, periods are at least a day (`CommerceAssumption`); admins
  are people, every tenant has its branches (`AccessAssumption`);
* the store that the legacy process loads first has books that agree, documents
  of their kinds numbered from 1, and nothing settled twice (`OpeningAssumption`),
  as a process before it has saved it that nothing raced in;
* amounts of a cart's lines are natural numbers, and rates, the terms of campaigns,
  codes and vouchers, and the tenders asked for are whole numbers, negative ones
  included (`PricingAssumption`).

Two theorems of Billing (BillingStockCovered, BillingReturnsSettle) have the
hypothesis `MaxSecond = 0`, a request with one line of a product: with two
lines the properties are false, and `billing_returns` shows the returns.

| Module | Theorem | Property |
|---|---|---|
| OperationsQueueProofs | QueueInvariant, QueueTypeOK | the inductive invariant, TypeOK |
| | QueueLeaseMatchesStatus | LeaseMatchesStatus |
| | QueueExclusive | ExclusiveUntilLapse |
| | QueueAttemptsLeft | ActiveHasAttemptsLeft, a part of the invariant |
| | QueueSucceededStays | SucceededStaysSucceeded (of steps) |
| | QueueImplementsJobLeases | ImplementsJobLeases (refinement) |
| BillingProofs | BillingInvariant, BillingTypes, BillingKnows | inductive invariants, types |
| | BillingNumbersWithoutGap | NumbersWithoutGap |
| | BillingUnitSoldOnce | UnitSoldOnce |
| | BillingStockCovered | StockCovered |
| | BillingCreditMatchesApproval | CreditMatchesApproval |
| | BillingReturnsSettle | ReturnsSettle |
| | BillingImplementsLedger | ImplementsBranchLedger (refinement) |
| CheckoutPaymentsProofs | PaymentsInvariant, PaymentsTypes | the inductive invariant, types |
| | PaymentsSalesArePaid | SalesArePaid |
| | PaymentsPostedOnce | PostedOnce |
| | PaymentsLinkedSaleIsPosted | LinkedSaleIsPosted |
| BranchFloorProofs | WorkforceDayHolds | DayHolds |
| | DeviceAccessDevicesAgree | DevicesAgree |
| | HubRuntimeRowsAgree | HubRowsAgree |
| | SpokeSyncReplayedOnce | ReplayedOnce |
| | SpokeSyncOnlyTheOvertakenErr | OnlyTheOvertakenErr |
| | OfflineTillTellsTheCloud | TillTellsTheCloud |
| | PrintPaperMatches | PaperMatchesReports |
| | FloorHolds | all of these of the composition `BranchFloor` |
| OfficeProofs | StockDocumentsSettle, StockRequestsStand | DocumentsSettle, StockRequestsHold |
| | LotsStayCovered, LotsReportAddsUp | LotsCovered, FirstExpiryFirstOut |
| | LedgerNeverOverpaid, LedgerCleanIsCurrent | NeverOverpaid, CleanIsCurrent |
| | GstExportsAgree | ExportsAgree |
| | ValueFollowsItsLedger | ValueFollowsLedger |
| | PromoRedeemedWithin | RedeemedWithinLimits |
| | PricingPreviewAddsUp | PreviewAddsUp |
| | OfficeHolds | all of these of the composition `BackOffice` |
| PlatformProofs | AccessOneSessionPerSignIn, AccessFloorStays | OneSessionPerSignIn, FloorStaysOnTheFloor |
| | CommerceEntitlementFollows | EntitlementFollowsSubscription |
| | CommerceSuspensionHolds | SuspensionHolds |
| | PlatformHolds | these four, and the two of LegacyStore, of the composition `Platform` |
| LegacyStoreProofs | LegacyInvariant | the inductive invariant |
| | LegacyServesWhole | ServedWholeOrNotAtAll |
| | LegacySettles | LegacySettledOnce |

### The arguments

**Queue.** None of the properties is inductive alone: they speak of rows, while
the steps that could break them write from what a worker remembers. The
invariant adds that until a lease lapses the row still shows the worker that
holds the job, with a live lease and its token (HolderOwns); that a worker
settles a job of its own batch (HandlesItsBatch); that what a poll has read as
lapsed, and every row with a lapsed lease, is in `overrun` (ScansAreOverrun,
LapsedIsOverrun); and that only a RETRYABLE row waits for its delay
(OnlyRetryableWaits). Two workers with the same job would both own its token. A
succeeded row has no lease, so nobody holds it, and if it has not overrun nobody
has read it as lapsed: only the sweep, or an operator who had read it before,
can write it. The argument uses neither fairness nor a bound.

**Queue: the refinement.** A row alone does not say what has become of a job: the
attempt a worker is at is in its session's copy, and after a crash the row looks
as it did before. So the mapping joins the row to the session its token names,
and the invariant gets three facts about sessions: a worker between two batches
holds nothing (RestingHoldsNothing), the copy of a held job has attempts left
(HeldHasAttemptsLeft), and a live lease names a worker (LiveHasOwner). Each action
is then one step of JobLeases or changes no job: the scan, the dispatch, the
restart and whatever is done to an overrun job are stutters; every way a worker
ends maps to Die; RetryCommit maps to Answer, and changes nothing when the job
has been leased meanwhile, although it overwrites the status column. The run
checks the refinement on one contended row, the theorem for any number of rows,
workers and batches.

**Billing: numbers and units.** Numbers are counts read at an earlier time, so
`NumbersWithoutGap` alone does not survive a commit. The invariant adds that the
number a request has computed is at most one more than the count of the
committed documents, that a request whose INSERT has gone through holds exactly
that number, and that it is the only one (HeldSaleNo, HeldNoteNo). So whoever
commits posts the next number, and nothing else is posted while it is held.
Units follow from the same fact: the second look at the units happens with the
number in hand, and no sale commits between that look and the request's own
commit (HeldUnits). Both the constraint and the second look are needed: without
the look TLC sells a unit twice, and without the constraint another sale could
commit between the look and the commit.

**Billing: stock, credit and returns.** A request that no commit overtook finds
at its own commit what it found when it checked (Knows): a commit changes only
figures that the committing request has read, so whoever has read one of them is
now behind. StockCovered and CreditMatchesApproval follow at the commit: what
was checked still holds, or the request is late. For returns the invariant says
of each sale that what came back is at most what was sold and what was refunded
at most what was paid. The total needs a stronger form, because an exchange gives
value back and takes the same value again: what is still Outstanding on all
sales and what was given back do not exceed what was taken in (PaidFor).

**Billing: the refinement.** The mapping lists a table in the order of its
numbers. When numbers have no gap there is one such list (InOrder); a commit
takes the next number, so the new list is the old one with one row appended, and
rows of earlier documents do not change. An approval changes no column the list
shows and maps to a stutter; an exchange appends to both lists at once. The
number of a row determines the request, so the mapping's CHOOSE picks it.

**Payments.** A request acts on a copy, so the invariant says what the copy still
implies of the row (RequestKnows): a report it has loaded is of something that
has happened, so its session was paid; a sale that was linked stays linked; and
unless the request is behind, no sale was linked since. Numbers says that at most
one request has inserted its sale and holds the next number. SessionRight is the
row: a linked sale is a posted one of this session, and two sales of a session
that is not raced do not exist.

**Everything on the desk.** The other control-plane modules share one argument.
What a request that was not overtaken has checked is true when it writes
(StillTrue, or `...Checks` of each request). It is inductive because a commit
overtakes every other request, so it has to be shown only where a request has
just read. A write of an overtaken request is in `blind`, which never shrinks,
and the properties speak of rows that are not. Beside it stands what holds of
overtaken requests too (`...Hands`): the rows they have in hand exist, since rows
are not deleted, and the amounts they carry are of their types. What each module
adds:

* *Devices*: the database keeps one device for an installation and one surface
  for a holder's user whoever overtakes whom; ClaimsAgree and OneSurfacePerHolder
  follow from these alone. *Hub*: a report that was not overtaken counts exactly
  the spokes whose rows it writes.
* *Sessions*: a refresh has checked that no other session of its sign-in is alive
  and that it was not signed out (Knows). An expiry overtakes nobody and only
  takes away. Session numbers are never used again, so a new sign-in begins with
  neither a session nor a sign-out.
* *Subscriptions*: an event or an override projects the subscription it has read;
  if it was not overtaken, that row has not changed since, so the entitlement
  shows the dates of a subscription that is there (EntitlementShown).
* *Exports*: the portal's knowledge only grows, so an IRN it gave is still there
  when the answer arrives, however late; the status of the sale and of its export
  change in the same commit.
* *Supplier ledger*: a payment that was not overtaken is measured against all
  facts before it (Allowed of the prefix), and facts are only appended. A row
  that is clean shows all facts, or the request that wrote it or failed to mark
  it was overtaken.
* *Value*: a lot is drawn as far as the sum of the lots before it allows, which is
  one statement about partial sums: what all lots lose is what was redeemed.
* *Lots*: the remainders of the report are differences of `Min(stock, sum so
  far)`, so they telescope to the stock or to what all lots hold. A write-off that
  was not overtaken takes at most the remainder of its lot, which both the lot and
  the stock can lose.
* *Stock documents*: a ledger only grows, and what it says of a branch after n
  entries never changes, so a count is compared with the ledger at its own entry
  (`after`). Sums over the ledger and over the boards grow by the same amount with
  each document. A decision that was not overtaken finds its order undecided.
* *Promotions*: the count of a campaign is the sum over its codes of their sales.
  One redemption adds one to one term of the sum, and to the count, unless the
  request was overtaken.

**Floor access.** FloorStaysOnTheFloor has no history to it: it is shown of every
state, by going through what the guards of its routes ask and which roles carry
that. The proof corrected the property: a membership's role is whatever name the
tenant gives (`routes/tenants.py:88` and `:117` pass it on unchecked), so the
roles from which a gift card can be issued include platform_super_admin; the
run's small set of roles had hidden that.

**Replay and push.** ReplayedOnce is inductive once a call is known to be about a
key of its own kind (ErrandsFit). Two replays of one key may both have computed a
number; the second to commit finds the envelope of the first. For
OnlyTheOvertakenErr, versions rise along the log (Rising), a push that was not
overtaken has read the last version of each record of its batch (PushesRead), so
what it appends is above everything the hub has pulled (CursorReached). What a
batch accepts is a recursive function over its positions; its facts are proved
by the least position at which they would fail.

**Offline till.** Every handler holds snapshots that others may have overwritten,
so the invariant speaks of all of them: each snapshot in the store, in the view
or in a handler's hand says of a reconciled sale the number the cloud answered
(SnapshotsAreTrue). It stays so because the cloud keeps its first answer: a sale
is booked at most once (BookingsAreFew), and what was never asked for has no
number (UnservedIsUnknown).

**Printing.** Of an app at most one poll is past the flag (OnePoll). For it, the
prints of a job are its reports, lost or not, and the one print in hand
(SheetsReported); of the jobs a poll was answered and has not printed from yet,
none was printed by this app but for lost reports (ListedUnprinted); and what a
poll is about to report it has printed (HeldPrinted).

**Legacy store.** A handler works on whatever store is served, a refusal puts an
old copy back, and a restart takes the one on disk, so the invariant speaks of
every copy there is (World): the store served, the snapshot, the opening store,
what each request may roll back to and what its handler has looked at. Of each it
says that its documents are numbered from the requests, are of their kinds, cite
only what was numbered, and have settled what they cite once, but for those in
`raced` (Coheres); and of any two, that a document which both have is of one kind
in both (KindsAgree). The number of a request under way is no document of any of
them (IdIsFree). A handler adds at most one document,
or amends one, to a store of the World, and the result coheres (HandlerEnds, by
one lemma for each handler); a rollback and a restart bring back a store of the
World. For ServedWholeOrNotAtAll, BooksAgree is not kept while a handler that
will refuse has written half of its work: the invariant says (WholeSoFar) that
the refusals still pending then lead back to books that agree, unless one of them
was overtaken, whose rollback is what `torn` names.

**Pricing.** A preview is one step, so the invariant only says that the answer is
the price of a request that may be made (PricingInv); the work is in the price.
`_allocate_discount` is a recursive function over the lines, the discount that
remains after each. By counting up the lines: what was given before the last line
differs from the lines' share of the discount by at most half a paisa for each of
them (SpreadRuns), because a line takes its rounded share, all it weighs, which is
at least its share, or all that remains, after which nothing is missing. The last
line takes what remains, so it is off by the sum of the others' roundings at most
(SpreadIsFair), and the shares add up to the discount (SpreadAddsUp). The choice of
a campaign ends, because "outranks" is a strict order of priority and gain
(BestIsThere). The attempt at this proof corrected the property: the share of the
second discount was measured against lines that a first discount may have left
below zero, while `_allocate_discount` passes those over. The run now has a cart
where that makes a difference (six lines of 5, 5, 5, 5, 391 and 1 paisa, a campaign
of 288 and a code of 96), and the property also speaks of campaigns for some items.

**Compositions.** The part that moves keeps its own invariant. A part that stands
still is as it began (DayStands, DevicesStand, ...), where its invariant holds
whatever the shared desk and its history are, which the moving part changes.

### How data is handled

The library's induction theorems take an operator as a parameter, which no
installed prover can instantiate, and no module that is proved about declares a
RECURSIVE operator. Facts about recursive functions and about sums over tables
are proved by the least counterexample instead: of the numbers (or the
cardinalities of subsets) at which a fact fails there is a least one
(LeastNumber), which is not 0, and the recursive equation carries the fact over
from its predecessor (CountingUp, OneByOne). From this follow that the recursive
functions exist, that the order in which a set is summed does not matter, and
that a sum over rows moves by what one row moves (SumOneMore, SumMoves). SumProofs
has them for sums over sets, OfficeProofs for the partial sums of sequences. A
division is replaced by the two inequalities it satisfies (PaiseIsNear), and products
of variables are named before they are compared, so that what is left is linear.

### Model-checked only

Every invariant and every action property that a run expects to hold is proved.
Liveness under fairness (AbandonedJobIsRequeued, EveryJobSettles, PaidIsFinalized)
and ENABLED are out of the prover's reach and stay with TLC.

## Findings

1. `queue_stale`: `mark_job_succeeded` and `mark_job_retryable` compare the token
   with the worker's own copy (`repositories/operations.py:126`). The design
   (`docs/superpowers/specs/2026-04-14-async-jobs-orchestration-design.md:182`)
   requires that a stale worker cannot overwrite a newer owner.
2. `billing_returns`: `build_sale_return_draft` compares the lines of one request
   one by one (`services/returns_policy.py:98-102`).
3. `payments_orphan`: `_attempt_finalize_sale` catches the exception of
   `create_sale` without a rollback (`services/checkout_payments.py:494-502`),
   where the design of the checkout
   (`docs/superpowers/specs/2026-04-15-store-desktop-cashfree-checkout-orchestration-design.md:209`)
   promises exactly one sale per confirmed payment.

### What else the models show of the code

These have no run of their own. The models contain the behaviour (that is where
it was met); the properties are stated so that they hold beside it, up to blind
rows or up to the history variable that names the case. Designs are under
`docs/superpowers/specs/`.

* Queue: after a rollback `job.id` is read from an expired object
  (`services/operations_worker.py:69-71`), the failure is not counted, and the
  job never becomes DEAD_LETTER as `2026-04-14-async-jobs-orchestration-design.md:193`
  requires (PollAborts).
* Exports: a handler that fails this way, or whose attachment hits the unique
  constraint after a retry that an attachment has overtaken, ends the poll each
  time. The manual `attach_irn` needs the status IRN_PENDING, which nothing
  sets, although `docs/API_CONTRACT_MATRIX.md:676` lists it.
* Books of the office: counts that are approved twice post their variance twice;
  return lines of one product to a supplier pass one by one; two first reads of a
  supplier report seed two rows; a refresh that a fact overtakes leaves a stale
  report CURRENT. All but the second need requests that overlap.
* Loyalty: `reverse_sale_loyalty` (`services/loyalty.py:282`) has no caller, where
  `2026-04-16-loyalty-foundation-design.md:228` has returns reconcile points.
* Pricing: in a cart of five lines or more, the remainder of a spread discount
  may exceed the last line, which ends below zero by half a paisa for each line at
  most; a second discount is then spread over the other lines.
* Subscriptions: `2026-04-14-saas-commerce-tenant-lifecycle-design.md:208` has
  suspended tenants refused runtime access; the gate asks the entitlement only
  for sessions of a `store_desktop_activation` (`services/auth.py:76`). A
  bootstrap after a cancellation starts a trial anew; a CANCELED entitlement
  passes; an expired override is looked at only when something projects the
  entitlement again (the same design, lines 232-233).
* Access: two refreshes at a time leave two sessions, and a sign-out overtaken by
  a refresh leaves one (the sign-ins that OneSessionPerSignIn exempts). A role is
  not checked against the scope it is granted in, its name against no list, and
  memberships are not revoked.
* Printing: a lost report, a cancelled poll or a restart prints again; an error
  after printing reports FAILED; a job without an assigned printer holds up those
  behind it.
* Offline till: a replay saves the snapshot it began with over a sale made
  meanwhile, whose number is used again
  (`2026-04-14-offline-branch-operations-design.md:337` has numbers monotonic);
  a crash during a replay leaves its sales REPLAYING for good (line 338 has the
  replay queue survive a restart).
* Legacy API: a refused POST puts back the whole store, over what other requests
  have done meanwhile; a handler that raises leaves its first half in place.
  Without a state file there is no rollback and no suspension check
  (`services/api/store_api/main.py:525`).

## What is not modelled

Components:

* catalog, barcodes, price tiers and customer profiles: one row per call, without
  a protocol of steps; RouteGuards has their guards;
* reports (`reporting.py`, `supplier_reporting*.py` but for their snapshots):
  aggregation without state;
* observability and system status: reads;
* the branch hub's relay in Rust: it passes calls on; what it keeps is its
  identity, external in HubRuntime;
* the mobile runtime and the web consoles: screens over the calls that are
  modelled;
* the desktop's outbox of mutations and its poll of a payment session: clients of
  calls that SpokeSync and CheckoutPayments allow at any time, in any order and
  repeatedly, which is more than these two do;
* release tooling, the worker stub, shared packages: no run-time state.

Within the modelled components: tax and rounding in Billing (CheckoutPricing has
them); serial numbers in StockDocuments; batches in Billing; audit records; the
contents of jobs, mutations and provider payloads; `copies` of a print job; the
device heartbeat; verification of tokens by the identity provider;
`services/authority.py` (configuration); staff profiles; the manual attachment
of an IRN, which cannot be reached.

## Plan

Done: all modules above, three compositions, and the proofs of all runs'
invariants and action properties.

Left, in the order of what they would add:

1. `Outbox`: the desktop's queue of mutations, which replays one whose answer was
   lost and drops what was queued meanwhile, composed with SpokeSync.
2. The desktop's poll of a payment session, with the fairness of its timer:
   PaidIsFinalized without the provider's repeated webhooks.
3. Cashier sessions of Workforce composed with CheckoutPayments, whose
   CashierCloses would become Workforce's action.
