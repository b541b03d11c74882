# Verification of the SHEIN order manager

TLA+ specifications of the Go fulfilment service (`src/internal`, `src/cmd`) and
of the Python programs beside it (`src/src/shein_api_manager`, `src/scripts`),
the TLC instances that model-check them and the TLAPS proofs of their most
important properties. Paths below are relative to the root of the repository,
where the sources lie under `src/`.

## 1. The system

One Go server serves the operators of one or several shops. It shares a
PostgreSQL database with Python programs that synchronise orders, products and
returns and show the profit of the shop, calls the SHEIN OpenAPI to quote, buy
and print shipping labels, and calls XLWMS (the warehouse system, with its OMS
and DPS sides) to reserve stock, assign warehouses and create parcels. SHEIN's
purchase of a label costs money and has no idempotency of its own: most of the
Go code exists so that an order gets exactly one label and does not get lost.
The Python code has to bring over every order, return and product from lists
that are paged, limited in depth and still moving, and to compute from them
numbers that agree with each other.

| component | state it keeps | operations | what is hard |
|---|---|---|---|
| Automatic fulfilment (`auto_fulfillment.go`, `bulk_fulfillment.go`, the job part of `fulfillment_queue.go`) | rows of jobs, batches and their items; the channel `autoJobs`; armed `time.AfterFunc` timers; worker goroutines | run one order, run all ready orders, claim, set the state, confirm later, finish an item and start the next, recover after a restart | workers, timers, handlers and the recovery goroutine change the same rows between each other's statements; the channel is bounded and lost by a restart; errors of the closing statements are only logged |
| Label purchase and operation ledger (`operations.go`, `server.go`, `store.go`, `price_analysis.go`, and the run of an order in `auto_fulfillment.go`) | `shein_go_api_operations`, quotes, choices of quotes, the selection and result kept in the job | quote, choose, reserve, call SHEIN, complete or fail, check the result, exclude a carrier, print | two tabs or a retry under one key, two keys for one quote, no answer, a stop between the sale and its record, different order of the steps by hand and in a run |
| Fulfilment tasks and warehouse watch (`warehouse_watch.go`, tasks in `store.go`) | one row per package: label, parcel and OMS observations, resolution by an operator | upsert, record results, watch, sync, mark unprintable, resolve | a watcher works from a snapshot over several remote calls while handlers and other watchers write the row |
| DPS parcels (`xlwms.go`) | the parcel in XLWMS, its number in the task | look up, cancel, attach the label, create, record | check and act are separate remote calls made by three callers |
| Full order synchronisation (`orders.py`, `db.py`; command `sync-orders-full`) | a job per sync key, its windows with their next page, the orders | create or resume, page, store list entries and details, continue past the paging limit, reset | a run may stop between any two transactions and is resumed by another; two runs may work on one key; SHEIN lists only the first 9990 orders of a window |
| Latest synchronisation (`sync_latest_shein_data.py`, `returns_api.py`, `products.py`) | none but the data: the newest row is the cursor | plan, page, store list entries and details of orders, returns, products | the lists move while they are read; list entries move the cursor before the details are there; the Go server writes into the table of the orders |
| Inventory tickets and cost templates (`pnl_web.py`, tables in `db.py`) | templates, categories, cost types, tickets and their cost entries | seed, create, save, change a type's mode, delete | requests of several operators at once, with what the foreign keys, row locks and cascades of PostgreSQL make of them |
| Profit export (`export_orders_profit.py`) | a file with a row per line of an order | allocate the amounts of an order, apply a policy | weights or incomes that are missing, states that exclude an order |
| Profit report and shipping fee pages (`pnl_web.py`) | none: answers from the file and the current mapping of SKUs | select, estimate, sum up, group, page, trends | an estimate must not depend on what is selected; several answers must agree |
| Order queues and inventory classification (`fulfillment_queue.go`, `inventory_classification.go`) | snapshots of orders, inventory verdicts tied to a snapshot | refresh, classify, list by queue | a verdict may be older than the order it is about |
| Open-order synchronisation of the server (`auto_fulfillment.go`, `order_query.go`) | time of the last success | windows with overlap and a maximum catch-up, pages | gaps at the boundary of windows |
| Carrier policies and choice of a quote | policies per shop | filter, rank | ties, missing values |
| Warehouses, sessions, registry, HTTP clients, migration command, XLWMS bridge, CLI, web pages, deployment | see section 6 and `PROJECT.json` | | |

Interactions. An operator's request validates orders and either creates one job
(`POST .../run` for an order) or a batch with one item per order. Jobs reach the
workers through the channel; a worker claims the job in the database, runs the
order (queue classification, quote, choice, purchase through the ledger, check
of the result, print, hand-over to the warehouse ledger) and writes the verdict
to the job and to the item of the batch; closing an item starts the next one.
An unconfirmed purchase is checked again by a timer that pushes the job anew.
At start a goroutine requeues the live jobs, pushes them and resumes the batch
while the listener already serves requests.

The Python programs are separate processes. `sync-orders-full` fills the orders
of an interval, the script for the latest data (run by hand, or by the web
application behind one lock) keeps up with what changes. The web application
then exports the profit file, and its report pages answer from that file and
from the SKU mapping they read from XLWMS's database for each request. Its
inventory pages work on tables of their own.

What makes each component correct:

* automatic fulfilment: one worker per order, one order of a batch at a time, no
  live job or batch forgotten, a completed order never run again, a batch ends;
* label purchase: one call of SHEIN per key, one purchase per quote, no second
  label beside a living one, every purchase traceable to a choice and every
  choice to what was bought, an excluded carrier never bought again, a pending
  row means work in progress;
* tasks: a resolved task stays resolved, an unprintable package is not tried
  again, an observation is not replaced by an older one;
* parcels: at most one live parcel per order, known to the task;
* full synchronisation: progress is recorded after the work it stands for, a
  finished window is complete, every order is stored or still to be fetched, a
  run ends;
* latest synchronisation: nothing the next run will not look for is missing;
* inventory: an entry belongs to the template of its ticket and has the form of
  its type, the first template is made once, nothing deleted comes back;
* export, report, pages: amounts add up, an order is counted once, an estimate
  depends on the file alone, tables, pages and lists agree;
* queues: a verdict counts only for the snapshot it was computed from, no open
  order outside every queue;
* synchronisation of the server: the windows cover the interval without a gap.

## 2. Modules

| module | models |
|---|---|
| `AutoFulfillment` | queue, workers, batch, timers, recovery, restart |
| `IdempotentOperations` | what a ledger of operations promises: claimed once, performed at most once and only while claimed, then done or failed for good |
| `LabelPurchase` | the purchase of labels of one order, by hand and by a run |
| `WarehouseWatch` | the task of a package, the watcher, the handlers and the hand-over, and the parcels of XLWMS |
| `OrderFullSync` | jobs, windows and runs of `sync-orders-full` |
| `LatestSync` | the script that catches up with SHEIN |
| `InventoryCosts` | tickets and cost templates under concurrent requests |
| `ProfitReport` | the export, the estimates, selection and summary of the report |
| `ReportPages` | the tables, pages and lists computed from them (extends `ProfitReport`) |
| `AutoFulfillmentProofs`, `LabelPurchaseProofs`, `WarehouseWatchProofs`, `OrderFullSyncProofs`, `InventoryCostsProofs`, `LatestSyncProofs` | the theorems about the module they extend |
| `ProfitReportProofs` | the theorems about `ProfitReport` and `ReportPages` |
| `SetSums` | the arithmetic of sums over finite sets that these need |
| `MC...` | symmetries and the values of constants for TLC |

### AutoFulfillment

One action is one statement or transaction of the database or one operation on
the channel; what lies between is local to a goroutine and is kept in `pc` and
`ref`. Variables: `job`, `attempts` are `shein_go_auto_fulfillment_jobs`;
`batch`, `item`, `turn` the latest row of `shein_go_bulk_fulfillment_batches`
and its items; `queue` the channel with `QueueCap` places; `timers` the armed
`AfterFunc`s; `accepted` the orders a handler has validated and not submitted
yet; `resume`, `todo` the progress of `resumeAutoJobs`.

* `ClaimAutoJob`, `ExecuteStep`, `ExecuteComplete`, `ExecuteUnconfirmed`,
  `ExecuteFail`, `SaveRunError`, `RunFinished`, `LoadFinishedJob` are
  `processAutoFulfillment` and what `executeAutoFulfillment` writes to the job.
* `FinishBulkItem`, `StartNextBulkItem`, `EnqueueBulkJob`, `LoadCreatedJob`,
  `LoadExistingJob`, `Push`, `FailOverflow` are the statements of
  `finishBulkItem`, `enqueueNextBulkItem` and `enqueueAutoJob`, shared by
  workers, callbacks, handlers and recovery.
* `TimerFires`, `RequeueWaitingAutoJob` are the callback of the timer.
* `ValidateRequest`, `SubmitSingle`, `CreateBulk` are the handlers.
* `ListResumableAutoJobs`, `PushResumedJob`, `ResumeBatch` are the recovery.
* `Crash` stops the process at any point: goroutines, timers and channel are
  gone, the rows stay. `DbError` and `RecoveryDbError` let the next statement of
  a goroutine fail and follow the error path of the code.

Abstractions. A failed statement has no effect (no ambiguous commit).
`attempts` saturates at `MaxAttempts`, which is all the code compares. Only the
latest batch is kept: the code never opens a batch beside a running one and
looks at no older one. Whether an order is ready is a free choice at validation.
The reading and writing of the job and the arming of the timer in
`ExecuteUnconfirmed` are one step: only the worker that holds the job writes it
then. `RestartStoppedBulkItem` is left out: no code writes the status `stopped`
it asks for.

### LabelPurchase

One order, its quotes and the keys it can be bought under. `ledger` and `hash`
are `shein_go_api_operations` (the hash is the pair of quote and channel);
`quoted`, `choice`, `rejectedChoice` the saved quotes and choices; `job`,
`placed`, `jobQuote`, `jobChannel`, `rejected` what a run stores in its job;
`label`, `calls` what SHEIN knows; `pc`, `req`, `excluded` the handlers and the
run. Handlers and the run share `Reserve`, `Verify`, `ReadChoice`,
`InsertChoice`, `Call`, `Complete`, `Fail`, in different orders:
`operationHandler` reserves the row and then the choice, the run
(`callAutomaticOperation`) the choice first. `CarrierAnswers` is SHEIN deciding
about a label, the one external action besides the restart. `RecordLabel` is
what the watch writes into the job when it meets a label that somebody bought.

A carrier has two names, both of `automaticCarrierKey`. `TakeQuote` looks a
channel up by its code, express id and short name (`QuotedCarrier`); a refusal
is recorded by the code alone (`CodeCarrier`), which is all the job keeps. The
two agree when the code names the carrier. The instance has two channels of one
carrier for which they do and one for which they do not.

Abstractions. Reserving a row is one step (rows are never freed). The
Idempotency-Keys of clients never equal an automatic key, which is a hash of
quote and channel. Operators buy from quotes they asked for; SHEIN may give a
quote twice. The ledger row of the automatic print is fresh for every attempt
and tells nothing, so it is left out. Answers of a purchase without identifiers
are left out. What results write to the tasks is in `WarehouseWatch`. The
run is one thread, as `OneWorkerPerOrder` of `AutoFulfillment` justifies. The
statuses failed and manual of the job are one: a model that may start a run from
either allows more than the code. `lost` records that SHEIN sold a label to a
run and the sale did not reach the job (no answer, restart or failed statement).

### WarehouseWatch

One package of an order whose label is bought. `row` is its row of
`shein_go_fulfillment_tasks` (status, whether resolved, and the columns of a
`ParcelWatchUpdate`: outbound order, status key, outcome of the
synchronisation); `platform` the order as the synchronisation stored it;
`parcel`, `labelled`, `cancelling` the outbound orders in XLWMS, `oms` the
platform order in OMS. A thread is the watcher or a caller (a handler, or the
run that hands its order over); `pc` is its next request or statement, `my` the
update it builds, `seen` the parcel it looked up, `rec` what `recordParcelWatch`
merged. Nothing is locked between two steps of a thread.

* `StartPass`, `SyncOMSPlatformOrders`, `LookupWatchedParcel`, `LookupFails`,
  `ReadPlatform`, `QueryPlatformOrder`, `AssignPendingOMSPlatformOrder`,
  `RequeryPlatformOrder`, `SaveWatch`, `SaveExpired`, `GiveUpPackage` are
  `refreshWarehouseWatch` for one task.
* `EnsureAutomaticDPSParcel`, `EnsureLookup`, `CancelLookup`, `CancelParcel`,
  `WaitForLingxingParcelCanceled`, `PrintExpressInfo`, `PersistPrint`,
  `CreateParcel`, `LookupCreatedParcel`, `RecordParcelWatch`, `SaveRecord`,
  `UploadLingxingParcelLabel`, `LookupUploadedParcel` are
  `ensureAutomaticDPSParcel` and `createLingxingParcel`, shared by the watcher,
  the hand-over (`CompleteAutomaticWarehouseHandoff`) and the handlers
  (`CreateXLWMSParcel`, `UploadXLWMSParcelLabel`, `FulfillmentTasks`).
* `UpsertFulfillmentTask`, `UpdateFulfillmentTaskResult`,
  `ResolveFulfillmentTask` are the other statements on the row.
* `CallFails` lets the next request or statement fail, or its answer be lost
  after it took effect (the next request then fails); `Abort` ends a thread
  anywhere, as the deadline of its context or a restart of the server does.
* `ShipOnPlatform`, `ParcelMoves`, `CancellationEnds`, `CancellationRefused`,
  `ForeignParcel`, `OrderMoves` are SHEIN and XLWMS, as the code uses them.

Abstractions. The 30 minutes after which a missing platform order is a leak, and
whether SHEIN refuses a print with code 9999400, are free choices. `ready` and
`label_ready` are one status, as are the statuses before a label. XLWMS's
statuses 0 and 1 are draft (one without a label is replaced at 0 and refused at
1: either may happen), 2 processing, 3 shipped, 4 canceled, 5 to 7
exception; OMS's canceled and exception are `stopped`. The outcome `leak` is
`manual_required` with the message of a missing order, kept apart only for the
property about it. The columns for accounts, messages and the attached label
are dropped (the last is a copy of `labelled`). A lookup returns any of several
living parcels. The lookup and the upload of a label are one step, since the
upload works on what that lookup found. `EnsureWarehouseLedgerJob` is in
`AutoFulfillment`. `overlapped` is a history variable.

### OrderFullSync

One action is one transaction of `db.py` or one call of SHEIN. `job`, `windows`
and `rows` are the job row, the window rows (`window_index` counts from 1) and
the stored orders; `generation` stands for the ids of the windows, which
`--reset` deletes: a statement on a deleted id changes no row. `pc`, `size`,
`queue`, `win`, `page`, `todo`, `verdict` are the local variables of a run of
`sync_orders_full`, `win` a row as it was read, possibly long ago.

* `EnsureJob`, `ResetJob`, `EnsureWindows`, `LoadPending`, `StartWindow`,
  `ListPage`, `UpsertOrder`, `UpdateOrderDetail`, `CompletePage`,
  `CreateContinuation`, `FinishWindow`, `ReadSummary`, `FinishJob` are the
  function from top to bottom; `FailWindow`, `FailJob` its `except` clause.
* `Fail` raises anywhere inside the `try`, `Crash` ends the process anywhere.
* `Records`, `OrderListAnswers` are SHEIN: pages in allocation order, and
  nothing owed past the limit.

Abstractions. Orders are queried by allocation time, which does not change (the
lists that move are in `LatestSync`), and the `createTime` of the last record,
from which a continuation starts, is taken to be that time; an answer with
details has one for every order asked for. Rate limiters, retries inside a call
and the content of orders are left out. `past` is a history variable: the orders
past the limit of a window whose continuation has not been written, be it that
the run stopped before, or that it never is because the limit is reached within
the first or the last second of the window.

### LatestSync

One run of the script for one kind of data; there is no row of progress, so the
rows are both the data and the cursor: `stored` is the version (the time of the
last change) of a list entry, `updated` the column with it, `detailed` says
whether the detail is of the last change, `seen` is `last_seen_at`. `Progress`
is the newest `updated`, or for want of one the newest `seen`; products have
only the latter. `changed` is SHEIN, which `Change` moves on at any time; a list
is ordered by last change, so an item that changes leaves the interval of the
run and the items behind it move up.

* `StartRun`, `Plan` (`resolve_start_time` from `Progress`), `ListPage`,
  `UpsertOrder`, `UpdateOrderDetail`, `UpsertReturn`, `UpsertReturnDetail`,
  `UpsertProduct`, `NextPage` are the loops of the script and of the functions
  it calls. An answer with details may leave an item out: a return then keeps
  what it has, an order gets the whole answer for its detail.
* `Stop` ends a run anywhere, and `Tick` lets time pass anywhere: a run may
  outlast its overlap, as nothing in the script bounds it and the end of its
  interval is fixed when it starts.
* `StoreSnapshot` is the Go server, which stores orders it read before, without
  the times of their creation and change (`UpsertOrderSnapshots`).

What the code has no defence against is recorded in two history variables, and
the properties say that nothing else is ever lost. `slipped` are the items that
were too old for the first run (`TooOld`; where the server has stored orders,
the first run starts at the newest `last_seen_at` less the overlap), moved into
a page already read (`Moved`), changed after the interval of a run that went on
to store a time later than they are by more than the overlap (`Outrun`: returns,
whose details bring their time with them, and products, whose cursor is the time
of writing), were still unread when a run of products stopped (`Overtaken`), or
were overwritten by the server with an older version. `undetailed` are the items
whose detail was left out of an answer, whose run stopped before it
(`Unfinished`), or whose detail the server overwrote. An item leaves them when
it changes or is stored as it is.

Abstractions. One run at a time (the web application holds a lock, the script is
started by hand); a window per run; no run reaches `max_pages`. The creation
time of an order or return is left out: what writes it writes the time of the
last change too. Where the Go server stores a list entry and a detail it
has read them together. The job rows the script creates for orders have a key of
their own each run and are left out.

### InventoryCosts

A request is a READ COMMITTED transaction; each action is one statement of it,
and its final writes are one step with the commit. What a request reads early
and uses late - `req` with the modes it has seen, the type it is going to change
- is kept over the steps between. Row locks are guards: `held` are the entries a
request has updated and not committed, `seeding` the inserted settings row that
makes others wait. Foreign keys are guards of the commit, cascades are in
`DeleteRows`, and `Rollback` may end any request.

* `EnsureInventoryTemplate`, `FetchTemplates`, `CreateTemplate`,
  `CreateCategory`, `CreateType`, `BeginSave`/`ReadModes`/`SaveTicket`,
  `DeleteTicket`, `BeginPatchType`/`ConvertEntries`/`PatchType`,
  `DeleteTemplate`, `DeleteCategory`, `DeleteType` are the handlers.

Abstractions. Costs are reduced to their form: an amount alone, quantity and
unit price, only a note. A type sits in a fixed category and that in a fixed
template, since no request moves one. `seeds` counts committed first templates,
`raced` remembers types whose mode changed while another request had read it.

### ProfitReport and ReportPages

`ProfitReport` is a machine of few steps - what the synchronisations store of an
order (`SyncOrders`, `SyncReturns`), the mapping, whose recipes are edited in
XLWMS at any time (`Remap` maps, maps anew or unmaps a SKU), the export
(`Refresh`) - with the algorithms of the program as operators on its
state. `Share`, `Policy`, `ExportedRow` are `build_dataframes`; `InMode`,
`Average`, `Report`, `Summarize` are `apply_pnl_mode` and the functions around
it. Each property compares what several requests would answer in one state, for
every mode, method, selection and period.

`ReportPages` adds the answers of `/api/data` and `/api/orders` (`SkuTable`,
`SkcTable`, `DailyTrend`, `OrderTable`, `OrderPage`), of the filters, and of the
shipping fee page (`ShippingTable`, `Series`, `WindowRate`, `UnachievedOrders`).
The order table is sorted by a column and, where that is equal, by the order
(`Before`); `Sorted` is the one sequence of the orders in which every two are in
that relation.

Abstractions. Amounts are whole numbers that the shares divide: the export keeps
its shares as they come out of the division. Where the answers round, each on
its own, and nothing is computed from what was rounded, the rounding is left
out; `UnachievedOrders` adds up what it has rounded line by line, and there
`RoundToCent` keeps it, with `Cent` as large in the unit of the amounts as one
likes. A platform SKU
is mapped to one warehouse SKU (a bundle is one more value of it) and a mapping
that cannot be read is no mapping. An export is one step; a synchronisation
whose export is refused, since one is running, shows at the next one. The
dimensions SKU attribute, country and province, the cut to the largest groups,
the order of lists other than the order table, the other fees of that list,
margins and text columns are left out.

## 3. Runs

| run | asks | bounds |
|---|---|---|
| `auto_safety` | consistency of batch and items, one worker per order, nothing live forgotten, completed stays completed | 2 orders, 2 workers, 1 handler, 1 callback, channel of 2, 2 attempts, 2 requests, 1 restart, 1 failed statement |
| `auto_liveness` | a batch finishes, a live job settles | no failed statement, no `manual` outcome, channel that cannot fill |
| `auto_stuck_batch` | violated: a batch with a manual order never finishes | |
| `label_purchase` | one call per key, a choice for every purchase, pending purchases in progress, refinement of `IdempotentOperations`, exclusion of carriers, no rejected choice with a living label, no second label of the runs | 2 handlers, 2 keys, 1 quote of the operators, 2 of the runs, 3 channels of 3 carrier names, 2 requests or runs, 1 restart, 1 failed statement |
| `label_race` | violated: the choice of a quote names the channel that was bought | 2 handlers, 2 keys, 1 quote, no run, no failure |
| `watch_safety` | one living parcel, archived means shipped, resolved rows stay | the watcher and one caller, 2 outbound orders, the shop that creates parcels; 1 request or report, 1 failed call or stop, 1 move of the warehouse |
| `watch_liveness` | shipped orders leave the watch, the row names the living parcel | the same with all three kinds of packages, the requests that list and upload, and reports |
| `order_full_sync` | progress is earned, finished windows are complete, no order is lost but past an abandoned limit, a run alone ends | 2 runs, 3 orders, two of them in one second, a window and its continuation, pages of 1, limit 2, 1 reset, 1 failure or crash |
| `order_resume` | violated: a run that stops at the limit loses the orders past it | 1 run, 2 windows, no reset, the rest alike |
| `latest_sync` | nothing behind the next start is missing but the losses named above, for list entries, details and products | 3 items, pages of 2, overlap 1, first look back 1, time up to 3 (so that a run outlasts the overlap), 1 stop, detail left out or order stored by the server, every kind of data |
| `inventory_costs` | entries belong to the ticket's template and follow the mode, one first template, deleted stays deleted | 2 requests at once, 2 templates, categories and types, half of them the first template, 1 ticket |
| `profit_report` | amounts, allocation, counts, estimates, tables, pages, lists and trends agree | 2 orders on different days, goods allocated by weight, by income and equally, 1 charge, 1 warehouse SKU, a cent of 2 (so that odd fees are rounded), pages of 1 and 2, 2 columns to sort by, 1 setting of the trend |

Every bound is a CONSTANT of the module (`MaxRequests`, `MaxStarts`,
`MaxCrashes`, `MaxDbErrors`, `MaxEvents`, `MaxRuns`, `MaxAttempts`, `QueueCap`,
`MaxFaults`, `MaxMoves`, `MaxResets`, `MaxNow`); `PageSizes`, `Limit`, `Step`,
`Overlap` are parameters of the code made small. Two orders and two workers are
the least with which orders of a batch, copies of a reference in the channel and
two claims can meet; a channel of two places both overflows and does not; one
restart and one failed statement hit every step once; two keys and one quote are
a retry and a conflict; two quotes and two channels of one carrier let a run be
refused, choose again and be tempted to come back, and the third channel is one
whose carrier its code does not name. Two outbound orders are a parcel and its
replacement, and a watcher beside one caller puts every two steps of the shared
code next to each other; resolutions, shipments on SHEIN and the ends of
cancellations are not bounded. Three orders with a limit of two make a
continuation necessary, and two of them in one second make its first second
overlap the window before. Three items and pages of two are the least with which
an item can slip from an unread page into a read one; a first look back shorter
than the time lets one be older than it. Two requests with two branches of a
template tree meet on the same type, on different types of one ticket and in a
deletion of either. Two orders of two lines each show orders of one kind and of
two, partly estimable ones included.

Deadlock is checked for the Python modules. It is not for the Go modules: when
requests are exhausted and all work is done the system rests.

Fairness. `FairSpec` of `AutoFulfillment` (`auto_liveness`,
`auto_stuck_batch`): weak fairness of each goroutine's own next step, of a
started callback and of the recovery. The Go scheduler runs a runnable
goroutine, a run ends at the deadline of its context (`autoOperationWindow`) and
a timer fires. Requests, restarts, failures and the intermediate writes of a run
are never owed. `FairSpec` of `WarehouseWatch` (`watch_liveness`): weak fairness
of each thread's own next step, and of the next pass of the watcher, whose timer
is reset after every pass. Nothing is owed by SHEIN, XLWMS or the operators; in
particular a cancellation need not end. `FairSpec` of `OrderFullSync`
(`order_full_sync`): some started run takes its next step, as a running process
does when its calls have time limits; failures, crashes, resets and new runs are
not owed. `LoneRunEnds` is only about a run that has the key for itself.

Three runs end in a violation (`findings` of `PROJECT.json` quotes the lines):

* `auto_stuck_batch`: a batch stays `running` for ever when the job of its next
  item is `manual_required`. `EnqueueAutoJob` changes nothing, and the caller
  handles only `completed` and created jobs.
* `label_race`: two requests for one quote under two keys both find that it has
  no choice; each inserts its own with `ON CONFLICT DO NOTHING` and goes on
  whatever the insert did. Two labels are bought for the quote, and its choice
  keeps the channel of the first, where `README.md` says that it "always stores
  the final operator-selected channel" and the check before the insert means to
  refuse the second. `PurchaseLeavesChoice`, which is proved, says that there is
  no other way to a purchase without a choice of its own, and that a run always
  has one.
* `order_resume`: at the paging limit the progress of the last page is stored
  in one transaction and the continuation window in another. A run that stops
  between the two leaves a window that the rerun asks for its page past the
  limit, gets nothing and closes as a success; the orders past the limit are
  never fetched and the job is a success. `NothingElseLost`, which is proved,
  says that no order is lost in any other way than this or by a first or last
  second of a window that reaches the limit.

Other behaviours one might not expect, which the modules contain and the
properties are worded around:

* The recovery goroutine runs beside the listener (`EarlyRequests`) and may
  requeue a job that a worker has claimed for a fresh request; the order is then
  run twice, and the second run writes `running` over `completed`.
* Between the save of a failed job and the close of its item, recovery takes
  the same item again; the worker then closes it and starts the next: two orders
  of a batch at once.
* A carrier that does not serve the address is excluded under the name its
  channel code gives. When the code names none and the carrier is known by its
  express id or short name, the exclusion is stored under the code itself and
  never found again: the same carrier may be bought again, although
  `docs/go-fulfillment.md:89-92` says that it is excluded.
  `RejectedNotBoughtAgain`, which is proved, is about the channels whose code
  names their carrier, and covers every channel of that carrier.
* Two threads that replace the parcel of an order at the same time both find
  nothing to cancel and both create one. `OneActiveParcel`, which is proved,
  says that this is the only way to two living parcels.
* A watcher whose lookup of a known parcel fails judges the package by its
  platform order, which a DPS package does not have, and marks it as a leak.
* A batch goes on after a failed order (`FinishBulkItem`; `README.md` says that
  it stops, `docs/go-fulfillment.md` that it goes on). A refused print leaves
  its ledger row pending (`PendingPurchaseInProgress` is about purchases only).
  A thread that had started before a package was resolved may still create a
  parcel, although the row stays (`ResolvedStays`).
* `next_page` of a window counts pages of the size of the run that stored it: a
  rerun with a larger `--page-size` skips orders. After a `--reset` beside
  another run, a continuation of that run may take the index of a window of the
  interval before it is created, which then never is. The theorems take `OneSize`
  and `ResetAlone` as assumptions for these reasons.
* Two runs of one sync key take each other's windows up again, for ever if each
  is unlucky, and a job may be a success while a continuation of another run is
  still pending.
* An item that changes while a run pages may push another one into a page that
  was read; the cursor then passes it. The overlap does not help when later
  items move the cursor further than that.
* Products are asked for by creation time from the time a row was last written,
  and the kinds are done one after the other: a product created during a script
  that runs longer than the overlap is skipped. The details of returns move the
  cursor past the end of the interval in the same way.
* A first run of the orders beside a server that has already stored some starts
  where the server wrote last, not `--fallback-days` ago.
* A return that SHEIN leaves out of an answer with details keeps an old detail or
  none, and the run succeeds.
* The list of orders of a warehouse SKU without a shipping fee shows for an
  order the sum of fees rounded line by line: 1.00 over three equal lines is
  listed as 0.99. `UnachievedOrdersAgree` bounds the difference by half a cent
  per line.
* A change of a type's mode converts the entries that are committed; a save that
  has read the old mode stores the old form afterwards (`raced`).
* A partly estimable order is counted both as a sale and as excluded
  (`OrdersCountedOnce` says exactly when).

## 4. Proofs

Every safety invariant and every property of steps that a run checks is also
proved, for all values of the constants that satisfy these named assumptions:

* `AutoFulfillment`: a finite set of orders, disjoint kinds of threads, natural
  bounds, a positive channel;
* `LabelPurchase`: the run is no handler, disjoint kinds of keys and of quotes,
  `None` is none of them, and a channel has a carrier by its code and one by all
  its names, related in no way;
* `WarehouseWatch`: watchers are not callers, finitely many outbound orders;
* `OrderFullSync`: a finite set of orders inside the interval, positive page
  sizes;
* `LatestSync`: a finite set of items, positive page size, natural times;
* `InventoryCosts`: the ids of the tables differ;
* `ProfitReport` and `ReportPages`: an order has at least one line, weights,
  incomes, costs and fees are natural numbers, the shares divide the amounts
  (the export does not round them), a cent is any positive number of the unit,
  finitely many orders, positive page sizes, columns that exist, a trend needs
  no more days than its window has.

The inductive invariants are wider than the properties for the reason given.

* `TypeCorrect`, `PurchaseTypeCorrect`, `WatchTypeCorrect`, and `TypeCorrect` of
  the synchronisation: one step per action. The watch carries along that a
  thread which cancels a parcel holds a real number, the synchronisation that a
  run inside a window has one in its variables.
* `WorkersExclude` and `CompletedOrdersStay` rest on `RunInv`: a job whose order
  a worker runs is `running` (so a second claim fails), an overflow is
  remembered, and until recovery has read the jobs nothing else moves. Without
  the last part a restart could requeue a running job.
* `BatchConsistent` rests on `BatchInv`: sequence numbers are distinct, so the
  first pending item is unique and the order of starts is the order of items.
* `JobsHandled` rests on `HandledInv`: a waiting job has attempts left, so the
  timer that fires requeues it.
* `SucceededItemsDone` rests on `SuccessInv`: a goroutine about to close an item
  as succeeded has seen its job completed or with the operators, and no job
  leaves those states while the queue is exact. `BatchIsHeld` rests on
  `BatchHeld`, where a run that has loaded its finished job found it completed:
  each statement leaves the running item to a goroutine or to a job that is
  under way, and whoever closes it is about to take the next.
* `CalledOnce`, `LedgerImplemented` rest on `LedgerInv`: a thread between its
  reservation and its verdict holds a pending row, no two hold the same row, and
  the calls of a row are counted by where its holder is. `LedgerImplemented`
  shows that each step is a step of `IdempotentOperations` or a stutter.
* `PurchasesInProgress` rests on `PendingHeld`: the holder of a pending purchase
  is known.
* `RejectedNeverBought` rests on `RunInv`: a run that holds a request of its own
  holds one for a channel whose carrier, by all its names, it does not exclude;
  it excludes everything its job has on record, and the job has on record, by
  its code, every channel that was refused. For a code that names the carrier
  the two meet.
* `PurchasesRecorded` rests on `ChoiceInv`: at its call a run's quote is chosen
  for its own key and a handler's for some key of the operators, no step removes
  or replaces a choice, and a choice was made for a request of its quote, whose
  row keeps its content.
* `RejectedChoicesHaveNoLabel` and `OneLivingLabel` rest on `LabelInv`: a choice
  is marked rejected when its label was sold and has died, and what has died
  does not live again; while no sale was lost, a living label is the one in the
  job or that of the run about to write it there, and a run with one does not
  buy.
* `ResolvedRowsStay` needs `ResolvedRow`: a resolved row already has the values
  a second resolution writes.
* `ArchivedShipped` rests on `ArchiveInv`: as long as nothing was shipped, no
  row, no update under construction and no remembered parcel says so, and a
  shipment is never taken back (`EvidenceStays`), so observations may be
  arbitrarily old.
* `ParcelUnique` rests on `ReplaceInv`: while no two threads have replaced the
  parcel at once, a thread that cancels or waits knows the only living parcel,
  and one that prints or creates knows that there is none; a cancellation that
  ends late only removes parcels.
* `ProgressEarned` rests on `ProgressInv`: for every window, and for every run
  with its own old copy of one, the orders of the pages before are stored, and
  so is what the run has left of its page. Rows only become more complete, so
  old copies do no harm - with one page size (`OneSize`).
* `FinishedWindowsComplete` and `OrdersKept` rest on `CoverInv`: every window a
  run has left behind is covered by stored orders, by unfinished windows that
  start later, or by `past`; the windows of the interval are never fewer than
  the plan (`BaseThere`). Lemmas about `Rank` say which orders the pages of a
  window hold and that the last order of a page starts the continuation early
  enough. Both assume `OneSize` and `ResetAlone`.
* `EntriesBelongToTemplates`, `FirstTemplateOnce`, `DeletedRowsStay` rest on
  `TreeInv`: requests are typed and name ids that were given out, an entry held
  for conversion is the business of one `PATCH`, first templates are counted by
  `seeded`.
* `EntriesFollowModes` rests on `ModeInv`: a request that has read a mode still
  knows the right one, or the type is in `raced`.
* `CursorSkips`, `DetailsFollow`, `ProductCursorSkips` rest on `SyncInv`, and
  assume nothing of the length of a run. The list is ordered by change and items
  only leave its part before the end of the interval (`Early`), so a place in it
  is a number of items before it: what has been read (`Read`) is stored, held by
  the run or in `slipped`; what has not is not behind a cursor yet (`Unread`),
  because the changes on the pages before are older. A page that is not full is
  the last one. Before the interval nothing is missing (`Older`), and what
  changed after its end is not behind a cursor unless it is in `slipped`
  (`Late`): a step that stores a time that late adds what it passes. Between runs
  nothing is missing before any cursor the next may take (`Settled`).
* `ReportInvariant`: what is stored is typed, and the file is empty or the export
  of the stored orders with some mapping, which need not have anything in common
  with that of the moment. The properties of the report follow from it by
  arithmetic over the rows of such a file:
  * `SetSums` shows what the folds of `MapThenSumSet` compute (`SumFacts`), and
    that a sum can be split, renamed, grouped and counted, and how far a sum of
    rounded numbers is from the sum. These are lemmas on which the following
    theorems rest. The library's
    induction cannot be used, so each proof takes the set of the subsets for
    which its claim holds and shows, with the induction on cardinality that
    needs no operator (`SubsetInduction`), that the whole set is in it.
  * `AllocationAlwaysComplete` sums the shares of an order under the assumption
    that they divide; `ProfitAlwaysAddsUp`, `OrdersAlwaysCountedOnce` and
    `DeltaAlwaysEstimatedProfit` go through the policies and the cases of
    `apply_pnl_mode`; `SelectionNeverMatters` shows that averages are taken over
    the file and not over the selection.
  * `TablesAlwaysAddUp` groups the rows by the key of each table (`SumGrouped`).
    `UnachievedAlwaysAgree` counts lines by their orders; that a rounded amount
    is within half a cent (`RoundIsNear`) gives the bound on an order's fee.
  * `PagesAlwaysHoldOrders` shows that every finite set of orders has an
    ordering by `Before`, and that the pages flattened are that sequence again.
  * `PeriodNeverMatters` compares two recursions over the days from different
    starts; that they agree on a day is shown for the first day on which they
    would not. A current rate is computed from the lines of its window alone.

Conditions in the statements of the theorems, and with them what the theorems
leave open: `OneWorkerPerOrder`, `CompletedStaysCompleted` and
`SuccessMeansDone` are about requests that wait for recovery and a channel that
has never overflowed; `JobIsHandled`, `SuccessMeansDone` and `BatchInHand` about
runs without failed statements, the first once recovery has read the jobs and
the last once it has ended; `PendingPurchaseInProgress` about purchases without
a restart or a failed statement; `NoSecondLabel` about sales the job learned of;
`OneActiveParcel` about orders whose parcel no two threads replaced at once;
`EntryFollowsMode` about types no conversion raced with. In each case the module
contains the behaviour that is left out, and the list above or `hazards` of
`PROJECT.json` says what comes of it.

Only model-checked: liveness (`BatchFinishes`, `JobSettles`,
`ShippedLeavesWatch`, `ParcelIsRecorded`, `LoneRunEnds`), which rests on
fairness and `ENABLED` and is beyond the prover.

## 5. Plan

Done: the purchase of labels, the automatic runs and the warehouse watch; the
two synchronisations, the inventory and the report. Left, in this order:

1. `OrderQueues`: snapshots, verdicts and queues; every open order in some view
   (`fulfillment_queue.go:1036`), stale verdicts without effect
   (`fulfillment_queue.go:691`).
2. Algorithms as operators against a reference: windows of the server's
   synchronisation (`auto_fulfillment.go:413`), choice of a quote under the
   policies, `decideSHEINOMSPlatformOrder` with several platform orders.
3. The life of a task row before its label: creation by `persistFulfillmentState`
   and its removal with a refused carrier, composed with `LabelPurchase`.
4. The migration command as a small protocol of steps.
5. Proofs of the modules above, and an abstract specification of a window of
   `OrderFullSync` (read, continued or failed) that the runs implement.

## 6. Not modelled

* Order queues, the server's synchronisation, carrier policies, the migration
  command: see the plan. They enter the modules as free choices (readiness of an
  order, permitted carriers).
* Warehouse management, accounts, sessions, registry, router, command line: one
  request or process writes a row at a time and no step depends on another.
* HTTP clients of SHEIN and XLWMS, the bridge that reads XLWMS's database: they
  keep no state; their outcomes are the nondeterminism of their callers.
* `sync_orders` and the backfills: the page loop of `OrderFullSync` without
  progress, and single statements.
* Logistics, returns and price pages: further aggregations of the same rows for
  display. Web pages and deployment: any request, repeated or from two tabs, is
  already an input of the handlers.
