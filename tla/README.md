# TLA+ models of the 罗盘 dashboard

This directory holds TLA+ modules that model the dashboard's collection, its
imports and what it keeps of them, the TLC configurations that check them, and
proofs that TLAPS checks. Paths are those of the repository.

- `tlc -config MCQueue.cfg MCCollectionQueue` checks one instance.
- `tlapm OrderLedger_proofs.tla` checks the proofs of a module.
- `PROJECT.json` lists components, runs, hazards, mutants and theorems, and for
  every definition of a module the lines of source it stands for.

## 1. The system

Two containers share the directory `output/`, and nothing else: there is no
message between them, they coordinate through files.

- **compass-dashboard** runs the rust API (`apps/api-rs`): accounts, uploads,
  dashboards, and `POST /collection/run`.
- **compass-collector** runs, under supervisord, the collector service
  (`apps/collector_py/service.py`, restarted when it exits) and `cron`, with a
  Chromium that every collection uses.

### Inventory

| Component | State | Operations | Interacts through | What makes it correct |
| --- | --- | --- | --- | --- |
| Collection lock, `collector_py/scheduler.py` | `collection/job.lock` | take, judge stale, clear, release | cron, service, API's snapshot | one collection at a time; a dead owner blocks nobody |
| Collection queue, `api-rs/src/collection.rs` and `collector_py/service.py` | `request.json`, `request.running.json`, `request.json.tmp`, flock of `request.enqueue.lock` | enqueue; recover, take, wait, spawn, poll, finish | renames of files | one request at a time, none lost, none collected without cause |
| Cron, supervisord, retry, `docker/` | – | start workers, restart the service, retry failed modules at 15:37 | `status.json`, processes | restarts lose nothing; a retry only of what failed |
| Task status, `crates/jobs`, `collector_py/status.py` | `collection/status.json` | merge a patch, read a snapshot | API, service, workers | no field of a writer is lost |
| Order imports, `crates/orders` | `import_ledger.json`, `orders_daily.json`, `previews/`, `import_dedupe_secret.txt`, flock of `.import.lock` | preview, commit, undo | API, then SQLite | every order counted once; undo takes what its batch brought |
| Python order store, `apps/orders_py` | the same ledger, previews and flock | preview, commit, undo; command line import | API, files | every order counted once with its own amount |
| SQLite storage, `crates/storage` | tables of records, batches, key/value | `sync_all` after a write, at start, after a collection | files to rows | rows tell what the files hold |
| Accounts, `api-rs/src/auth.rs`, `accounts.rs` | users, sessions, failed logins | log in and out, change password, add and remove accounts | SQLite | an admin always remains; the failure limit holds |
| Inventory sync, `inventory_py/inventory_sync.py` | snapshot, history, state, `sync.lock` | sync, record failure | cron at 3:00, hourly, catch-up in the API's container | the last good snapshot survives; history is written once |
| Settlement, JD imports | CSV files and shop map; JD ledger | upload; preview, commit | API | no upload is lost |
| Operations, channels, inventory dashboard | – (computed from files) | merge, aggregate | API, storage | pure functions of the files |
| Compass collector, `collector_py/compass.py`, `channel.py`, `douyin.py` | browser, captured responses | log in, choose a day, capture, save | Chromium, `status.json` | the captured data is of the shop and day it is filed under |
| Order scraping, `scraper_py/order_scheduler_run.py`, `douyin_orders.py`, `tmall_msd_orders.py` | `order_job.lock`, `order_job_status.json`, the orders read so far | take the lock, log in, read a list page by page, read details, save | Chromium, timers | one job at a time; a saved list is complete and of the day it states |
| Web interface, worker command line, runtime helpers, scripts, `legacy/` | – | – | – | – |

### What is hard

- **Files as locks.** `open("x")`, the write of the payload, the judgement
  "stale" and the unlink are four steps of processes that do not wait for each
  other.
- **Files as a queue.** The API looks at two files one after the other while the
  service renames one into the other.
- **Kills.** Either container is stopped at any step; the files stay, a flock is
  freed, a lock file is not, and a worker outlives the service that started it.
- **Stale reads.** A preview is computed from a ledger that others change before
  it is committed; a secret is read, found missing and made up by two uploads.
- **Two files, no transaction.** The ledger is written and its snapshot is not;
  a request is published and its status is not. The SQLite copy is written
  table after table, from files that change meanwhile.
- **A page that answers late.** The collectors read what a foreign web page
  shows: an answer comes after the wait for it is over, the list changes between
  two pages, and midnight passes between the choice of a day and its use.
- **What is told of a run.** A run over shops and modules succeeds in part; the
  retry six hours later reads from one file, written by several, what to repeat.

`PROJECT.json` lists each of these under `hazards`, at its line, with the
properties that watch it.

## 2. The modules

A module models one part; its state is the files and the positions of the
processes that touch them, and each action is one step between two points at
which another process, a callback or a kill can come in. History variables
(`overlapped`, `hasty`, `accident`, …) are said to be so where they are declared;
no step of the program depends on one.

### JobLock

The lock file and everybody who touches it. One worker is one
`scheduler.py` process (with the rust wrapper that waits for it).

| Model | Code |
| --- | --- |
| `lockFile`: who created the file at `job.lock` | the path; the payload is there once its creator has left `"write"` |
| `TryCreate`, `WritePayload` | `acquire_lock`: `open("x")`, then `write` |
| `ProbeBusy`, `ProbeStale`, `UnlinkStale` | `stale_lock()`, then `unlink`, then the second round |
| `Collect`, `Release` | the run, and the `finally` that unlinks whatever is there |
| `ServiceSeesLock`, `ServiceSeesActive`, `ServiceSeesStale`, `ServiceReaps` | `lock_active()` of the service, read by read |
| `Die`, `ServiceForgets` | SIGKILL, out of memory, container stop |

`misread` and `wronged` are history variables: that somebody judged a living
owner's lock stale, and that somebody removed it.

### CollectionQueue, SingleSlot

`CollectionQueue` extends `JobLock` with POSTs, the service, cron, and crashes
of both sides. `SnapshotLock … SnapshotRunning` are the first, unguarded look of
`enqueue_collection`; `TakeGuard … PatchStatus` the part under the flock, one
action per file that is looked at; `CleanTemp` runs after the flock was dropped,
as in the code. The service's loop is `Boot`, `RecoverNothing`, `RecoverLook`,
`Requeue`, `RenameBack`, `Take`, `AwaitLock`, `Spawn`, `Poll`, `Finish`;
`RequestRaises` is an exception in `run_request`, which leaves the child alone.

`SingleSlot` is what the queue promises: a request enters an empty slot, is
taken, may be put back, and is settled once. `ImplementsSlot` maps the files to
the slot (`PhaseOf`).

### DailyStatus

`collection/status.json` over the days: the daily run at 9:00, a manual run, and
the retry at 15:37. Every `write_status` is a process that reads the file
(`ReadAndMerge`) and renames its merge over it (`Rename`); two of them overlap.
`RetryList` is what `cron_scrape_retry.sh` selects, `MergeModules` the map that
`scheduler.main` writes back. What is collected is a choice of outcomes here and
the subject of the next three modules.

### ResponseCapture, PanelCapture, CompassRun

| Model | Code |
| --- | --- |
| `ResponseCapture`: `HandleResponse`, `BeginCapture`, `KeepBody`, `DropBody` | `handle_response` creates a task; `_capture` up to the await of the body, and after it |
| `StartShop`, `FinishShop`, `ReturnItems` | `start_shop`, `finish_shop` before and after its `gather` |
| `PanelCapture` extends it: `OpenPanel`, `ClickNearDay`, `FinishPanel`, `CheckPanel` | `collect_panel` of `douyin.py`: goto, click on 近1天, finish, and the comparison of ranges |
| `KeepPanelBody` | `_capture` of `douyin.py`, which also notes the range of a request with date_type 20 |
| `CompassRun`: `Waiting` … `StartShop`, `SwitchShop`, `ShopFails` | `scheduler.main`, `compass.run`: random delay, login, each shop |
| `ChooseDay`, `Arrive`, `ConfirmDay` | `choose_data_day` and the wait for a `core_index_v3` of the day |
| `Operations`, `LoadChannel`, `Channel`, `Douyin` | the modules of a shop, in this order, each with its errors |
| `SaveOperations`, `SaveChannel`, `SaveDouyin`, `Report` | `save_run`, and the final `write_status`, which may fail |

An event loop makes a coroutine atomic between two awaits, so a step is what lies
between two of them. The page is the environment: a request's answer arrives at
any later time, of any range, or never. `Midnight` may come at any step.

### OrderJob, OrderCrawl, MsdOrders

`OrderJob` is the lock and the status of `order_scheduler_run.py`: `Look` and
`JudgeLock` read, `CreateLock` empties the file, `FillLock` fills it, `Release`
unlinks whatever is there; the lock records who has it open. `OrderCrawl` is the
douyin order list: `asked` is what the clicks have asked for, `shown` what the
table shows, `Render` closes the gap some time later; `SwitchShop` may leave the
shop as it was, which the code only warns of, `ReadPage`, `ClickNext`, to which
the pager may not react, `AwaitPage`, which may time out, `Enough` and
`SaveShop`, under the day of `--date` (`dataDate`), are `collect_all_pages` and
its callers. `MsdOrders` is the tmall list: the login by password or by a
person (`Look`, `TryAutoLogin`, `Submitted`, `AwaitLogin`), the pages
(`FetchPage`, `NewLinks`, `StopPaging`), where the site may answer a page beyond
its last by the last (`Answering`), and the details, some at a time
(`EnterDetail`, `DetailStep`). `NewOrder` and `RemoveOrder` change the list
meanwhile; the history `since` counts them between the first and the last page.
The order of the links of one page is not modelled: nothing depends on it.

### InventorySync, InventoryMerge, InventoryDays

`InventorySync` is runs that meet, each in its `Container`: the lock with its
token (`CreateLock`, `ExamineLock`, `JudgeLock`, `UnlinkStale`, `RecreateLock`,
`ReleaseLock`), then `FetchAndValidate`, `ReadHistory`, `WriteHistory`,
`SaveSnapshot`, `ReadState`, `WriteState`, and `RecordFailure` outside of the
lock. `PidRunning` is the set of what `os.kill(pid, 0)` may say: the two
containers share the files and not the process ids, so it finds a live process
of the run's own container, and says anything of the pid of a dead one or of the
other container's. Every write may fail: that of the lock's payload leaves a lock
without a token, the others end in `Raise` and `record_failure`, whose own write
may fail too. `InventoryMerge` is what one run fetches: pages of the rows that
changed in a window (`FetchFirst`, `FetchNext`), which change while they are
read, `MergeInventory` and `validate_snapshot` (`Plausible`). `InventoryDays` is
the calendar of two containers: cron's runs in the collector's (`AtThree`,
`Hourly`, `ToggleCollector`), the catch-up when the API's starts (`BootApi`,
`StopApi`), `Configure` for the `wdt.env` without which both are skipped, and
which days `historical_turnover` takes (`TurnoverReady`).

### OrderLedger, ImportBook, OrderStore

In `OrderLedger` a preview call reads the ledger under the flock
(`PreviewLoad`), then digests its orders one by one without it (`Digest`, or
`NoSecret`, `TruncateSecret`, `WriteSecret` when there is no secret), and is
stored. A commit compares the preview with the ledger again under the flock
(`NewKeys`), writes the ledger (`Commit`), then the snapshot (`WriteSnapshot`),
then removes the preview (`RemovePreview`, which may silently fail). An undo is
`Delete` and `WriteSnapshot`. `SnapshotFails` and `Crash` may come between any
two of them. A key is the pair of the secret and the order number: equal pairs
are equal digests. `ImportBook` is what imports promise: each order under at most
one batch, an import adds only absent orders, an undo takes out one batch's.

`OrderStore` is the python store, with the data that `OrderLedger` leaves out:
rows of workbooks are grouped into orders (`ParseOrders`), files and orders are
compared with a ledger that may have changed by the commit (`AddFile`,
`NewOrders`), orders become daily records (`DailyRecords`). A digest is the pair
of the secret that it found and the number (`Digested`); `FindSecret`, `FindNone`,
`EmptySecret` and `FillSecret` are `get_dedupe_secret`, which looks and writes
without the flock, and `Lookups` says which secrets the digests of one upload can
have found. The holder of the flock writes the ledger (`WriteLedger`), opens, fills
and renames `orders_daily.json.tmp` (`OpenStore`, `Fill`, `Replace`) and removes
the preview; it may stop at each of these (`StopBetween`, `StopWriting`). The
command line importer goes the same way with the same `.tmp` and without the flock
(`OpenDirect`); a writer keeps the file it has open when the other renames it
(`Moved`).

### StorageSync, Accounts, SettlementUpload, JdImport

`StorageSync` is `sync_all`: a source is read (`ReadOperations`,
`ReadChannels`, `ReadImports`) and written later (`WriteOperations`,
`WriteChannels`, `WriteDashboard`, `WriteBatches`, `WriteImports`), each table in a
transaction of its own and each entry of `app_kv` after it; handlers and workers
do it at once, and `Fail` may end one. `Accounts` is
`auth.rs` and `accounts.rs`, one action per SQL statement: a login
(`CheckPassword`, `CreateSession`), a removal (`Authorize`, `ReadRole`,
`CountAdmins`, `DeleteUser`), `StartUp` with the import of legacy accounts, if
there are any, and the first administrator, if there is no account.
`SettlementUpload` is `save_settlement_upload` (`ReadShops`, `Scan`, `Store`,
which creates the file under its name, `StoreBytes`, which fills it, `Note`), and
`Cut` may end it in between; a file is its bytes, shop and original name, of which
the code makes its name. `JdImport` is `preview_upload` and `commit_preview` of `crates/jd`
(`ReadLedger`, `Truncate`, `Fill`, `RemovePreview`), whose `fs::write` can stop
half-way.

### How the modules go together

`CollectionQueue` and `PanelCapture` extend `JobLock` and `ResponseCapture`: the
queue's workers take the lock, and a panel is read through the listener. The
other parts meet in a file or in an outcome, and the part that only reads or
produces it is a choice in the other: a run's outcome (`CompassRun`) is a choice
of `DailyStatus`, a sync (`InventorySync`) is one step of `InventoryDays`, a
batch (`OrderLedger`) is one step of `StorageSync`.

Parts that share no variable are composed by four modules, which hold the
instances and state the properties about them:

| Module | Parts |
| --- | --- |
| `Collector` | `ResponseCapture` with and without `PanelCapture`, `CompassRun`, `DailyStatus` |
| `OrderScraping` | `OrderJob`, `OrderCrawl`, `MsdOrders` |
| `Inventory` | `InventorySync`, `InventoryMerge`, `InventoryDays` |
| `Api` | `OrderLedger`, `StorageSync`, `Accounts`, `OrderStore`, `SettlementUpload`, `JdImport` |

Their variable `part` is chosen in the initial state and says which of the parts
moves while the others stay in their initial states, so that a run does not
multiply states that have nothing to do with each other. An invariant of a part
holds in the composition exactly when it holds of the part alone; `PartsGoOnAlone`
of the proof modules says so.

The MC modules only give constants their values; the header of one lists its
instances. The `_proofs` modules hold the theorems about the module they are
named after. `SumLemmas` holds lemmas about sums over finite sets.

## 3. What is checked

| Run | Instance | What it shows |
| --- | --- | --- |
| `job_lock` | 3 fair workers, 2 may be killed | two workers collect together only after a living owner's file was removed, and that takes an early reader or a killed owner; a lock file outlives only the killed; every worker that starts leaves `acquire_lock` and exits |
| `job_lock_exclusive` | 3 workers, nobody killed | **violated**: exclusion itself |
| `queue` | 2 POSTs, 3 workers of the service, one crash, one exception | one request at a time and nothing overwritten until a crash, no published request forgotten, no refused one collected, settled means over, one more collection per crash |
| `queue_restart` | 1 POST, cron, a killed worker, one crash, fairness | the accepted request is settled in the end; refinement of `SingleSlot` |
| `queue_overwrite` | 2 POSTs, one crash | **violated**: a re-queued request is never overwritten |
| `order_ledger_secret` | 2 previews of one workbook, two secrets | **violated**: no order twice |
| `order_ledger_skipped` | 3 previews of 2 workbooks sharing an order, no failure | **violated**: a file shown as imported is imported |
| `collector` | 8 parts: the listener with 2 shops, with panels, compass runs of two shops, of all modules, of a retry's modules, for a past day, the status over two days, with a manual run | a panel is of one day and none is forgotten; limits and how far they are exceeded; shops do not mix; every shop of every module is accounted for; what is filed under a day was confirmed for it; the status tells what the last run reported and the retry repeats what failed |
| `panel_default_range` | the instance of `collector` | **violated**: a stored panel holds only responses of the day asked for |
| `order_scraping` | 3 jobs; 2 douyin shops with 6 orders, `--date` of another day or none; 3 tmall orders on pages of one, two more come, one leaves, two pages at most or no limit | jobs meet only by one of three accidents; a lock stays only of a killed job; a list is complete unless the switch had no effect, it was read too early or it changed too much; every crawl ends unless the pager or the site keeps it in a loop without a bound, and asks for a login in time |
| `inventory` | a daily run whose writes may fail and an hourly one in the collector's container, a catch-up in the API's that may crash; 3 rows over 4 points in time; 3 days of two containers | runs meet only after a crash, a lock without a token or a judgement across the containers; a day's history is written once; state and snapshot agree; a quiet sync tells the stock; a gap of the history has a cause |
| `api` | 3 previews of 2 workbooks sharing an order, 3 batches, one failure, the secret there or made once; 2 requests and a worker; 3 accounts and 3 legacy files; 3 workbooks in 2 tabs; 3 settlement uploads; 3 JD commits | no order twice, batches own their orders, the snapshot tells the ledger, refinement of `ImportBook`; one undisturbed sync heals the copy; a session has an account; an administrator stays unless removals race; orders, settlement files and JD days are counted once |

### What the violated properties show

1. **`Exclusive`.** `open("x")` makes an empty file. A process that reads it
   before the payload is written sees invalid JSON, which `stale_lock` and
   `lock_active` both take for stale, and unlinks a living lock
   (`scheduler.py:61`, `service.py:120`). Two collections then share one browser
   profile. `ExclusiveWithoutAccident` shows that this window and a killed owner
   are the only ways there, and it is proved for any number of workers.
2. **`RequeuedIsKept`.** The API looks at `request.json`, then at
   `request.running.json`. That direction is right while requests move from the
   first to the second (`SingleRequest`, proved). `recover_request` moves one
   back between the two looks, and the POST publishes over it
   (`collection.rs:250`, `service.py:113`).
3. **`NoDuplicateOrder`.** Two first uploads each make a secret
   (`crates/orders/src/lib.rs:334`), so the same order gets two fingerprints and
   is counted twice. As long as there was one secret only, no order is:
   `NoDuplicateOrderWithSecret`, proved.
4. **`SkippedFileIsImported`.** A batch lists all files of its upload, the
   skipped ones too; after undoing the batch which had brought their orders they
   still count as imported and cannot be imported again
   (`crates/orders/src/lib.rs:309`).
5. **`OnlyNearDayStored`.** The docstring of `douyin.py` (lines 3-5) promises that
   "a delayed default range cannot silently enter storage". A request with another
   date_type states no range for the code (lines 60-62, 159-161), so its answer is
   kept and stored beside the confirmed one. `PanelOfOneDay`, proved, is about the
   ranges that are stated.

### What the code does not do

The other modules state what the code guarantees, and a property names the case
it has to except. These are the exceptions, found by checking the property
without them:

- Two order jobs collect at once when both look before either writes, when one
  finds the lock emptied and not yet filled, and when one outlasts the four hours
  (`order_scheduler_run.py:50`; `ExclusiveWithoutAccident` of `OrderJob`).
- A lock of the inventory sync is unlinked by whoever judged an older one
  (`inventory_sync.py:116`): when two runs take one lock for stale, the second may
  remove the first's new one, and two syncs meet. A lock is stale after a kill, when
  its payload could not be written, and without either when its run has worked for
  three hours and a run of the other container looks for the pid in its own process
  table (`inventory_sync.py:88-95`, `:115`; `MeetOnlyAfterAccident`).
- A retry reads modules that a run which raised did not write, and a state that a
  manual run left: it may repeat too little or too much (`scheduler.py:156`,
  `cron_scrape_retry.sh:26-31`; `RetryFitsReport` is about a daily run that
  reported).
- A shop without a captured channel response counts neither as a success nor as
  an error, and a douyin shop with one panel of three counts as a success
  (`compass.py:429-447`), so a run may end as success although something is
  missing (`RunAccounted` counts what each shop did).
- The file of a douyin shop states `args.date` (`douyin_orders.py:675`), which the
  help of `--date` says is "用于输出目录和文件名", while 昨日 is clicked always: the
  orders in it are yesterday's (`DayAsStated` excepts days that `--date` named).
- A switch of the shop without effect is only warned of
  (`douyin_orders.py:325-328`), and the orders of the shop before are saved under
  the name of the one that was wanted (`CompleteUnlessHasty` excepts it).
- The loop over the pages (`douyin_orders.py:462-488`) has no bound: when the pager
  is there but reacts to no click and no total is known, it reads one page for ever.
  The tmall one (`tmall_msd_orders.py:901-935`) does so when the site answers every
  page beyond its last by the last, with a total that is not reached, and no
  `--max-pages` is given (`CrawlsEnd` excepts both).
- The tmall paging ends when as many orders were met as the first page counted
  (`tmall_msd_orders.py:923`). When more than a page of orders comes meanwhile,
  new ones count in place of the last old ones, which are not fetched; when an
  order leaves, one moves to a page that was read already (`ListedOrdersSaved`
  excepts both).
- `record_failure` merges a state it read before another run's success
  (`inventory_sync.py:472`; `StateTellsSnapshot` excepts overlapping writers).
  When the write of the state fails after that of the snapshot, it merges the failure
  into the state of the snapshot before (`:502`, `:517`); the property then only says
  that a failure stands in it.
- The daily run is the collector's and the catch-up the API's (`start.sh:24-26`). A
  collector that was off at 3:00 and comes back makes up nothing, unless the API's
  container starts too; and then a snapshot of the same day, which any refresh has
  made, lets the catch-up think that the day is done (`inventory_sync_catchup.sh:35`).
  Its comment says "so a container that was offline at cron time catches up
  immediately when it starts again" (lines 12-14). Without a readable `wdt.env` both
  are skipped (lines 7-10, `cron_inventory_sync.sh:7-10`). `HistoryAccounted` names
  these causes. The turnover
  over the first thirty samples sums the seven days before them too
  (`inventory_data.py:74-92`).
- Rows without an order number are told apart by their index only, so two
  purchases at the same place of two files pass for one (`import_external_orders.py:95`,
  `crates/orders/src/lib.rs:185`; `StoreCountsOnce` is about purchases with a number).
- The python store makes the secret of its digests like the rust one, outside of
  the lock (`external_order_store.py:81-94`): the first previews of two tabs make two,
  and an order is counted twice, though the comment at line 69 says that the lock
  serializes writes "so two browser tabs cannot create duplicate imports"
  (`AmountCountedOnce` says it as long as there was one secret). A commit that stops
  between ledger and snapshot leaves the old snapshot, and the importer of the
  command line, which shares its `.tmp` without the lock, may leave a torn one
  (`SnapshotTellsLedger` of `OrderStore`).
- `fs::write` of a settlement file that stops half-way leaves a truncated file that
  the dashboard adds up (`crates/settlement/src/lib.rs:197`). The same upload mends
  it; the same bytes under another shop or name are stored beside it and are counted
  twice as far as it goes (`BytesOnceUnlessOverlapped` is about whole files).
- `sync_operations` and `sync_order_imports` return on empty input before the
  DELETE (`crates/storage/src/lib.rs:227`, `:282`), and an older reading may be
  written last (`:200`); `HealedBySync` says what one undisturbed sync
  repairs, and excepts the operations when there are none left.
- Two administrators that remove each other both count two
  (`accounts.rs:162`; `AdminUnlessRaced`). A legacy file of viewers only leaves a
  dashboard without one, because `ensure_initial_admin` (`auth.rs:261`) counts
  accounts of any role.
- Two settlement uploads at a time lose a shop (`crates/settlement/src/lib.rs:170`),
  two JD commits lose one or garble the ledger (`crates/jd/src/lib.rs:278`).

### Bounds

- Three workers are enough for the longest chain the lock allows: an owner, one
  that removes its file, and one that enters while the first one's `finally`
  removes the second's file. Two of them mortal allows a killed owner and a
  killed clearer. The same holds of three order jobs and three syncs: two of the
  collector's container and one of the API's, so that a lock is judged by its own
  container and by the other. `Failures` and `Crashes` bound whose writes fail and
  who crashes, the daily run and the catch-up, which do the same work.
- Two POSTs race each other, and each of them races the service. `MaxCrashes`
  and `MaxFaults` bound how often the service is killed or an exception is
  raised; one of each suffices to reach the states after it, and the
  theorems do not depend on the value. Cron is in `queue_restart`, for one POST.
- The workbooks overlap in one order, so duplicates occur inside a call, between
  calls and after an undo. `MaxBatches = 3` allows import, undo, import again and
  a further one; `MaxFailures = 1` a failed snapshot or a crash. `MaxSecrets` bounds the secrets
  that are made up, with the one that was there.
- Five responses: two of them answer one request twice over, one is too large,
  and not all fit the total, so every limit is reached and the number is
  exceeded. One midnight may pass anywhere. Two shops make the second one follow
  a success, a failure and a switch; all modules together are checked for one
  shop, with a status write that fails.
- Two days of the status let a daily run read what another day's run left; the
  manual run meets one day's daily run and retry.
- The order lists have three pages of two or two of three, so the page size may or
  may not take effect; one order is garbled. Tmall pages of one with two orders
  that come and one that leaves move rows across a page in both directions, and
  more than a page of orders can come. `Dates` are the days that `--date` may name,
  one that is not yesterday; `Limits` the values of `--max-pages`, none and two. Past
  `Beyond`, a page that no list reaches, the number of the page stays: all answers
  are alike there, so an endless paging is a loop of the model.
- Three rows on pages of one and a window of one point in four make a gap, and
  a quiet sync after a moved page. The syncs meet at two points in time of one day
  (`Slots`, `MaxTime`): one that starts later has a newer snapshot of the same day.
  Three days (`MaxDay`) hold a turnover of two and a gap.
- The API's parts have two or three requests each: two that race and one that
  follows. The python store is checked with two secrets at most and nobody at the
  command line, and with the secret there and the importer beside it (`Bounds`): they
  touch different files.
- The largest runs are `inventory` with 3.1, `order_scraping` with 1.4 and `api` with
  0.9 million states.
- Symmetry is used in `queue` only, an invariant run, on POSTs and on workers that
  nobody kills.

Deadlock is checked for the queue, whose service never stops. Everything else
comes to its end, so it is not checked there.

### Fairness

`LockFairness` and `Fairness` are weak fairness of what runs by itself: a
worker process that is neither dead nor exited takes its next step (a browser
run is killed after three hours at the latest), the service loops and is
restarted by supervisord (`autorestart=true`), an accepted POST is served to its
end. `ScrapingSpec` is weakly fair to the crawl that runs, because each of its
waits has a timeout; of the page and the site only what `CrawlsEnd` excepts: that not
every click is ignored, and not every page beyond the last answered by the last. Nothing is assumed of cron,
of people who POST or log in, of crashes, nor of a POST's first step. No strong
fairness is needed: the service looks at the lock again and again, and workers
that hold it exit.

## 4. What is proved

All for every value of the constants, from the named assumptions of the modules.
Type invariants are proved and not listed in a run.

**JobLock.** `LockTypeCorrect`; `OrphansAreDead`: without a running worker the
file is a killed one's; `ExclusionBroken`: exclusion breaks only after a
living owner's file was removed, from the invariant that, unless somebody was
wronged, every worker inside is the one the file names;
`ExclusionWithoutAccident` strengthens it: with nobody dead and nothing misread
nobody is about to unlink a file in force.

**CollectionQueue.** `QueueRespectsLock`: every behaviour of the queue is one of
the lock protocol. `TypeCorrect` needs to know where `child` and `running` are
set, `QueueTypes`. `PublishedRequestsAreKept` and
`RefusedRequestsAreNeverCollected` follow from the lineage of a request: which
files and workers may name a client, given how far its POST has come.
`QueueIsOneDeep` and `NothingIsOverwritten` hold until the first crash: their
invariant says what a POST that has passed a look may rely on, because
requests only move in the direction in which it looks, and only the holder of
the flock publishes. `DisposedIsOver` and `ManualRunsExclude` follow from the
one worker that the service knows while it is neither killed nor disturbed.
`RerunsArePaidByCrashes` counts: a request has had at most one more worker than
there were crashes, and at most as many while it may still be handed to another.
`QueueIsASlot` shows the refinement until the service is killed: publishing,
taking and finishing move one request by one phase each, nothing else does.

**OrderLedger.** The inductive invariant has five parts.
`LedgerTypes`: types, finite previews, and batch numbers no greater than the
latest, so that a new batch's number is fresh; it gives `TypeCorrect`.
`NoDuplicateKey` is inductive with it: a commit's keys are new because it
compares under the flock (`NoKeyTwice`). `SecretsMinted`: secrets are numbered
as they are made, and every key is made under one that there was, so under one
secret keys stand for orders (`NoOrderTwice`).
`SnapshotIsCurrent`: the ledger does not change between its write and the
snapshot's (`SnapshotTells`). `BatchesOwnTheirOrders` is inductive with the
numbering: the cardinality of a new batch's orders is that of its keys, by a
bijection (`BatchesOwn`). With `NoEmptyBatch` they give `LedgerIsABook`: as
long as there was one secret, every behaviour of the ledger is one of
`ImportBook`.

**Inventory.** Of the runs that meet: `SyncTypeCorrect`;
`LockExcludesUntilAccident`: while nobody was killed or misled, the run past the lock
is the one whose token is in it, and a lock that is judged old is the one whose
process was read, which is of the judge's own container and found alive, or over, so
nobody comes to unlink one; `HistoryIsWrittenOnce`: the run that
found no history for its day still is the only one when it writes it;
`StateTells`: what is merged into the state is the state that is there, and a write
that failed is told of by whoever records a failure next.
`SnapshotTells` is about what one run fetches. Its invariant says that every row
fetched is the source's present one or changed after the window's end, and that
while the source is quiet, the rows on the pages before the next have been
fetched (`PagesFetched`); a listed row has a position less than the list's
length, so the number of pages read reaches it (`PageExists`), by the arithmetic
of the page count. `HistoryIsAccounted` relates the present day's part to what
has run on it and to the starts of the API's container (`DayTells`).

**Api.** `StorageTypeCorrect`; `SyncHeals`: a sync that has met nobody holds what
the files say and has copied what it is done with, and after it none is under
way that could still write. `AccountsTypeCorrect`; `SessionsHaveAccounts`;
`AdminStaysUnlessRaced`: unless two removals raced, one administrator is not
about to be deleted, and a start makes one when there is no account. `UploadsAreStored`:
while no uploads have overlapped, the one that is under way has read the present shops,
nobody else has its bytes whole, and a truncated file is its own or was cut off
(`OneUpload`). `CommitsAreTold`: a merge has a day of one kind once when the
ledger it read has (`MergeCountsOnce`), and the commit that writes alone is about
to write what the commits so far and its own say (`OneCommit`).
`OrdersAreCounted` is about the python order store. What the loop over the files
of an upload has got so far adds up, file by file, and every number of a file it
has seen is known or among its orders (`LoopFits`), so that a file that comes
twice adds nothing; a commit only moves orders from "added" to "duplicates"
(`BatchAddsUp`); a key is in the ledger once because a commit compares under
the flock (`LedgerFits`), and with one secret a number is; whoever holds the flock
has not changed the ledger since it was written, so the file that it renames without
the importer near is of this ledger; and the daily records split the orders by day,
shop and marketplace, so their counts sum to all of them (`RecordsCount`). Assumed of the
workbooks (`StoreAssumption`): rows that state one number state one amount, as the
comment at `import_external_orders.py:102` says ("Amount is order-level in these
exports").

**Collector.** Of the listener: `CaptureTypeCorrect`; `ShopsStayApart`: the tasks
of a shop are over when its list is handed out; `RequestsOnce`: a request is
marked as seen before its body is awaited; `OvershootIsBounded`: items and bodies
in flight count against the same limit; `BudgetIsKept`: the bytes counted are the
sum over the responses kept, by `SumLemmas`; `PanelTypeCorrect`,
`PanelsAreOfOneDay`, `PanelsAreAccounted`. Of a run: `FilesUnderExpectedDay`: the
day that a module's items are of was confirmed after it was expected, at each
place of the run between the choice of a day and the saving, and midnight only
ever makes it one that was yesterday; `RunsAreAccounted`: how many shops each
module has counted at each place of the run, with successes, errors and
items. Of the status: `StatusIsLatest`: while no writers overlap, what is about
to be written is the latest or a report on top of it (`WritesLatest`);
`RetryIsForReport`, an action property, from the same invariant.

**OrderScraping.** Of the job: `JobTypeCorrect`; `JobsExcludeWithoutAccident`:
while none of the three accidents has happened, one job at most has found the
way free, and the lock it makes blocks the others; `LockIsLeftByTheKilled`: a
lock has a job that will remove it, or a killed one; `RunningIsLeftByTheUnreported`.
`CrawlIsComplete`: what has been found are the readable numbers of the pages
read, and as long as none of them was read before it was rendered, those are a
prefix of the list; a crawl that stops because it has enough has as many
different orders as the shop said, and all of them are the list's, so it has
all. `ListIsSaved`: while up to a page of orders comes and none leaves, the
orders of the first page's list that are not linked yet are on the pages to
come (`BetweenPages`), because an order moves back by as many places as orders
came; and the number of links says when the list has been read to its end.

**SumLemmas** and counting. The induction theorems of the library take an
operator, so the proofs by induction look for a least counterexample: a smallest
number (`LeastNatural`) or a finite set of least cardinality (`SmallestSet`) that
does not have the property. So a sum is shown to exist, not to depend on the order
in which elements are taken off, and to grow by an element's amount when the
element is added.

`PartsGoOnAlone` of the four compositions: a behaviour of the whole is one of each
of its parts.

**Model-checked only.** Liveness (`WorkersExit`, `AcceptedIsSettled`,
`CrawlsEnd`), which is beyond this prover, and `ImplementsSlot` after a crash. Every
other property of the passing runs is stated by a theorem.

## 5. What is left out

- **Clocks.** `stale_lock`'s test that `started_at` is not in the future
  (`scheduler.py:46`) is true in the model; a preview may expire at any time. A
  batch id contains the wall clock's second and the end of the token; it is a
  counter.
- **Process numbers and hosts.** Of the collection lock a pid is never reused and
  the host name does not change, so `lock_active`'s (`service.py:126`) and
  `stale_lock`'s tests ask whether the owner runs. (Both are the collector's; the
  inventory sync, whose lock two containers share, is modelled with `PidRunning`,
  where the pid of a dead run may be anyone's.)
- **Three hours.** A lock of the inventory sync does not get old while a run looks at
  it (`Quick`): reading, judging and removing it are a few calls.
- **Input and output errors** of a lock file's own write, of a rename and of a
  read are not modelled. Failures of the status patch, of the snapshot, of the
  preview's removal, of the JD ledger's write, of a settlement file's, of the order
  store's snapshot, of every write of an inventory sync, of a sync to SQLite and of
  `run_request` are. A history file that is there and cannot be read counts as none
  for `read_json` and would be written again (`inventory_sync.py:452`).
- **Calls that fail early**, such as a workbook that cannot be read, are calls
  that never finish: they have changed nothing but the secret.
- **The limit of failed logins** (`auth.rs:483`), passwords, cookies and the
  lifetime of a session: a session may end at any time.
- **The page.** Selectors, clicks and pauses are a step that works or fails; of
  the page's requests those are modelled that confirm a day or fill a list.
- **Pure computations** over files: the dashboards of operations and channels
  (`crates/operations`, `crates/channels`), the aggregation of the settlement,
  JD and inventory pages, the conversion of rows for SQLite and spreadsheet
  parsing. They keep no state; what they read is written by the modules above.
- **Not modelled at all**: the web interface and its generated `web/static/`,
  the API's routing, `legacy/` and the rest of `legacy_metrics_py`, the page
  probes, runtime paths, deployment and backup scripts: no state that others
  depend on, or code that is not run.
