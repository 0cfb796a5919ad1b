# print.rish.pw: a TLA+ verification project

The repository is a self-hosted quotation system for 3D prints. A customer
uploads models, picks settings, watches the price appear as the worker slices
them, and checks out a quotation; an operator works through the quotations and
the worker forgets files on schedule. The parts are a Next.js application
(`apps/web`), a BullMQ worker (`apps/worker`), shared packages
(`packages/shared`, `packages/geometry`, `packages/db`), PostgreSQL, Redis, a
directory of files, and the scripts that install and update a shop.

Nothing in the code holds a lock across those stores for longer than one
statement. What keeps them consistent are fences in `WHERE` clauses, unique keys,
fresh ids, leases, the order of writes, and sweeps that come by later. This
project states what those devices are supposed to achieve, model-checks it on
small instances, and proves most of the safety of it for instances of any size.

Files: `X.tla` models a component, `MCX.tla` gives small instances for TLC, each
`*.cfg` is one run, `XProofs.tla` holds theorems. Run from this directory:

    tlc -workers 2 -config SliceFaults.cfg SlicePipeline
    tlapm SlicePipelineProofs.tla

`PROJECT.json` maps every definition to the source lines it stands for, and lists
the runs, the seeded bugs ("mutants", operators named `Of_Bug` in the modules)
that each property is known to catch, the hazards, the findings and the theorems.

## 1. Inventory

### Components, their state and how they interact

| Component | State it keeps | Operations | Talks to | Modules |
|---|---|---|---|---|
| Slice results and the slice queue: `api/slices`, `slice-state.ts`, `index.ts` (`processJob`, `failed` event) | `SliceResult` row (status, attempt id, progress, measurements); BullMQ job per attempt | request, create, retry, `ensureLiveJob`; claim, progress, complete, fail; replay, stall, retry | the page polls it; checkout reads DONE rows; the worker takes an identity from the pool | `SlicePipeline`, `SliceContract`, `SliceProgress` |
| Slicer children: `orca.ts`, `slicer-sandbox.ts` | process groups, work directory, outcome | start, time limit, kill, retry in the submitted orientation, clean up | slice jobs, profile tests | `OrcaRun` |
| Parser children: `parse-runner.ts`, `thumbnail.ts` | child, scratch directory, preview | spawn, time limit, verdict, promote, record | ingest, slice jobs | `ParseRunner` |
| Slicer identity pool: `slicer-pool.ts` | free uids, waiting callers | acquire, release | slice jobs, profile tests | `SlicerPool` |
| Quotations, stored models, retention: `api/quotations`, `api/models`, `api/admin/quotations`, `retention.ts` | `UploadedModel`, `Quotation` and its items, files | checkout, clear, delete, status change, delete quotation; sweep of uploads, finished files, records, orphans | ingest produces the models; the maintenance queue starts sweeps | `QuotationStore` |
| Upload ingest: `api/uploads`, `ingest-queue.ts`, `ingest.ts`, part of `retention.ts` | temporary file, disk reservation, admission marker, BullMQ job, lock, result | stream, reserve, admit, enqueue, verify; parse, quota, write, commit, roll back, clean up; poll; sweep | the page polls the ticket; stored models go to `QuotationStore` | `IngestPipeline` |
| Quotation PDFs: `withRedisLock`, checkout, regenerate | lock key, file, path column | write, regenerate, replace | checkout, operator | `PdfStore` |
| Profile batches and live sets: `profile-test.ts`, `profile-set.ts`, `slicer-profiles.ts` | upload rows per slot, test job, set directories | upload, test, swap, revert, prune | slices load the live set | `ProfileBatches` |
| Presets: `profile-gen.ts`, `orca-profile.ts`, `slicer-profile-upload.ts` | library, generated set, live uploads | generate, read an upload, place it, derive the set in force | installer, owner, worker | `ProfileLibrary` |
| Quote page: `quote-store.ts`, `use-upload-sync.ts`, `use-slice-sync.ts`, `settings-panel.tsx` | cards, tickets, slice cache, the choice of settings | upload, poll, restore, remove, clear; choose, order | all of the above, as a reader | `UploadPage`, `SliceSync`, `QuoteConfig` |
| Pricing, tax, shipping, checkout: `quotations/route.ts`, `shipping-estimate.tsx`, `checkout-form.tsx`, `pricing.ts`, `tax.ts` | rates row, estimate and its token, what the form shows | price, tax, round; estimate, carry, charge | quote page, PDF | `Rates`, `Checkout` |
| Settings, catalogue, backup: `settings-backup.ts`, `catalog-availability.ts`, `secret-box.ts` | JSON rows, sealed secrets | edit, restore, rotate | pricing, slicing profiles, mail, shipping | `CatalogSettings`, `SettingsRestore` |
| The owner's editors | what a tab was rendered with, the edit on top of it, a save under way | type, save, answer, refresh | the rows above | `CustomColours`, `OwnMaterials`, `MaterialHelper`, `RatesForm`, `Showcase` |
| Showcase: `recent-prints.ts`, `showcase-photos.ts`, `recent-prints-grid.tsx` | list row, photo files; the viewer's zoom and pointers | upload, save, prune; gestures | visitors | `Showcase`, `Lightbox` |
| Geometry: `threemf.ts`, `xml.ts` | none (pure) | read a 3MF project, pack its items on plates, stream its meshes | ingest | `ThreeMf`, `MeshXml` |
| Update and rollback: `update.sh` | revision, images, tags, state files, schema | back up, tag, merge, build, migrate, restart, roll back | Docker, git | `SelfUpdate` |
| Installer: `install.sh`, `scripts/selfhost/lib.sh` | `.env`, answers, profiles, images, volume, containers | install, resume, menu, uninstall | the stack | `Install` |
| Database roles: `provision-database.mjs` | rights of the two runtime roles | revoke, grant, break off | every statement of web and worker | `DatabaseRoles` |
| Alerts: `telegram.ts`, `worker-heartbeat-alert.ts`, `api/health` | gate of each process, shared window and count, monitor | raise, claim, count, check | operator | `Alerts` |
| Rate limits: `security.ts`, `admin/login` | two sliding windows, the lock around the password check | reserve, refuse, refund | the one administrator | `RateLimits` |
| Sessions, mail, exports, pages | signed cookies, none | | | not modelled, see section 5 |

### What is hard here

* **Interleaving across stores.** A request judges a job dead, re-reads the row,
  removes the job and adds a new one with four calls (`api/slices/route.ts:168-193`);
  the sweep lists files, asks the database, and unlinks later (`retention.ts:43-131`).
* **Executions that outlive their job.** A BullMQ lock may be lost while the
  processor runs on: the job is replayed, or failed, beside it, with the same work
  directory and the same row.
* **Answers that are lost.** `queue.add` may have succeeded, `COMMIT` may have
  succeeded, a save may have been stored, and the code has to act without knowing.
* **Stops between two stores.** Between a row and its job, a row and its file, the
  failure of a job and its event handler, two steps of the updater or the installer.
* **Leases that run out.** The PDF lock is not renewed; a writer goes on beside the next.
* **State that was read earlier.** A tab of an editor, a quote page and an estimate
  carry what they were rendered with, while others change it.
* **Bounded resources.** Queue places, disk reserve, session limits, uids, budgets.

Every such place is a hazard in `PROJECT.json` at its line, with the properties
that would notice it going wrong, or a note that says why none does.

## 2. The models

A step is one database statement or transaction, one Redis command or script, one
file operation, one command of a shell script, or the synchronous work between two
awaits. Each of these is atomic in the code; whatever lies between two of them may
be interleaved.

### The core: slices, quotations, uploads

**SlicePipeline and SliceContract.** One `SliceResult` row with all its traffic. `row`
is the database row, `jobs[a]` the BullMQ job of attempt `a` (its id is derived from
the attempt id), `runs` the executions of `processJob`, `reqs` those of `POST
/api/slices`, `failing` the terminal `failed` events whose write is pending.
Attempt ids are numbered in the order they are drawn, so a UUID is a fresh number.
`measured` abstracts the stored grams, seconds and lengths to the attempt they were
measured for. `Request`, `Create`, `Retry`, `Reread` are the lookup, the create with
its unique key and the conditional retry; `GetJob`, `GetState`, `Recheck`,
`RemoveJob`, `AddJob` the calls of `ensureLiveJob`; `StartJob` to `Return` are
`processJob` with its fences; `Promote`, `StalledCheck`, `TrimJob`, `WriteFailure`
are BullMQ and the event handler; `RequestDies`, `Throw`, `LoseLock`, `WorkerCrash`,
`LoseFailure` the faults. `stranded` is a history variable that no guard reads: the
attempts from which one of four named faults took the last thing that would have
moved them. `SliceContract` is what the row promises its readers, in five actions
without requests, jobs or faults; `KeepsContract` says that `SlicePipeline`
implements it (`INSTANCE ... WITH status <- row.status, used <- 1..gen, ...`).

**QuotationStore.** Models, quotations and files of one quote session, with any
number of requests of its customer and of the operator. `web[p]` is what a request
carries from one await to the next; `sweep` is the running `runRetention` with its
lists. Time enters only as `old`: what has outlived the cutoff it is compared with.
`StartSweep(TRUE)` is the operator's purge, which keeps records.

**IngestPipeline.** Uploads of one session from request to row. `up` is the request,
`run` the processor, `poll` the status route; `tmp`, `reserved`, `markers`, `job`,
`locked`, `events`, `files`, `rows`, `sold` are the temporary file, the reservation,
the admission marker, the BullMQ job with its lock and undelivered event, the
stored files and rows and what a checkout has claimed. Lost answers (`AddJob`,
`Verify`, `Commit`) are explicit outcomes of the step. `EarlyCheckout` says whether
a customer may check out a model whose upload has not been answered yet; `Workers`
is the number of worker replicas, one in `docker-compose.yml`.

### Work of the orchestrator

**SlicerPool.** `free`, `waiters` and `holds` are the two arrays of `slicer-pool.ts` and
what the callers got.
**OrcaRun.** `runSlice`: its executions share the work directory of their job
(`dir` is who made it last), each has processes of its own (`proc`, `strays` of its
group) and a time limit; `plate` is what lies in the directory, `source` what a price
was read from. The orchestrator may restart while children live on.
**SliceProgress.** One attempt whose progress is written by throttled callbacks, while a
replay of the job claims it again; `printed` and `held` are the last line and the
write that waits for the one before.
**ParseRunner.** A parser child with its time limit, the signals it may be killed by, its
scratch directory and verdict; a render promotes its preview and records it.
**ProfileBatches.** Batch rows, the test job, its replays after a crash, the swap, reverts
and pruning, and slices that load the set of the live rows they were keyed for.

### What a customer sees

**UploadPage** (cards, tickets, polls, lost answers, reloads), **SliceSync** (the effect
that requests a slice and polls it, torn down and built up by every change of
settings; it assumes what `SliceContract` promises), **QuoteConfig** (the settings
panel, whose three effects keep the choice within the catalogue, 3MF defaults and
locks, the shop that changes its offer, the order route that judges by the offer of
now), **Checkout** (an estimate with its token and parcel from the builder through the
quote store to the charge, under changing quotes, rates and pincodes), **Lightbox**
(a dialog that outlives its photo by a transition, gestures against rendered state).

### The shop's state and its owner

**CatalogSettings** (two editors on one row, and what an order reads of it),
**SettingsRestore** (sealed secrets, a rotated key, a restore section by section),
**Rates** (saved rates over the defaults of a version, upgrade, restore, an order priced,
taxed and rounded), **PdfStore** (the lease, the headroom check, two writers, the file
under its final name, the path column), **CustomColours**, **OwnMaterials**,
**MaterialHelper**, **RatesForm**, **Showcase** (an editor tab each: what it was rendered
with, the edit, a save under way whose answer may be lost, and the handler),
**ProfileLibrary** (inheritance, matching and revisions of presets), **ThreeMf** and
**MeshXml** (a 3MF project to plates; the streaming of its meshes against a DOM).

### Around it

**SelfUpdate** (update.sh, killed anywhere, with its rollback), **Install** (install.sh,
stopped anywhere, resumed, its menu and what the containers have read),
**DatabaseRoles** (statement by statement grants beside a running shop), **Alerts**
(replicas that share a window), **RateLimits** (two windows, a lock and refunds).

### Composition

`SliceContract` is the interface between `SlicePipeline` and its readers. Where
several small models are checked in one run (`MCSettling`, `MCShopState`, `MCCheckout`,
`MCPages`, `MCWork`, `MCOwner`, `MCQuotationStore`), a variable `part` chosen by the initial state picks
the model that moves while the others rest: the run is the disjoint union of their
state spaces, each explored whole, and every property is that of its own model.

### What the models assume

* PostgreSQL statements and transactions and Redis scripts are atomic. A command
  whose answer is lost has either taken effect or never will: a `COMMIT` that lands
  after the rollback's own statement, and an `add` that lands after the existence
  check, are outside the models. An alert's `INCR` whose answer is lost may miscount;
  this is left out.
* BullMQ does what the code relies on: a job id exists once, an active job has one
  lock, stalled jobs are found, failed events are delivered unless the process dies.
  Waiting jobs are taken in any order, so nothing rests on the queue's order.
* Finished slice jobs may be trimmed at any time (`TrimJob`); the expiry of finished
  ingest jobs is left out.
* One quote session. Sessions meet only in the queue and on the disk, both of which
  several uploads of one session exercise too.
* Slicing, parsing and rendering are opaque: any outcome, any time. The work root is
  a tmpfs, so a restart of the machine takes the work directories.
* Couriers, mail, Telegram, Docker and git are external: any answer, or none.


## 3. The runs

Every run explores its state space completely. `settling` has deadlock checking on; in
the others everybody may have finished, or have used up what the instance allows, and
what must not stop too early is stated as a liveness property instead.

| Run | Instance | What it shows |
|---|---|---|
| `slice_requests` | 2 requests, 1 execution, 2 attempts, 2 tries each, 1 stall, 1 fault | Two `POST /api/slices` race on one row (create, retry, `ensureLiveJob`) beside the worker: `LiveRowHasWork`, `KeepsContract` (the refinement of `SliceContract`). |
| `slice_faults` | 1 request, 2 executions, 2 attempts, 2 faults | Replays, stalls, late writes and two crashes: `DoneIsMeasured`, `LiveRowHasWork`, `KeepsContract`. |
| `quotation_races` | 1 model, 2 quotations, 2 requests of the customer, 2 of the operator, 1 fault; 3MF archives and mesh parts; preset libraries | Checkouts, status changes, deletions and every stage of a sweep in every order: `StoredFileKept`, `OpenQuoteHasFiles`, `FinishedStaysFinished`, `NoDoubleSale`. What is read of a stored file, and the presets it is sliced with: `UploadRead`, `PresetsFit`. |
| `settling` | slices: 1 request, 2 executions, 1 attempt, 2 faults; quotations: 1 model, 1 customer, 1 operator | What must end: `EventuallySettles`, `HealedByRequests`, `OrphansCollected`. |
| `shop_state` | nine models with safety properties, bounds below | `TmpKept`, `SessionLimit`, `RowHasFiles`, `StoredOnce` (uploads), `StoredSafely` (PDF), `SettingsKept` (restore, catalogue), `ChosenIsOrdered` (panel), `CardsTrue` (page), `RunsApart` and `Rises` (slicer run, progress), `UpdateHonest`. |
| `checkout` | 2 pincodes, 3 quote totals, 1 change of rates, 2 mounts, 2 estimates; 1 upload and 2 renders of one model | `PriceKept`, `OwnResults`. |
| `pages` | 2 uploads, 1 of them polled, 1 queue place, 1 fault; 1 card; 2 settings | What a customer waits for ends: `AcceptedEnds`, `FollowedToTheEnd`, `ChoiceSettles`; `QueueBounded`. |
| `work` | 2 identities, 5 callers; 1 slicer run; 1 upload and 1 render; 2 batches of up to 3 presets, 1 crash, 1 revert, 1 slice | `Conserved`, `NoIdleWaiter`, `EveryCallerServed`, `EveryChildEnds`, `ServedIsTested`, `BatchSettles`. |
| `owner` | rates and orders, five editors, chooser, viewer, installer, roles, alerts, login (`MCOwner` gives each its inputs and bounds) | `BilledRight`, `EditorsTrue`, `ServerFits`. |
| `ingest_early_checkout` | 1 upload, `EarlyCheckout`, 1 fault | Violation, see Findings. |
| `update_kept` | 2 services, 3 revisions, 3 runs, 1 kill | Violation, see Findings. |
| `catalog_rename` | 1 name, 2 offers, 3 saves | Violation, see Findings. |

### Bounds, and why they are enough

* **Attempts, tries, stalls** (`MaxGen`, `MaxAttempts`, `MaxStalled`). Two attempts are one
  that is superseded and one that supersedes it; a third meets nothing a second did
  not, because fences compare with the row's attempt only. Two tries are a first and a last one.
* **Faults** (`MaxFaults`, `MaxPdfFaults`, `MaxCrashes`, `MaxKills`, `MaxStops`, `MaxLost`). One
  fault strands a row; the second hits its repair. Where a run allows one only, its
  theorem holds for any number.
* **Actors.** Two of each kind race; a third only repeats one of the pair. The pool has
  two identities and five callers, so that three wait and the order of the queue shows.
* **One model, one row, one card.** The code joins them only through sets of ids, on
  which the models quantify; the interesting pairs are a model and its quotation, its
  file, its job.
* **Queue, disk, sessions** (`MaxWaiting` 1 or 2, `Disk` 4 or 6, `MaxModels` 2, `MaxParts` 2):
  small enough to be full with two uploads, so that refusals, reserves and session limits bite.
* **Saves, changes, mounts, visits, runs** (`MaxSaves`, `MaxChanges`, `MaxMounts`, `MaxVisits`,
  `MaxRuns`, `Top`, ...): two of each give an earlier and a later one. `update.sh` has three
  runs: one that breaks, one on top of what it left, one more.
* **Values** (`Percents`, rates, texts, sizes) are picked at the boundaries of the
  code's own comparisons: rounding at half a rupee, a bed that fits exactly, a density of 0.
* **Symmetry** is used in runs of safety properties, on sets of interchangeable actors
  or ids; a run that checks a liveness property has none.

### Fairness, and why the code justifies it

Weak fairness everywhere except where a fault can disable an action again and again.

* `SlicePipeline`: the steps of a request and of an execution (each awaits a bounded
  statement, OrcaSlicer is bounded by its time limit); `StartJob`, `Promote`,
  `StalledCheck` (BullMQ's worker, delayed set and stall checker); `WriteFailure` (the
  event handler). Nobody owes a request. `EventuallySettles` is therefore conditional on
  nothing being stranded, and `HealedByRequests` on requests that keep coming, which is
  what the page's poll does.
* `QuotationStore`, `IngestPipeline`: a daily scheduler starts sweeps, a sweep goes on unless
  it dies, an upload commits or aborts, keys expire, files age, BullMQ works.
* `SlicerPool`: every run ends by its time limit and releases in a `finally`.
  `OrcaRun`, `ParseRunner`: the orchestrator's own steps and its timers; a child owes nothing.
* `ProfileBatches`: weak for the stages of a test, strong for its start, because a crash
  gives the job back to the queue; the number of crashes is bounded.
* `UploadPage`, `SliceSync`: effects, timers and requests get their turn; answers of a poll
  that is repeated for ever arrive now and then (strong).

### Findings

Three runs show the code doing something else than a comment beside it says.

* `ingest_early_checkout`: `ingest.ts:329-331` says of the rows it rolls back "These ids have
  not been returned to the customer, and the quotation fence prevents deleting anything
  that somehow became attached". `GET /api/models` does return them as soon as the transaction
  has committed, and the fence protects the row only: its files are removed.
* `update_kept`: `update.sh:66` says "Tag the images running now BEFORE building". It tags what
  `:latest` is, which after a build that failed is not what runs.
* `catalog_rename`: `catalog-availability.ts:67-69` says of names "a Catalog save can't undo a
  rename". The row is read and written whole with nothing in between to notice one.

Other places where a promise holds only under a condition the models make explicit:

* `SessionLimit` holds because there is one consumer, as `docs/ARCHITECTURE.md:82-85` says; with
  `Workers = 2` TLC finds two uploads of a session that pass the quota check side by side.
* `docs/ARCHITECTURE.md:85-86` says that an accepted job keeps its reservation until its
  cleanup. It lapses after two hours, also while the job still waits (`ReserveKept` of
  `IngestPipeline`, broken with three uploads).
* `profile-set.ts:131-133` drops a set "once nothing can still be slicing with" it. Its age is
  counted from when it was written and not from when it was replaced (`SetInUseKept` of
  `ProfileBatches`, broken with two slices).
* `uploads/status/[ticket]/route.ts:63-65` retries so as not to leak an inconsistent state, but
  reads the job once: when it completes after that read, its empty return value is
  answered as a failed upload (`PollTruthful` of `IngestPipeline`).
* A restore writes section by section: a database error half-way leaves what was written.

## 4. The theorems

The proofs are for every value of the constants that the assumptions allow: any
number of requests, executions, models, faults, saves and runs. `tlapm` checks all of
them down to the last leaf. In each case TLC checked the inductive invariant first.

The assumptions are named in the modules that declare the constants:
`SliceAssumption`, `QuotationAssumption`, `IngestAssumption`, `PoolAssumption`,
`CheckoutAssumption`, `ParseRunnerAssumption`; in `MCShopState` and `MCWork`
`LostAssumption`, `BoundsAssumption`, `OffersAssumption`, `ConfigAssumption`,
`PercentsAssumption`, `ShapesAssumption`; and in `MCOwner` `RatesAssumption`,
`StartsAssumption`, `AlertsAssumption`, `LoginAssumption`, `ShopAssumption`,
`MaterialsAssumption`, `EditorsAssumption`. They say that bounds are numbers, that
what stands for nothing is none of the things, and what the code itself guarantees of
its inputs (a percentage that `parseOrcaProgressLine` lets through, only `supports` is
locked by an import, a batch is not empty, the defaults of a release are rates that a
shop may use, the viewer can zoom in). TLC evaluates each of them.

What `MCOwner` gives its editors as definitions rather than constants stays as it is in
their theorem: a material with two names of one slug, a slot for a need of the owner's,
the stored rates and the texts typed over them, the catalogue of the helper's pick. Its
photos and pictures, fingers and zoom, and the bounds on edits, saves, losses, restores,
lists and custom colours are constants, so `EditorsAlwaysTrue` holds for any number of them.

| Theorem | States | The argument |
|---|---|---|
| `SlicePipelineProofs.TypeCorrect`, `DoneMeasured` | `DoneIsMeasured` | `TypeOK`, `Fresh` (nothing carries an attempt that has not been drawn) and `Measured` (an execution that reports has measured its own attempt). |
| `SlicePipelineProofs.Implements` | `KeepsContract` | Step simulation: every action maps to one of the five of `SliceContract` or a stutter, under `IInv`. |
| `SlicePipelineProofs.NeverIdle` | `LiveRowHasWork` | `WorkInv`: `Numbered` (older attempts are below the row's), `Returned` (a job whose execution returned is not active), `Claimed` (an active job has its execution or a stall to come), `Ended` (a job that has failed for good has its event, or the row has moved on). |
| `QuotationStoreProofs.FilesKept`, `OpenKept`, `SoldOnce`, `FinishedForGood` | `StoredFileKept`, `OpenQuoteHasFiles`, `NoDoubleSale`, `FinishedStaysFinished` | `Owned`, `Orphaned` (what a reconciliation is about to remove has no row and will get none), `Sold`, `Patching`, `Ids`: what a request carries over an await is still true enough for the write it leads to. |
| `IngestPipelineProofs.TypeCorrect`, `Bounded`, `FileKept`, `FilesOfRows`, `Once` | `QueueBounded`, `TmpKept`, `RowHasFiles`, `StoredOnce` | Every live job has its admission marker, and markers are counted under the limit; a job that has begun has its file; `FilesOfRows` needs `~EarlyCheckout`, and the finding is what happens without. |
| `IngestPipelineProofs.SessionBounded` | `SessionLimit` | With `Workers = 1`: between the quota check and the commit nobody else can add rows. The hypothesis is the deployment's; TLC shows the limit exceeded with two workers. |
| `WorkProofs.IdentitiesConserved`, `NobodyWaitsIdle` | `Conserved`, `NoIdleWaiter` | `OncePerCaller`: a caller waits once, and not while it holds. |
| `CheckoutProofs.PriceStays` | `PriceKept` | The estimate under way, the cached one and the one in the order each carry the parcel they were quoted for, keyed as the server will key it. |
| `CheckoutProofs.ResultsOwn` | `OwnResults` | A child works in the directory of its runner until it is killed, and a verdict is heard only from it. |
| `ShopStateProofs.RunsKeptApart` | `RunsApart` | `Reaped` (who has reported has no process left), `OwnDir` (the directory is that of the execution which runs alone in it), `Priced`. |
| `ShopStateProofs.PdfStaysSafe` | `StoredSafely` | The lease holder holds the lock unless it has overrun; a complete file is recorded or its writer is still at it. |
| `ShopStateProofs.CardsStayTrue` | `CardsTrue` | One ticket per card: what the poll is told agrees with the job, and a restored model is told from a card that waits for it. |
| `ShopStateProofs.UpdateStaysHonest` | `UpdateHonest` | Each step of `update.sh` comes with what the steps before it have achieved; a kill ends the run and leaves what was recorded. |
| `ShopStateProofs.ProgressRises` | `Rises` | The row is at most what the writer holds, which is at most what waits; only the claimer has written. |
| `ShopStateProofs.SettingsStayKept` | `SettingsKept` | `Witnessed` (what an order read of the catalogue was true when it read it), `Restored` (the sections that a restore has passed are as it reports). |
| `ShopStateProofs.ChosenStaysOrdered` | `ChosenIsOrdered` | The three effects of the panel, each with the locks it must leave alone, and the choice an order carries. |
| `WorkProofs.ServesTested` | `ServedIsTested` | `Together` (the rows of a batch change together), `TestTrue` (what the test has passed is in `proven`), then the three parts of the property. |
| `OwnerProofs.BilledAlways` | `BilledRight` | `BillInv`: saved rates are a full set within their bounds, and a bill is placed or was priced by such a set. Sums over the lines of an order of any length are handled by `SumIsIn` and `SumChanges`, from the definition of the fold. |
| `OwnerProofs.ServerAlwaysFits` | `ServerFits` | Four invariants, one for each model. `ShopInv`: which kinds of run come to which step, how the `.env`, the volume, the profiles and the containers agree with the run's configuration at each step, and that a Caddy left over from a deleted folder is on another network. `RolesInv`: the rights are those of the statements so far, and of an earlier version until the first one. `AlarmInv`: a claim holds the window of its process, and a granted one the shared window, for an interval. `LoginInv`: each recent guess has a place of its own in the shared window. |
| `EditorProofs.EditorsAlwaysTrue` | `EditorsTrue` | Seven invariants, one for each model. `PrintsInv`: the photo of whatever is listed, being saved or in an editor is alive, and two uploads never share an id. `ColoursInv`: what is in the row, on the page, in the edit and under way is sound and has one colour for an id. `MaterialInv`: an answer under way was true when it was given, and what is shown is true, or busy, or a newer answer is coming. `HelperInv`: a form rates nothing in a slot without a need, and is stored as it is. `ChooserInv`: the pick is what the loop over the catalogue computes of what is ticked now. `RatesInv`: an untouched field spells what the form was filled in from. `ViewerInv`: a frame is due for a photo that is open, and a timer for one that was. |

Modules that hold several small models (`MCShopState`, `MCCheckout`, `MCWork`, `MCOwner`) are proved
about in that composition, so that a theorem states the very definition a run checks;
the first lemmas of each proof split a step of the composition into a step of one
model and a stutter of the others.

### What is only model-checked

* **Liveness**: `EventuallySettles`, `HealedByRequests`, `OrphansCollected`, `AcceptedEnds`,
  `FollowedToTheEnd`, `ChoiceSettles`, `EveryCallerServed`, `EveryChildEnds`, `BatchSettles`. They rest
  on fairness and on ENABLED, which the provers cannot reason about.
* **`UploadRead`, `PresetsFit`**: what the recursive operators of `ThreeMf`, `MeshXml` and
  `ProfileLibrary` compute (components of an object, the end of an element, inheritance of
  presets). They are declared RECURSIVE, which the provers do not read, and they are
  compared with reference definitions over the inputs that `MCQuotationStore` lists.

Sums are no exception to the limit on induction: the library's induction theorems take a
predicate, but `WFMin` takes a set, so `SumIsIn`, `PartialIs` and the counts of
`OldestExists` argue by a smallest counterexample in the subsets of a finite set.

## 5. What is not modelled, and why

* **Sessions and quotation access**: stateless signed cookies and hashed links; a model
  takes the identity of a session as given.
* **Exports and downloads, pages that only render**: they read what other components own.
* **Geometry arithmetic** (transforms, volumes, rasterising, STL and STEP): floating point
  over large inputs. The control around it (budgets, plates, which items count) is in
  `ThreeMf` and `MeshXml`.
* **Layout of documents and mails, wording of the scripts' questions.**
* **Rate limits other than the login's**: they appear at their callers as a refusal that may
  happen at any time.
* **Files of the site's own settings** (FAQ, profile, photos of a backup): rows of the same
  kind as those in `SettingsRestore`, without the secrets that make it interesting.
* **Thumbnails** beside the slice job: `ParseRunner` has the renders and the recorded preview,
  `SlicePipeline` leaves them out.

## 6. What is left to do

1. Write the recursive operators of `MeshXml`, `ProfileLibrary` and `ThreeMf` as recursive
   functions, so that lemmas about them can be stated beside what TLC compares.
2. Temporary files in `QuotationStore` and quotations' PDFs, which are now separate models.
