# Verification of CarniTrack

TLA+ models of the parts of CarniTrack (Django, PostgreSQL, one schema per
tenant, edge computers in the slaughterhouses) where several actors change the
same rows: TLC checks them on small instances, TLAPS proves the main results for
every instance. Paths below are relative to the repository's `src/`.

## The system

An **edge** (a computer at a slaughterhouse, not in this repository) drives
scales and label printers and talks HTTP to the cloud. It polls, uploads and
retries. The **cloud** runs Django under gunicorn, eight threads to a process.
`ATOMIC_REQUESTS` is not set and PostgreSQL is at read committed, so a query of a
view commits by itself unless the view opens a transaction; `save()` writes back
the row that was loaded. There are few locks (`select_for_update`); uniqueness
constraints carry most of the exclusion. This is what makes the system hard: a view
is a sequence of separate steps over rows it read earlier.

| Component | Code | State | Operations | What makes it correct |
|---|---|---|---|---|
| Scale sessions and events | `scales/api_views.py`, `scales/views.py`, `scales/models.py` | `DisassemblySession`, `WeighingEvent`, the edge's store | upload (single, batch), create, close, cancel, edit, delete, reactivate | one open session per scale; an acknowledged event is stored as weighed; each upload counts once; cached totals equal the events |
| Poll caches | `scales/api_views.py`, `scales/signals.py`, `labeling/signals.py` | version key, payload entries | poll, bump, expire | a poll shows what was finished before it; every edge catches up |
| Print queue | `labeling/*`, `scales/api_views.py`, `scales/views.py` | `PrintJob`, claims, payload | enqueue, poll, ack, cancel, re-enqueue, cleanup, remove or re-link an edge | closed jobs stay closed; a claimed job stays with its edge; jobs are taken |
| Offline batches | `scales/api_views.py`, `scales/views.py` | `OrphanedBatch`, `OfflineBatchAck`, the edge's store | offline upload, batch ack, reconcile | counters equal events; a batch's events are in one session; an acknowledged batch is complete |
| Slaughter orders | `reception/*` | `SlaughterOrder`, its package, order numbers, tags | receive, cancel, bill, add and remove animals, change the package | order and animals agree; numbers follow; tags are unique; work fits the package |
| Animals, weights, cuts | `processing/*`, `scales/utils.py` | `Animal`, weight logs, carcasses, cuts | slaughter, weigh singly or in batches, cut, deliver | animals only advance; batches and logs agree; cuts fit the carcass |
| Edge provisioning | `scales/api_views.py`, `scales/views.py`, `scales/signals.py`, `tenants/api_views_edge.py` | setup codes, devices, two public indexes | issue, activate, register, report, revoke, remove | a code makes one device; the indexes agree with the tenant |
| Registration, impersonation, e-mail index | `tenants/*` | requests, tenants, tokens | approve, reject, provision, consume | not modelled, see the end |
| Inventory, users, reporting, telemetry, label text, portal, router | the rest | single rows, or none | forms, queries, rendering | not modelled: no interaction |

Calls and shared state: uploads and corrections share the rows of a session and
its events; saving a session or a print job bumps a version key by a `post_save`
receiver (`QuerySet.update` does not, and bumps by hand); every edge of a site
shares one cached page of print jobs; removing an edge cancels print jobs;
an event may disassemble the animal it is for; an animal's step derives the
status of its order; a batch of weighings derives the weight of each animal; the
package of an order decides what its animals may be cut into; saving an edge device
or a setup code writes an entry to the public schema.

The hazards of this code, each at its line, are in `PROJECT.json`, with the
properties that watch them, or a note that says why none does.

## The modules

**`ScaleEvents`** models sessions and their events query by query. A request is a
record in `req`, one per worker thread; `pc` names the query it does next, `row`
and `seen` hold what it has loaded, so a save writes back old counters exactly as
the code does. `Post`/`Insert`/`Tally`/`Answer` is `edge_post_event`, where event and
session commit separately; `PostBatch`/`Commit`/`Rollback` is one event of
`edge_post_event_batch`, where they commit together (each event of a batch has a
transaction of its own, so a batch is as many requests; an answer that is lost is a
crash before `Answer`, and the retried events are duplicates). The query for a
duplicate and the load of the session are one step: whatever comes between, the
unique index on `edge_event_id` decides at the insert. `Create`, `Close`, `Cancel`
are the session's views; `Edit`, `Delete`, `Reactivate` with their steps are the
corrections. `DeviceFree` is the partial unique index; a save it refuses is
`TallyRefused`, `Rollback`, or the unchanged branch of `CreateSave`. `Capture`
and `Send` are the edge. `drift` is a history variable: it records that one of the
listed causes of wrong totals has occurred to a session, and nothing reads it.
The status values "paused" and "auto_closed" are never written by the code and are
left out. Events of offline batches take another branch, the subject of `OfflineBatches`.

**`EventLedger`** is what the upload promises, without requests: an event is weighed,
recorded at most once as weighed, acknowledged after. `Honest` and `NothingLost` are its promises. `ScaleEvents!Ledger` and
`OfflineBatches!Ledger` are its instances under the refinement mapping `Weighed`,
`Recorded`, `Acknowledged`; in the second a batch takes the place of a session.

**`PollCache`** models one version key. The rows are a number, the count of committed
changes, and an answer is the number it shows. A poll is `Poll` (read the version),
`Hit` or `Miss`, `Query`, `Store`. A save commits, then bumps in the receiver, and
in `edge_post_event` once more in the view ("twice"); the batch endpoint does both
bumps before its transaction commits ("batch"). `BumpAtomic` is
`cache.incr` of Redis or LocMem on an existing key; `BumpRead`/`BumpSet` the two
steps of the fallback `set(1)` and of `DatabaseCache.incr`. `Forget` loses the
key, `Expire` is the two-second timeout. `finished` and `broken` are history:
what had ended, and whether an event occurred that can make an old entry current.

**`PrintQueue`** models the jobs of one site. Acknowledgement and cancellation load a
row and save it (`Ack`/`SaveAck`, `Cancel`/`SaveCancel`); the others are UPDATE
statements. Because `PollCache` models what happens between a commit and its
bump, here the two are one step, and so is a poll. An edge may acknowledge
any job it has in hand in any order, and drops one when it likes after it has
reported an end. No caller passes `target_printer` when it enqueues, so a job has
a printer only after an acknowledgement. Left out: the free edit form of the Django
admin, attempts and error texts, the content of labels, ETags, rate limits, and the
refusal to remove an edge with active sessions (which only restricts `Remove`).

**`OrderLifecycle`** models one order and its animals. A request loads rows in its view,
outside the service's transaction, and keeps them: `seen` the animals, `ord` the
order's status. `Start` is the load with the transition's checks (`Source`, `Allowed`);
`Save` writes the loaded row back; `LoadOrder`, `ReadAnimals` and `WriteOrder` are
`update_order_status_from_animals` at the end of the same transaction, and
`Derived` its rule. A batch (`StartBatch`, `Continue`) is one transaction per animal that
share an order object. `SaveAlone` is a save that commits by itself and derives
nothing: an event or a cut that disassembles, an edit, a leather weight. `CancelOrder`,
`ListAnimals`, `Save`, `CommitCancel` are the cancellation, `Bill`, `Insert`, `Delete` the
other services of the order. PostgreSQL is in `wr`: the writes of an open transaction, which
others do not read (`View`) and whose rows they wait for (`RowFree`, `OrderFree`,
`WaitsFor`); requests that wait for each other are found and one is rolled back
(`Deadlocked`, `Abort`). A save of a row removed meanwhile inserts it again, which is what
Django does when the UPDATE finds nothing. `drift` records a lost update (a row written
over a value other than the one loaded) or a write skew (a status derived from, or a
list of animals read from, a state others had changed). Group weighings, which
transition several animals and derive the status once in one transaction, are not here
(`WeightLogs` has their weights). Reads that commute are merged:
a batch loads the order with its animals, a delivery's condition the order with its animal.
Left out: carcass records, the owner,
destination and dates of an order, which are saved with `update_fields`, and the forms
of the Django admin. Package, deliver, return and prepare have no view that calls
them yet, only tests; they are modelled as the services are.

**`OfflineBatches`** models the branch of both upload endpoints for an event with an
`offlineBatchId`, the acknowledgement of a batch and its reconciliation. In
`POST /events` the event (`Insert`), the row of the batch (`Fetch`, a `get_or_create`) and
its counter (`Tally`) are three commits; in `POST /events/batch` they are one
transaction per event (`Load`, `Commit`), which is one step when it inserts the row of
the batch (`CommitFirst`), since others then wait for it. A row that another transaction has
inserted and not committed holds an equal insert back (`HeldBack`). `SendAck`,
`Acknowledge`, `Confirm` are the acknowledgement with its lookup, its insert against the
unique `batch_id`, and the answer. `Reconcile` is the view's load outside the transaction,
`SaveReconciled` the transaction: the session takes the count as loaded and the events
as they are. That UPDATE takes active events only; in this module none is inactive, corrections being
the subject of `ScaleEvents`. The edge weighs into a batch, uploads until each event is answered, then
acknowledges until that is answered, which is how the API's answers
(`accepted`, `duplicate`, `already_received`) are meant to be used. `drift` records an
overlap on a counter or a death before it; `sealed`, that a session was made after
the acknowledgement.

**`Numbering`** models the two allocators of the reception. An order number is taken under
an advisory lock of the day (`Lock`, `Allocate`, `Insert`); `Collide` is the retry after an
`IntegrityError`. The greatest number is the greatest *text* (`Precedes`): a number with
more digits than the format stands before those of four. `Radix` and `Full` are the base
and the first such number (10 and 10000 in the code). A text that ends in no number is 0,
the last of its day, after which the code counts the orders. A batch of tags (`Batch`,
`AddBatch`) reads the numbers of a prefix as typed, without a lock, and saves the animals with
the prefix as `Animal.save` rewrites it (`SavedPrefix`). `TypeTag`, `EditTag` and
`RemoveAnimal` are the forms of one animal: none looks whether another has the tag, and the
column is not unique. `EditTag` also stands for the save of an animal that was loaded
earlier, which writes its old tag and date back. `typed`, `slipped` and `repeated` are
history: a number entered by hand; a batch that missed tags, or whose prefix is rewritten;
the tags that a form gave to an animal while another had it, for as long as several have it.

**`WeightLogs`** models the weights of one type in one order. `LoadBatch` reads what other
batches weighed and checks; `WriteBatch` writes one that leaves animals to weigh;
`ReadMissing` and `Derive` write the last one with the individual logs it implies. `LoadEdit`
and `Resync` change the total of a batch and rebuild the logs. `Lookup` and `Write` are
the individual log, found by one query and saved by another. `leather` says which kind of
weight the module is about: leather is written by `LogLeather` (`log_leather_weight`), which
looks for nothing and adds a row each time, the others by the rest of the actions. Each request commits in its
last step. `Grow` and `Shrink` stand for the services that make an animal one that can
be weighed, or no longer one. `disturbed` records that something a request had read was
different when it wrote, or that an animal left an order that has been weighed; `relogged`, the
animals whose leather was weighed again.

**`DisassemblyCuts`** models the cuts of one carcass, the package of its order and its hot
weight. `Add` and `Edit` are the views up to the form, `Check` and `Refuse` the checks
of `DisassemblyCut.save`, `SaveCut` the write, `Disassemble` the transition that adding a cut ends
with. `CheckPackage` and `SavePackage` are `update_order_service_package`; `Reweigh` is any
service that writes the hot weight. `TakeOrder` and `WriteOrderBack` are the services that save
the order's whole row (the status derived from the animals, a cancellation, a bill): they
write the package back as they loaded it. The animal and the order read the name of a package
differently (`Reading`, `Mode`). `loose` and `mixed` are history: a cut saved after what its
check had read had changed; a package saved behind the check of a cut or the reverse, or
written back under recorded work that it does not fit.

**`EdgeProvision`** models setup codes, devices and their entries in the public schema, which
is where the public API looks a code or an edge up. `CreateCode`/`IndexCode` and
`LoadRevoke`/`SaveRevoke`/`IndexCode` write the code and then its entry. An activation
looks the code up on the public host (`LookUp`) or comes to the tenant (`Direct`), and
checks and uses the code under its lock (`Activate`, `Refuse`), entries included, each of which
may fail by itself, be logged and be missed (`scales/signals.py:72`, `:105`); on the public
host one more entry follows (`Upsert`). `Register` and `Report` (registration with an id,
heartbeat) end in the receiver (`Sync`), whose exceptions are logged and forgotten
(`SyncFails`). `LoadRemove`/`SaveRemove` remove an edge, `LoadOpen`/`Open` open a session on it.
`LoadTally`/`SaveTally` are an upload that loads an open session and saves its status with the
tally: closed in between, the session is open again, even when the edge has been removed
(`ScaleEvents` has the same save in full; here it is what matters to a removal).
`unsynced`, `relisted` and `raced` are history: an entry that could not be written, one
written from an instance of the past, a removal that crossed a new session or a tally. A device
stands for an edge with its scales.

`OrderLifecycle`, `WeightLogs` and `DisassemblyCuts` are three views of one order. The first two share
its animals and threads (`OneOrder`), and what each names for itself carries a prefix (`LogInit`,
`CutSpec`), so that one module of proofs extends all three.

The `MC` modules give constants their values and symmetries; a run with a temporal property
has no symmetry.

## The runs

Bounds are named constants: `MaxCrashes`, `MaxEdits`, `MaxSaves`, `MaxForgets`,
`MaxJobs`, `MaxLogs`, `MaxOrders`, `MaxTag`, `MaxSame`, and the sets of actors. Two threads are
enough for every lost update and every stale save, which are between a loader and a saver;
two sessions of one scale are the least that can collide; two events, that a counter can be
off; two animals, that one can be finished and the other not.

| Run | Instance | Shows |
|---|---|---|
| `scale_uploads` | one scale, two sessions, two events, two threads, both upload endpoints, close, a crash | sessions never overlap, acknowledged events are kept, uploads implement the ledger, counts never exceed the events, a closed session is reopened only by a stale tally, every weighing is acknowledged |
| `scale_corrections` | one session, corrections, cancellation | totals are exact unless a listed cause occurred |
| `poll_cache` | one edge, two threads, three kinds of save, both backends, a crash, a lost key | answers are fresh unless one of three named events happened, and the edge always catches up |
| `print_queue` | one job, two edges, two threads, all endpoints | the cache never offers a job that is not pending; closed jobs and claims change only by stale saves |
| `print_taken` | two jobs, a page of one, re-enqueueing | types; unclaimed jobs are taken |
| `order_lifecycle` | one order, two animals, two threads, the transitions of single animals and of batches, cancel, bill, add and remove; without group weighings, and without prepare and deliver, which repeat others | the order agrees with its animals unless an update was lost or a status skewed; animals only advance, closed orders stay closed but for a return |
| `order_deadlocks` | the services that lock animals and order in both directions | every request ends |
| `offline_batches` | one batch of two events, two threads, two reconciliations, two crashes | counters are exact unless uploads overlapped or one died; the events of a batch are in its session; a session never overcounts; a batch reconciled after its acknowledgement is complete; the ledger; every batch is acknowledged in the end |
| `weight_logs` | two animals, two batches, two threads, weights 1 and 2, three rounds of logs | types; batches weigh no more animals than there are, a complete order is logged, one weight per animal, unless disturbed or its leather was weighed again |
| `disassembly_cuts` | two cuts, two threads, weights 1 and 2, all packages, saves of the order | types; cuts fit the carcass, and work fits the package, unless one slipped past a check or the package was written back |
| `numbering` | one day, two threads, base 3 with three numbers in the format, four orders, two tags that two animals may have, two prefixes of which one is rewritten, edits of tags | no retry under the lock, numbers without a gap, unique tags, each with its exceptions; every request is answered |
| `edge_provision` | one code, two devices, two threads, entries that fail, late tallies | a code makes one device; a usable code is not listed as consumed; a known edge is listed; a removed one is delisted and has no session, each with its exceptions |

In `numbering` a day of four orders passes the end of the format, where the order of the texts
is not that of the numbers; two devices are what one code must not make; in
`weight_logs` a log round is a write of new logs, and three of them let one service overwrite
what another has written. With one day in `numbering`, an animal moved to another date
shows as its removal, one moved to the day as a typed tag; the proofs are for any days. Every "unless" is a history variable, set at the steps in which
the code allows the exception and read by no action; the mutants show that what it
excuses is not everything.

Deadlock is not checked where the system really stops: all is uploaded, a site
has no edge any more, an order has no service left to run, or a bound is reached
(`CHECK_DEADLOCK FALSE` in those configurations).

**Fairness.** Steps of running requests are weakly fair: threads are scheduled by the
kernel. Sends and polls of an edge are strongly fair: the edge repeats them on a
timer, and a thread is free again and again, not continuously. Cache entries expire by
a timer (weak). In `PrintQueue` no fairness says *which* edge fills the cache:
only that some edge polls (weak); an edge acknowledges what it has in hand (strong).
In `OrderLifecycle` the steps of a worker are strongly fair: those that wait for a row
are served in turn, and PostgreSQL breaks every deadlock after a timeout. In
`OfflineBatches` steps of a request are weakly fair; uploads and acknowledgements, which the
edge repeats until it reads an answer, strongly. In `Numbering` the work of a request is weakly
fair and the lock strongly: PostgreSQL grants it in the order of arrival. Nothing is
said of `Crash`, of operators and of new requests; `WeightLogs`, `DisassemblyCuts` and
`EdgeProvision` state no fairness.

## The proofs

TLAPS checks these for every value of the constants that meets the assumption named in the
module (`ConstantsOK`, `PollConstants`, `QueueConstants`, `OrderConstants`, `OfflineConstants`,
`NumberingConstants`, `WeightConstants`, `CutConstants`, `EdgeConstants`): that the null
values are none of the rows, that the sets counted or summed are finite (the threads too,
where what each of them carries is summed: gunicorn runs eight), that bounds are numbers.

`Sums`: lemmas on `SumFunctionOnSet`, by which `ScaleEvents`, `WeightLogs` and `DisassemblyCuts`
sum. The sum is a fold, a function chosen on the subsets of a set; that it exists is
shown level by level (`AllLevels`), that it does not depend on the set it was chosen for by
`SumUnique`. Both, and each law, argue by a smallest counterexample: a set of subsets of
a finite set has a smallest member (`Smallest`), which replaces an induction over the data.
- `SumStep`: a sum is the element `CHOOSE` picks and the sum of the rest.
- `SumTake`, `SumChange`, `SumLess`, `SumMasked`, `SumOnes`: taking any element out, changing one summand,
  leaving one out, summing over a part, counting.

`ScaleEventsProofs`:
- `TypeCorrect`: types. It needs that a request that works on an event or a
  session has one (`Inv` strengthens `TypeOK` by that).
- `OneOpenSession`: no scale has two open sessions. Every step that opens a session passes
  the index; the others never open one.
- `AckedKept`: from `Kept`, which adds what holds of requests under way: an upload is for an
  event the edge has weighed, one that answers or tallies finds its event stored.
- `ReopenedByStaleTally`: an action property, by cases on the actions that write a status;
  it needs `Fresh`: a session that is being created has no other request.
- `CountBounded`: a row an upload has loaded counts at most the events stored by then;
  the tally adds one, and by then the upload's own event is one more (`Room`).
- `LedgerImplemented`: every step maps to a step of `EventLedger` or stutters. `UploadsHonest`: so what
  the ledger promises (`Honest`, `NothingLost`) is true of the uploads.
- `BalancedAlways`, `TotalsExact`: totals are exact unless a session drifts. Exactness is not
  inductive: an event and its session are saved by two commits, and between them the totals lag
  by what the request still carries. `Balanced` says that while a session does not drift, its
  count and weight with what the requests under way still owe it (`CountOwed`, `WeightOwed`)
  are the sums over its active events, and that a request that (de)activates an event had
  loaded it in the other state (`Seen`).
  A step moves one event (`SumChange`) and what one request carries by the same amount.

`PollCacheProofs`:
- `PollTyped`: types.
- `PollFreshness`: the inductive invariant is `Fresh`. A finished change has raised the version
  above that of every answer that does not show it; this is carried for answers in
  the cache and for those a request is about to store (`Shown`), for what a poll
  owes (`Owed`), and for versions about to be set (`Ready`). It is needed because
  a store may come arbitrarily long after its query.

`ProcessingProofs`, of `OrderLifecycle`:
- `OrderTyped`: types, and `OrderAgrees`: the order agrees with its animals unless `drift`.
  Agreement is not inductive: a transaction writes it after several steps, so the invariant
  says what a request knows at each step (`ReqOK`: what it has loaded, and that all it has
  written is its transition's target), that an animal is locked by one transaction
  (`Locks`), that nobody else knows an animal that is being added (`Fresh`), and that a
  locked animal still is in a source of the transition that locked it (`Based`).
- `AnimalsAdvance`: no transition goes back from its sources (`TargetOK`), so
  an animal goes back only where the row was not what had been loaded.
- `ClosedReopened`: a closed order's animals are all finished (`OrderAgrees`), and of the
  transitions only a return starts from a finished animal (`SourceWorks`).

of `WeightLogs`, one invariant, `LogInv`:
- `BatchesFit`: what a batch has read and fitted (`LogRead`) is so when it is written, or it disturbs;
  an edited batch keeps its number because only one request has it in hand (`Held`).
- `LogsComplete`: a batch that is not the last leaves animals uncovered, the last gives a log to
  all that lack one. It needs `BatchesFit`: an animal added to an order whose batches cover it
  all uncovers it.
- `OneWeight`: rows are created for animals that have none, or after all were deleted; only
  leather gets a row without a look, and is then in `relogged`.
- `LogsTyped`: types; the average of no animals is never taken.

of `DisassemblyCuts`, one invariant, `CutInv`:
- `CutsTyped`, `CutsFit`, `WorkFits`: from what a request has checked (`CutChecked`): a cut about to
  be saved was allowed by the package it had loaded and fitted beside the other cuts as
  summed; a package about to be saved does not change what work there was. Saving
  over a change of what was loaded sets `loose` or `mixed`; otherwise the cuts after the save are
  the others and the saved one (`SavedSum`). A save of the order changes nothing but the
  package, and sets `mixed` when recorded work would be read differently.

`PrintQueueProofs`: one invariant, of types, of what a request has in hand by its
`pc` (`Sane`: an acknowledgement has loaded a job that was not closed, a cancellation a
pending one), that one request at a time creates a job, and of `CacheOffersPending`.
- `QueueTyped`: a page holds at most `PageSize` jobs, because those before its last
  are fewer (`PageFits`).
- `CacheOffers`: every path that takes a job out of "pending" drops the payload.
- `ClosedJobsStay`, `ClaimsStay`: action properties, by the actions that write a job; `Sane` says
  what the row of a save was when it was loaded.

`OfflineBatchesProofs`:
- `OfflineTyped`: types, with what a request has in hand (`Served`), that one request at most
  adds an event to its batch (`OneAdds`: the unique index, and the insert it holds back),
  and what is true of rows that are not there (`Blank`).
- `EventsPlaced`, `SealedComplete`: `Placed` adds that the session a batch points to is
  of that batch; `Given`, that an edge that has acknowledged a batch has nothing of it left to
  upload, so that no event comes after a sealed session.
- `CountExact`, `NeverOvercounts`: `Counting` compares counters, as stored and as loaded, with
  the events that have been counted. A loaded count may lag, never lead; it is equal while
  nothing drifts.
- `BatchLedger`: every step maps to a step of `EventLedger` or stutters. `BatchesHonest`: its promises.

`NumberingProofs`: one invariant. A request that holds the lock of its day is alone
(`OneInside`), and its number is the one after the greatest of the day until it inserts it,
unless a number is entered by hand (`Good`).
- `NumberingTyped`: the next number exists because a finite set of texts has a greatest
  element, which is proved from the well-foundedness of the numbers.
- `NoRetry`, `Follow`: below `Full` the order of the texts is the order of the numbers, so
  the next number is one more than their count.
- `TagsUnique`: the first number of a batch is above all that it has read (`Good`), and
  what it has not read makes it slip. A tag that a form gives to a second animal is in
  `repeated` until one of the two has another (`RepeatsAre`).

`EdgeProvisionProofs`: one invariant (`Inv`), shown to be kept by what every step does to
codes and devices (`Onward`: a used or revoked code stays so, a removed device too, an entry
of an active device is not taken away).
- `EdgeTyped`: types.
- `OneDevice`, `NotConsumed`: the code is checked and used under one lock; an entry
  says "consumed" only for a code that was used or revoked.
- `Found`: an edge is told its id after its entry was written, or could not be, in the
  activation or after it.
- `RemovalDelists`, `RemovalKeepsSessions`: from `Inv` and what a removal under way still
  owes.

**Only model-checked.** Liveness (`EventuallyAcked`, `EventuallySeen`, `NewJobsTaken`, `RequestsEnd`,
`EventuallyDone`, `EventuallyAnswered`): progress under fairness rests on `ENABLED`, which is
outside the prover's reach. Every invariant and every action property that a run checks is a theorem.

**What the proofs found.** `TotalsExactUnlessDrift`, as first modelled, held on the
instance of its run and could not be proved: two edits of an inactive event overlap, the second
writes a weight that the first has changed, and a deletion follows. The totals are then off although
no cause that `drift` recorded had occurred; it takes four corrections to show. The save
of an event over a weight other than the one loaded (`Assign`) is now a cause like the others.

The ledger covers events uploaded with a session, with a batch or with none; reconciling
a batch moves its events to a session and is not part of it.

## Where the code and its texts differ

Met while modelling; the models say what the code does.

- `docs/DJANGO_CLOUD_INTEGRATION_SPEC.md:283` has an upload add to the session's totals, and
  `:278` has a known event answered `duplicate`. The event commits before the session
  (`scales/api_views.py:579`, `:602`): a worker that dies in between leaves it
  uncounted, and the retry is a duplicate. This is one cause of `drift` in `ScaleEvents`.
- `scales/views.py:1228` says an update recalculates the total and may be of a deleted event;
  the total is only adjusted when a weight is given (`:1274`), while the event is made active
  either way (`:1299`). Another cause of `drift`.
- `scales/api_views.py:457` says the next poll bypasses the stale entry; the batch endpoint
  bumps the version before its transaction commits (`:758`). This is an event that sets `broken`
  in `PollCache`.
- `scales/tests_gap_fixes.py:173` says jobs claimed by another edge are not visible; the page
  filtered for one edge (`scales/api_views.py:1040`) is cached for the site (`:1083`).
- `reception/services.py:452` says a cancelled order's animals are disposed of; one that is added
  after they were listed (`:460`) is not. This sets `drift` in `OrderLifecycle`.
- `reception/services.py:96` takes a package named "kemiksiz" for a boneless one,
  `processing/models.py:242` only one named "boneless" or "kemikli": order and animal disagree
  about its cuts (`Mode`, `Reading` in `DisassemblyCuts`).
- `processing/models.py:106` calls the tag of an animal a unique identification; the column is
  not unique and no form looks for the tag (`reception/services.py:507`,
  `reception/views.py:424`). This fills `repeated` in `Numbering`.
- `processing/forms.py:232` says that existing weights are overwritten. `log_individual_weight` does
  so; leather chosen in the same form is a new row each time
  (`processing/services.py:713`). This fills `relogged` in `WeightLogs`.
- `reception/forms.py:532` says the sequence of tags continues for the same prefix; saving an
  animal rewrites the prefix (`labeling/utils.py:1637`), and the next batch looks for it as
  typed (`reception/services.py:54`). This sets `slipped` in `Numbering`.

## Not modelled

- **Registration and tenant lifecycle.** An approval is one transaction that creates tenant,
  schema and owner and ends with the status; two of them meet at the unique schema
  name. An approval and a rejection that overlap are a listed hazard. Deletion is a cascade
  of django-tenants, the switch that deactivates a tenant a single column.
- **Impersonation and the e-mail index.** A token is checked and consumed under its row lock in
  one transaction. The index of users is written by receivers, as that of edges is.
- **Telemetry, inventory, users and clients.** Rows overwritten one at a time, by
  forms or by what the edge reports; no property relates two of them.
- **Reporting, label text, portal, theme, translations, tenant router.** They keep no
  state of their own.
- **Within the modelled parts:** how the weight of an event is shared among animals (arithmetic over
  one row), carcass records without the hot weight, by-products and scale tickets, edits of an
  order's owner and dates, the forms of the Django admin but for a typed order number, the
  printer configuration an activation returns, attempts and error texts of print
  jobs, ETags and rate limits.

What later work has left: registration with the overlap of the two decisions; `EdgeProvision`
composed with `PrintQueue` at the removal of an edge.
