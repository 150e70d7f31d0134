# Urdira: a TLA+ model of the daemon

Urdira keeps a code index of local workspaces. A daemon process owns the
indexes; command line, MCP server and web console are its clients. This
directory models the parts where order matters: who scans a workspace when, how
work is admitted, who may write a database, when it may be moved or deleted, what
is collected as garbage, and what a restart finds on disk.

## The system and its parts

```
 file system -> watcher manager -> scan scheduling -> work scheduler -> native worker -> store
                (watchers.ts)      (runtime.ts)       (scheduler.ts)    (crates/...)
                                        |
                                  workspace registry  <-> workspaces.json
                                  (workspaces.ts)
                                        |
                                  storage layer: catalog.sqlite, one database and one
                                  (storage.ts,   writer marker per workspace, one
                                   lifecycle.ts) content-addressed store (CAS)
```

| part | source | module | state |
|---|---|---|---|
| scan scheduling of a workspace | `packages/daemon/src/runtime.ts` | `ScanScheduling` | modelled for the default (v4) pipeline |
| watcher batches and their delivery | `packages/engine/src/watchers.ts` | `ScanScheduling` | batches and delivery; not debouncing and re-arming |
| work scheduler | `packages/daemon/src/scheduler.ts` | `PublicationOrder`, `DaemonScheduler` | modelled |
| registry and its file | `packages/engine/src/workspaces.ts`, `packages/daemon/src/workspace-registry.ts` | `WorkspaceRegistry` | modelled |
| native worker and store | `crates/urdira-indexing-worker`, `crates/urdira-structural-store` | `ScanScheduling` (external) | as the daemon sees them |
| writer marker of a database | `storage.ts`, `crates/urdira-indexing-core/src/lib.rs`, `packages/daemon/src/lexical-thread.ts` | `WriterLock`, `WriterMarker` | modelled |
| installation catalog: open, close, removal, purge, relocation, recovery | `packages/storage/src/storage.ts` | `WorkspaceStore`, `StorageCatalog` | modelled for one workspace; not its registration |
| garbage collection, manifests, pins, backup barrier | `packages/storage/src/lifecycle.ts`, `cas.ts`, `storage.ts` | `GarbageCollection` | modelled; not the content of a backup, nor snapshots as roots |
| reconciliation coordinator, freshness barrier | `packages/engine/src/reconciliation.ts` | - | only tests use it |
| daemon ownership | `packages/daemon/src/ownership.ts` | - | not modelled |
| queries, plugins, MCP, CLI, web, contracts, embeddings | `packages/*`, `apps/*` | - | not modelled: pure computation, presentation or input and output |

`PROJECT.json` has the full list with reasons, the hazards each part is exposed
to, and the source lines of every definition.

## The modules

**ScanScheduling** is the closure around `scheduleWorkspaceScan`, for one workspace (all
its maps are keyed by workspace). `scans` holds those maps: in flight, delete phase,
pending request, aggregation buffer, admitted jobs. `status` and `snapshot` are the
registry's record, `stored` says whether the structural store has a generation. Each
caller is an action (`OnReconcile`, `flushScanAggregation`, `Sweep`, `Reindex`,
`Configure`, `WorkspaceConfigure`, `RetryFires`, `Restart`, and `RestartOutdated` and
`RestartDegrades`, a start that finds a database of an older format: the second is its
case of a workspace in its first scan, which is degraded and left to the sweep).
`WorkspaceConfigure` is `core:workspace_configure`: it sets the status to indexing and
schedules nothing. A scan job goes through `JobStart`, `selectV4ScanScope`, one `Observe`
per file, `Publish`, `Complete` and `Settle`, which contains the whole finally block with
the dispatch of the pending request; `Fails` are the branches of the catch block. A step
ends where the code awaits. Of a file's content the model keeps one bit: `behind` says
that the published index does not match the disk, and a job's `seen` says what it has read
that has not changed since. `rebuildOwed`, `unseen` and `incidents` are history: they
never guard an action. An *incident* is something after which a property no longer holds
in the code; every exception a property makes is one of these names.

**DaemonScheduler** is the class of that name: four queues, the counters, the
publication chain of each workspace, restart leases and `stop()`. An action is a
method, or a continuation of `run` up to its next await. `pump` repeats its
pass over the pools, as the loop does; `max_active` passes are enough for it to end,
which the proofs show (`PumpWorks`). **PublicationOrder** is what the chain promises the
jobs that publish to a workspace: they join a line when their run returns (`Join`), the
first of the line publishes (`Begin`), and when its publication ends, well or badly, the
next one is first (`End`). The mapping takes as `line` the publications of a workspace
that are not over, each after the one it awaits, and as `begun` the jobs in
`publish`. So "in order" is not a variable of the scheduler: it comes out of the
promises that `RunReturns` chained.

**WorkspaceRegistry** is the class of that name with its file. Each method saves
the state once or several times. `Save(final, partial)` is the last save of a
method together with the earlier ones: the process may die after any of them, or
during one, which leaves an unreadable file. `Load` validates the file as
the constructor does and refuses to start otherwise.

**WriterLock** is what the writer marker promises: one writer at a time, until the
lock is broken. **WriterMarker** is the protocol: a writer creates the file
(`create`), writes its pid (`writeOwner`), mutates the database, and removes the file
(`release`). A writer that finds the file retries until a deadline; a Node writer also
judges the pid and removes the file of a dead owner, in two steps (`judge`,
`removeStale`), while a native writer only waits. `runLexicalReconcileInThread`,
`abort`, `reply`, `terminate`, `settle` and `sweep` are the daemon's side of its
lexical worker thread, which removes the marker after an abort. The refinement
mapping is `holders <- Holders`, the writers that have written their pid and not yet
finished, and `broken <- Broken`: the incidents "stolen" (a waiter removes the marker of the
writer after the dead one) and "swept" (the daemon removes another writer's marker).

**WorkspaceStore** is what callers of the storage layer rely on: the database of a
workspace is in one place, whoever has it open reads it there, it is moved (`Relocate`)
or deleted (`Delete`) in one step while nobody has it open, moved only before and
deleted only after the workspace is removed, and it does not come back. A broken store
promises nothing.

**StorageCatalog** is `InstallationCatalog` and `openWorkspace` of `storage.ts` for one
workspace and two database paths, with `openWorkspaceReadOnly`. A task is one asynchronous
call in some process; its `pc` names the next step of that call. `row` and `journal` are
the rows of the catalog, `file` the databases on disk, `leases` and `mover` the lease
rows, `handle` the open handles, `lock` the catalog's serialized writer and the marker of
each path, here taken as exclusive. A call waits for its own process's writer without
limit and for a marker up to a deadline (`openBusy`, `purgeBusy`, ...). `crash` ends the
calls of a process; the daemon recovers the journal before it accepts calls again, and its
recovery may fail between the update of the row and the deletion of the journal
(`recoverSettle`, `recoverClear`, `recoverFails`). A read-only open (`viewRead`,
`viewOpen`, `viewCount`, `closeView`) takes no marker and no lease: it is counted in its
own process only, after its connection is open, and the daemon's query engines keep such
handles for long. Five incidents name what the catalog does not survive: "created" (an
open that had read an old path creates a database there), "undercounted" (a failed open
releases a lease that another handle of its process holds), "unrestored" (a rollback
leaves the row naming the new path), "unsettled" (a purge while a relocation is
journaled), "unseen" (a database is deleted or moved under a read-only handle of another
process, or under one that was counted after the purge or relocation had looked). The
refinement mapping to `WorkspaceStore` is `place <- PlaceIn(file)`, the path whose file
has the data, `reads <- CountedHandle`, the handles with a lease or in the process's
count, `removed` from the status of the row, and `broken` from the incidents: of the steps
of a relocation only the rename, forward, back or by the recovery, shows as a step of the
store, and of a purge only the deletion.

**GarbageCollection** is `collect`, the operations that refer to objects of the CAS,
and the barriers between them. An object is a hash, in the store or not; a row refers
to it from a manifest segment or a pin. `collect` is a step for each await that another
operation can tell apart: raise the barrier, read the roots, list the store and write the
candidate rows (one step, since nobody reads the candidates of an epoch that is not yet
sweeping), and for each candidate look for a backup, read the roots again, unlink, and
mark. An error goes through the two clean-up
statements, each of which may fail as well. The recovery after a crash is the two
updates of the next start. `exposed`, `straddled`, `grace` and `unreleased` are
history: the objects referred to after they were given up, the executions that expired
during an append, the epochs past their look at the backups when one began, and the
epochs whose clean-up failed.

The `MC` modules hold the constants and symmetry sets for TLC, the `Proofs` modules the
theorems.

## Runs

| run | instance | shows |
|---|---|---|
| `scan_safety` | 2 files (1 deletable), 2 changes, 1 fault | `NoChangeLost`, `RebuildKept` |
| `scan_liveness` | 1 file, 2 changes, 1 fault, 1 retry; fair | `OneScan`, `PendingHasOwner`, `IndexingIsScanned`, `Converges`, `ForcedFullHappens` |
| `scan_lost_presence` | 1 file, 2 changes | violates `IndexingAlwaysScanned` |
| `scan_deferred` | 2 files, 2 changes, 1 fault, 1 retry | violates `DeferredScanKept` |
| `scan_rebuild` | 1 file, 1 fault | violates `ReadyServesConfiguration` |
| `scheduler` | 2 queries, 2 publishing jobs, 1 lease, 1 stop; fair | limits, reserve, no stall, one publication, `ImplementsOrder`, quiet stop, progress |
| `registry` | 2 workspaces, 3 codebases, 2 roots, 2 operations, 1 crash | `Reloadable`, `RemovedStaysClosed` |
| `registry_reload` | the same | violates `AlwaysReloadable` |
| `gc` | 2 objects, batches of 1, 1 execution, 1 epoch, 2 faults, 1 crash | `ReferencedKept`, `SweepHoldsReadersOff`, `BarrierHasReason`, `BackupStopsSweep`, `RootsHaveReader` |
| `marker` | 1 Node writer, the worker thread, 1 native writer in another process; 1 fault, 1 crash; fair | `ImplementsLock`, `MarkerIsHolders`, `MarkerHasReason`, `WaitEnds` |
| `marker_race` | the same | violates `MarkerExclusive` |
| `catalog` | 2 calls of the daemon, 1 of which may read only, 1 of another process, 2 paths, 1 fault, 1 crash | `OpenDatabaseStays`, `CatalogNamesDatabase`, `RecoveryDecides`, `PurgeLeavesNothing`, `SomeCallAdvances`, `ReadHandleStays`, `ImplementsStore` |

What the main properties say:

- `NoChangeLost`: a file whose published content is out of date is still to be
  looked at by an undelivered watcher call, a buffer, a pending request, a scan,
  or the scan the next start makes. Excluded: dropped presences, a busy writer, a
  failed scan, or one that a start records as failed (`RestartDegrades`).
- `IndexingIsScanned`: a workspace shown as indexing has a scan ahead of it. Sweep
  and reindex skip such a workspace, so one without would stay that way. There are two
  exceptions, and the property says that there is no third: dropped presences
  (`scan_lost_presence`), and `core:workspace_configure`, which reopens a workspace and
  leaves its scan to the next file change, configuration or start.
- `Converges`: when files stop changing, the index ends up equal to the disk,
  whatever was lost on the way, since the sweep repairs it; unless the workspace ends
  *stranded*, that is indexing with no scan ahead, the state of the two exceptions.
  `ForcedFullHappens` is the same for a rebuild asked for during a scan.
- `RebuildKept`: a requested full rebuild is what the running scan does, or what
  the next one will do.
- `AdmissionLimits`, `NoStall`, `OnePublication`, `StoppedIsQuiet`,
  `ReserveHonoured`, `EveryJobSettles`, `StopReturns`: the counters are exact, a
  queued job always has an active one to wake it, publications of a workspace do
  not overlap, a returned `stop()` means quiet. `EveryJobSettles` promises an end to every
  job because the set of jobs is finite: submissions end. It is not a promise against
  starvation: while queries keep coming, `pump` takes them first and the slots reserved
  for them stay closed to background work. `StopReturns` excludes a lapsed
  lease: nothing wakes a waiting `stop()` when a lease runs out.
- `ImplementsOrder`: publications of a workspace neither overlap nor overtake each other,
  although a fulfilled one clears the tail and a failed one leaves it, and although a
  job cancelled or stopped meanwhile still takes its turn.
- `Reloadable`: the next start accepts the file, wherever the process died. A file cut
  off in the middle of a write counts as accepted, as it does in the constructor, which
  then starts with no workspace at all: the daemon starts, the registrations are lost.
- `RemovedStaysClosed`: a removed workspace is not reopened under its identifier. It is
  about `Known`, the registry in memory or, while no process runs, the one on file, so
  it follows the workspace through a crash and the load after it.
- `ReferencedKept`: what a row refers to is in the store. The exception is a row written
  between the last reading of the roots and the deletion, or one whose writer found
  the object in the store and writes the row after the object is gone.
- `SweepHoldsReadersOff` and `BarrierHasReason`: the barrier stands whenever objects are
  given up, and only while there is a reason. One reason is that candidates wait for a
  later call; the daemon itself never makes that call, since it collects under a new
  epoch identifier each time.
- `BackupStopsSweep`: after a backup's row is written a collect deletes at most the object
  it had already decided on.
- `RootsHaveReader`: an expired execution keeps nothing alive unless an append was under
  way when it expired.
- `ImplementsLock`: every behaviour of the marker is one of the abstract lock.
- `MarkerHasReason`: a marker on disk is in use, recoverable or about to be removed. The
  exceptions are a process that died before it wrote its pid and a thread that died in a
  process that lives on: these markers stay until somebody deletes them by hand.
- `OpenDatabaseStays`: no purge or relocation takes a database away from a handle opened
  with a lease, in any process; unless a failed open has given back another handle's
  lease ("undercounted").
- `ReadHandleStays`: nor from a read-only handle, which rests on the count of its process
  alone; unless the handle is "unseen".
- `CatalogNamesDatabase`, `RecoveryDecides`, `PurgeLeavesNothing`: where the database is
  after failed, interrupted and recovered relocations, and after a purge.
- `ImplementsStore`: every behaviour of the catalog is one of the abstract store, until
  an incident.
- `SomeCallAdvances`: an open holds the marker and wants the catalog, a purge holds the
  catalog and wants the marker; the deadline of the marker breaks the circle. It is
  stated with `Ready`, which collects from the actions what each step waits for.

### Disagreements between code and comments

1. A file reported while a scan with deletes is in flight is kept as a "later
   presence". Without a delete of its own in the pending request, the finally block
   dispatches an empty list: the file is forgotten and the workspace stays
   indexing (`scan_lost_presence`).
2. A scan deferred because the writer is busy can be overtaken by its own
   follow-up; the workspace is then ready, and the retry does nothing
   (`scan_deferred`).
3. The force-full flag is consumed when the scope is chosen. If that scan fails,
   the rebuild is forgotten and the next scan serves the old configuration as ready
   (`scan_rebuild`).
4. A failed first scan is saved as degraded without a snapshot, which the next
   start refuses (`registry_reload`). A suspended workspace that is reconciled or
   removed keeps `suspended_at`, with the same effect.
5. After an abort of the lexical worker thread the daemon removes the writer marker up to
   three times without asking whose it is, and so may remove the marker of a native
   transaction (`marker_race`). This takes a v3 workspace: the lexical work of a v4
   workspace runs in the daemon itself, not in the thread. The write lock of SQLite still
   separates single transactions; what the marker is for is lost.

### Bounds

Two changes are enough for every pair of orders that coalescing distinguishes (a
change before, during or after a scan of another; a delete and a recreate).
Two files tell "the file scanned" from "the file forgotten"; only one is deletable,
since a second deletable file adds no new branch of the merge. One fault
puts a failure or a crash at any point. `WORKSPACE_WRITER_BUSY_MAX_RETRIES` is 8
in the code and 0 or 1 here: the branches are "within the budget" and "exhausted".
The scheduler's limits are the smallest at which each can bind. In the registry two
workspaces can collide on a root, a binding or a codebase, and three codebases let
one with two members be closed; two operation identifiers allow a late result for an
operation that is no longer the current one. `UntilIncident` ends a behaviour of
run `registry` at its first incident; `RemovedIsFinal` covers what follows.

In `gc` two objects and a batch of one leave a candidate for a later call, and two
faults let the clean-up after an error fail as well. In `marker` one attempt before the
deadline already gives "tried again" and "gave up"; the worker thread and two writers of
two processes are the smallest set in which a marker is removed between its holder and
the next waiter. In `catalog` two calls of one process share its lease row and its writer
queue, and the third sees them from outside; two paths are all a relocation involves,
and a third would only make a second move independent of the first. One call may open the
database read-only: it meets purges and relocations of its own process and of the other.
A behaviour of `catalog` is followed up to the state in which a second kind of incident
happens (`Isolated`); each property excepts its own incidents, and the theorems cover
their combinations.

Deadlock is checked in `gc` and `marker`. Elsewhere it is not: once the bounds are used
up, everything has settled and stopped, or the workspace is purged, these systems
may rest; `NoStall` and `SomeCallAdvances` say what a deadlock would mean there.

### Fairness

Weak fairness for what the event loop runs by itself: delivery of watcher calls, the
aggregation timer, armed retries, the steps of a job, the sweep interval; and for a
restart, since the next client starts the daemon. None for file changes,
requests, failures or crashes. In the scheduler: a job's `run` and `publish` end, a
chained publication starts, and a lease is released or runs out. In `marker`: each
writer goes on, since it is a running thread or event loop; nothing is assumed of the
daemon's removals, so `WaitEnds` rests on the deadline alone.

## Proofs

All for every value of the constants, under the modules' named assumptions
(`SchedulerAssumption`: the options the scheduler's constructor accepts, and
that `None` is neither a job nor a workspace;
`ScanAssumption`: deletable files are files, `None` is not a buffer, bounds are
naturals; `RegistryAssumption`: identifiers of different kinds differ;
`CollectAssumption`, `MarkerAssumption`, `CatalogAssumption`, `OwnerAssumption`: "none"
values are not elements, every thread has a process, bounds are naturals, the set of
calls is finite; calls that read only are calls).

`ScanSchedulingProofs`:

- `TypeCorrect`: `Spec => []TypeOK`.
- `ScanExclusion`: `Spec => [](OneScan /\ PendingHasOwner)`. The invariant `Coherent`
  says that there is at most one job, that the in-flight set and the delete phase
  describe it, and that a pending request implies it. Its core is `DispatchCoherent`:
  whatever a dispatch finds, it leaves one scan in flight.
- `PendingOwned`: `Spec => []PendingHasOwner`, the second half of the above.
- `RebuildNotLost`: `Spec => []RebuildKept`. `RebuildKept` is not inductive: the
  invariant `RebuildInv` adds that a scan that is not full found a store, a snapshot and
  no flag when it chose its scope, and that once a scan has published only the flag can
  owe a rebuild, so that completing it, which records the snapshot, loses nothing.
- `IndexingNotStuck`: `Spec => []IndexingIsScanned`, with its two exceptions. The
  invariant `IndexingInv` adds that nothing empty is ever queued, in any watcher call,
  buffer, retry or job, so that no scan returns early on an empty scope with the workspace
  still indexing; and that a scan about to settle with the workspace indexing has left a
  request behind.

- `ChangesNotLost`: `Spec => []NoChangeLost`. The invariant `CoverInv` is stronger at
  both ends. It also speaks of the files in the scope of the scan under way, since its
  publication puts those that changed after they were read behind again. And it counts
  less as covered: a queued job only while the workspace is indexing, because it skips
  its scan otherwise, and a buffer only while no scan is in flight, because a scan that
  completes first leaves the buffer's job a workspace that is ready. `Shaped` adds that a
  job reads within its scope, `TimerInv` that only a busy deferral arms a retry.

`DaemonSchedulerProofs`, for any sets of jobs, clients, workspaces and leases, finite or
not, and any limits:

- `SchedulerTypes`, `LimitsHold`, `NeverStalls`, `PublicationsSerialised`, `StopIsQuiet`:
  the five invariants of run `scheduler`. `ReserveIsHonoured`: its action property.
- The inductive invariant has one part per promise. `Sound` says of queues, counters and
  phases that they agree pool by pool, within the limits, and that no job is in a queue
  twice; `Counted` says the same of the clients' counters. Both say that the sets they
  count are finite, which holds because jobs enter one at a time. `Leased` says that a
  stop that has returned found no job and no lease and that nothing comes after it.
- `OnePublication` is far from inductive. `Chained` says that the publications of a
  workspace that are not over can be listed in the order they were chained: each waits
  for the one before it, only the first may run, and `publicationTails` is the last.
- The loop of `pump` is handled in three steps. `PumpUnfolds` shows that its passes exist
  (by least counterexample, `Induction`, over a set). `PumpKeeps` and its companions carry
  what one `StartOne` preserves over any number of passes. `PumpWorks` shows that after
  `max_active` passes either a pass has changed nothing, and then no later one does, or
  `max_active` jobs run. So `NoStall` follows: a pump that ends with a job queued ends
  with one running (`IdleIsBusy`), whatever the reserve.

`DaemonPublicationProofs`, which extends these:

- `SchedulerImplementsOrder`: `Spec => Order!OrderSpec`. `line` is a CHOOSE, so the proof
  first shows that there is nothing to choose: `Chained` gives one listing of the
  publications of a workspace, and any other agrees with it (`LineUnique`, by the least
  position where they differ). `LineGrows` then shows that a job that joins is appended
  and moves nobody, `LineShrinks` that the end of a publication is the tail of the line,
  and `Unmoved` that all other steps, those of other workspaces included, leave it alone.

`WorkspaceRegistryProofs`:

- `RegistryTypes`: `Spec => []TypeOK`.
- `NextStartAccepts`: `Spec => []Reloadable`. The invariant `Sound` adds that the
  registry in memory is valid too, since it is what the next operation starts from.
  `ReplaceValid` (a record that passes its own checks and collides with no other) serves
  every single-record operation, `MovedValid` every intermediate save of `removeCodebase`.
- `RemovedIsFinal`: `Spec => RemovedStaysClosed`. Between operations the file is the
  registry in memory, and each partial save of an operation keeps every record that is
  removed already, so a crash and the load after it hand on what was known.

`GarbageCollectionProofs`, for any number of concurrent epochs (the run has one):

- `TypeCorrect`, `ReferencesKept`, `ReadersHeldOff`, `BarriersHaveReason`,
  `BackupsStopSweep`, `RootsHaveReaders`: the six properties of run `gc`.
- `KeptInv` adds to `ReferencedKept` that the object about to be unlinked is referred to
  by no row, or only by one counted as exposed. `SweepInv` follows the barrier through
  every step from marking to the last candidate, so that a resumed sweep has raised it
  again. `ReasonInv` adds what the clean-up has already undone between its two
  statements. `GraceInv` says that only collects named in `grace` are past their look at
  the backups while a backup row is active. `ReaderInv` adds that an append under way
  belongs to an execution that is ready or is counted as straddled.

`WriterMarkerProofs`:

- `MarkerIsTheHolders` and `MarkersHaveReason`: both invariants are inductive together
  with the types.
- `MarkerImplementsLock`: `Spec => Lock!LockSpec`. A step to `hold` is an `Acquire`: its
  guard holds because the writer's marker is on disk and, by `MarkerIsHolders`, belongs
  to whoever else would hold. Every other step is a `Leave`, a `Break` or a stutter.
- `OneWriter`: `Spec => []Lock!Exclusive`.

`StorageCatalogProofs` and `RelocationProofs`:

- `OpenDatabasesStay`, for the handles with a lease: `LockInv` says which locks a call
  holds at each of its steps, `LeaseInv` that a process's lease row counts at least its
  open handles, `QuietInv` that there is no lease while a purge or relocation is past its
  checks. That needs the catalog's writer to be held from the check to the end, since an
  open takes its lease under the same writer.
- `CatalogTypes`: `Spec => []TypeOK`. `BudgetInv` bounds a lease row from above, by the
  open handles and the releases that timed out, as `LeaseInv` does from below.
- `CatalogNamesDatabases`, `RecoveriesDecide`, `PurgesLeaveNothing`: `DiskInv` says that
  outside the incidents either everything is deleted, or exactly one path has the
  database and the row names it or the journal is there. `TaskInv` says what the call
  that holds the catalog knows of row, journal and files at each of its steps, which is
  what a crash leaves to the recovery.
- `SomeCallAlwaysAdvances`: `Spec => []SomeCallAdvances`. For this `LockInv` says both
  that a call at a step under the catalog's writer holds it, and that whoever holds the
  writer is at such a step. If the writer is free, or its holder is past its
  waits, that call goes on; if its holder waits for a marker, it takes it or gives up at
  the deadline (`NextIsWanted`: there is always a definite next marker).
- `CatalogImplementsStore`: `Spec => Store!StoreSpec`, and with it `HandlesReadDatabase`:
  `Spec => []Store!ReadsDatabase`. `DiskInv` makes `PlaceIn` the one path with the data
  (`OnePlace`), so a rename is a `Relocate` and a deletion a `Delete`; their guard,
  that nobody has the database open, is `QuietInv` with `LeaseInv` for the leased handles,
  and for the counted read-only ones that a task at `AtRisk` would have been "unseen"
  (`NobodyReads`). A handle is opened on the path of the data because an open that finds
  no file creates one, an incident.
- `ReadHandlesStay`: `Spec => []ReadHandleStays`. `ViewInv` adds that, until an incident
  "unseen", no read-only handle reads what a purge or relocation of its own process, past
  its look at the count, is about to take away (`AtRisk`).

Only model-checked: all liveness (`Converges` and `ForcedFullHappens` of scan scheduling,
`EveryJobSettles` and `StopReturns` of the work scheduler, `WaitEnds` of the marker).
Liveness under fairness is beyond the prover. Induction is used only over sets of numbers,
through the least element: the induction theorems of the library take an operator that no
installed prover can instantiate.

## Not modelled

- The v3 indexing pipeline (no longer the default), import of index packs, the lexical
  and semantic follow-ups of a scan except for the marker they take, suspension during a
  scan, the refusal of a scan job by the work scheduler (more workspaces than the client
  quota), migration of registry files of schema version 1.
- In the storage layer: registration of a workspace and its re-registration, schema
  migration, the content of a backup and its restore, snapshots and caches as roots of
  the garbage collection, and the mutations that the serialized writer runs in its
  background lane, which take no marker at all.
- `ReconciliationCoordinator` and `FreshnessBarrier` (`reconciliation.ts`) are exported but
  only tests use them; the daemon's own scheduling is `ScanScheduling`.
- `ownership.ts` keeps the single-daemon lock with the create, judge and remove steps of
  `WriterMarker`, where the same window is the incident "stolen".
- Queries, plugins, parsers, contracts and embeddings are pure computations over data too
  large to enumerate; MCP, CLI and web console present answers. They make up most of the
  repository's lines.

## Plan

1. Composition of `ScanScheduling` with `DaemonScheduler` for several workspaces: a
   refused scan job leaves a workspace indexing.
2. Composition of `StorageCatalog` with `WriterMarker`, in place of exclusive markers.
3. Re-arming of the native watcher, and its composition with `ScanScheduling`.
4. `DaemonOwnership` (`ownership.ts`).

