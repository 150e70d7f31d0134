--------------------------- MODULE ScanScheduling ---------------------------
(***************************************************************************)
(* How the daemon turns file changes into index generations, for ONE       *)
(* workspace (packages/daemon/src/runtime.ts, scheduleWorkspaceScan and    *)
(* its callers; every map of that closure is keyed by workspace), whose    *)
(* structural store is the native one (the default).                       *)
(*                                                                         *)
(*   file change -> watcher batch -> on_reconcile -> aggregation buffer    *)
(*     -> scan job -> observation of the files -> publication -> ready     *)
(*                                                                         *)
(* A request that arrives while a scan is in flight is merged into the     *)
(* pending request, which the finally block of that scan dispatches.       *)
(* Of a file's content the model keeps whether the published index, and    *)
(* the observation a running scan has made, are up to date with it.        *)
(***************************************************************************)
EXTENDS Naturals, Sequences

CONSTANTS
    Paths,        \* the source files of the workspace
    DeletePaths,  \* the files that may be deleted, renamed away or recreated
    None,         \* an absent entry of the pendingScans / aggregation maps
    MaxRetries,   \* WORKSPACE_WRITER_BUSY_MAX_RETRIES (8 in the code)
    MaxChanges,   \* bound: file-system batches
    MaxFaults     \* bound: scans that end in an error, and daemon crashes

\* The arguments of one scheduleWorkspaceScan call: full is
\* changedUris = undefined.
Request == [full: BOOLEAN, uris: SUBSET Paths, deletes: SUBSET DeletePaths]

FullRequest == [full |-> TRUE, uris |-> {}, deletes |-> {}]

ScanRequestBuffer == [full: BOOLEAN, uris: SUBSET Paths,
                      deletes: SUBSET DeletePaths, presences: SUBSET Paths]

createScanRequestBuffer ==
    [full |-> FALSE, uris |-> {}, deletes |-> {}, presences |-> {}]

FullBuffer == [createScanRequestBuffer EXCEPT !.full = TRUE]

\* The life of the job submitted to the structural pool. full: the scope sent
\* to the worker is "full" (it analyses every file again), not "reconcile" or
\* "changed" (it analyses the files whose content differs). seen: the files
\* read and not changed since.
Phases == {"queued", "opening", "walking", "published", "settling"}

Job == [req: Request, phase: Phases, full: BOOLEAN, scope: SUBSET Paths,
        todo: SUBSET Paths, seen: SUBSET Paths]

\* The scheduling maps of the closure, restricted to the workspace.
ScanMaps == [inFlight: BOOLEAN, deletePhase: BOOLEAN,
             pending: ScanRequestBuffer \cup {None},
             buffer: ScanRequestBuffer \cup {None}, jobs: SUBSET Job]

Statuses == {"indexing", "ready", "degraded", "removed"}

\* What may have happened that the properties tell apart.
Incidents == {"dropped",   \* a dispatch discarded or overwrote later presences
              "busy",      \* a scan was deferred: workspace writer busy
              "failed",    \* a scan failed terminally, or a start recorded it so
              "crash",     \* the daemon died
              "unscheduled"}  \* core:workspace_configure reopened the
                              \*   workspace without scheduling a scan

ASSUME ScanAssumption ==
    /\ DeletePaths \subseteq Paths
    /\ None \notin ScanRequestBuffer
    /\ MaxRetries \in Nat /\ MaxChanges \in Nat
    /\ MaxFaults \in Nat

VARIABLES
    behind,       \* files whose published content is not the one on disk
    watch,        \* on_reconcile calls the watcher manager has yet to make
    up,           \* the daemon process runs
    scans,        \* the scheduling maps: in flight, delete phase, pending,
                  \*   aggregation buffer, and the admitted jobs
    retryTimers,  \* requests whose delayed retry is armed
    busyRetries,  \* workspaceWriterBusyRetries
    forceFull,    \* forceFullScans has the workspace
    status,       \* registry status (persisted)
    snapshot,     \* registry current_snapshot_id is defined (persisted)
    stored,       \* the structural store holds a generation (persisted)
    rebuildOwed,  \* history: a full rebuild was asked for and not published
    unseen,       \* history: files changed without the daemon being told
    incidents,    \* history: which incidents have happened
    changes, faults  \* bounds

registry == <<status, snapshot>>
retries  == <<retryTimers, busyRetries>>
rebuild  == <<forceFull, rebuildOwed>>
vars == <<behind, watch, up, scans, retryTimers, busyRetries, forceFull,
          status, snapshot, stored, rebuildOwed,
          unseen, incidents, changes, faults>>

NoScans == [inFlight |-> FALSE, deletePhase |-> FALSE,
            pending |-> None, buffer |-> None, jobs |-> {}]

-----------------------------------------------------------------------------
(***************************************************************************)
(* Coalescing and admission                                                *)
(***************************************************************************)

\* Mutant: the latest file list replaces the earlier ones.
MergeReplaces(b, r, deletePhaseActive) ==
    LET later  == b.deletes # {} \/ deletePhaseActive
        merged == IF r.full THEN FullBuffer
                  ELSE IF later THEN [b EXCEPT !.presences = r.uris]
                  ELSE [b EXCEPT !.uris = r.uris]
    IN  [merged EXCEPT !.deletes = @ \cup r.deletes]

\* A file that arrives in a later call than a delete waits for a second
\* generation; a call without a file list supersedes the narrower work.
mergeScanRequestIntoBuffer(b, r, deletePhaseActive) ==
    LET later  == b.deletes # {} \/ deletePhaseActive
        merged == IF r.full THEN FullBuffer
                  ELSE IF later THEN [b EXCEPT !.presences = @ \cup r.uris]
                  ELSE [b EXCEPT !.uris = @ \cup r.uris]
    IN  [merged EXCEPT !.deletes = @ \cup r.deletes]

BufferOf(entry) == IF entry = None THEN createScanRequestBuffer ELSE entry

NewJob(r) == [req |-> r, phase |-> "queued", full |-> FALSE, scope |-> {},
              todo |-> {}, seen |-> {}]

\* Mutant: only aggregatable requests look at the scan in flight.
ScheduleUnguarded(s, r, aggregatable) ==
    IF aggregatable
    THEN [s EXCEPT !.buffer = mergeScanRequestIntoBuffer(
                                  BufferOf(s.buffer), r, s.deletePhase)]
    ELSE [s EXCEPT !.inFlight = TRUE,
                   !.deletePhase = s.deletePhase \/ r.deletes # {},
                   !.jobs = @ \cup {NewJob(r)}]

\* The scheduling maps after scheduleWorkspaceScan(r). Only a watcher call
\* is aggregatable.
scheduleWorkspaceScan(s, r, aggregatable) ==
    IF s.inFlight
    THEN [s EXCEPT !.pending = mergeScanRequestIntoBuffer(
                                   BufferOf(s.pending), r, s.deletePhase)]
    ELSE IF aggregatable
    THEN [s EXCEPT !.buffer = mergeScanRequestIntoBuffer(
                                  BufferOf(s.buffer), r, s.deletePhase)]
    ELSE [s EXCEPT !.inFlight = TRUE,
                   !.deletePhase = s.deletePhase \/ r.deletes # {},
                   !.jobs = @ \cup {NewJob(r)}]

\* The branching shared by flushScanAggregation and the finally block of a
\* scan: the delete generation first, the later presences as its follow-up.
Dispatch(s, b) ==
    IF b.full
    THEN scheduleWorkspaceScan(s, FullRequest, FALSE)
    ELSE IF b.deletes # {}
    THEN scheduleWorkspaceScan(
           IF b.presences = {} THEN s
           ELSE [s EXCEPT !.pending = [createScanRequestBuffer
                                         EXCEPT !.uris = b.presences]],
           [full |-> FALSE, uris |-> b.uris, deletes |-> b.deletes], FALSE)
    ELSE scheduleWorkspaceScan(
           s, [full |-> FALSE, uris |-> b.uris, deletes |-> {}], FALSE)

\* The incident, if any, of that dispatch: presences no delete precedes are
\* not dispatched, and presences parked behind a delete replace a request
\* that is already pending.
DispatchIncident(s, b) ==
    IF ~b.full /\ b.presences # {} /\ (b.deletes = {} \/ s.pending # None)
    THEN {"dropped"} ELSE {}

\* beginReconciliation: throws for a removed workspace.
Reopened == IF status = "removed" THEN "removed" ELSE "indexing"

-----------------------------------------------------------------------------
(***************************************************************************)
(* The file system and the watcher                                         *)
(***************************************************************************)

\* The on_reconcile calls for a batch that changes the files of changed and
\* deletes those of deleted (a file in both was deleted and recreated). A
\* rename travels in one call, a recreate of the same path in a second one.
BatchCalls(changed, deleted) ==
    LET recreates == changed \cap deleted
    IN  <<[full |-> FALSE, uris |-> changed \ deleted, deletes |-> deleted]>>
        \o IF recreates = {} THEN << >>
           ELSE <<[full |-> FALSE, uris |-> recreates, deletes |-> {}]>>

\* The files of written change on disk: the index is behind, and so is what a
\* running scan has read of them.
Write(written) ==
    /\ changes < MaxChanges /\ status # "removed"
    /\ changes' = changes + 1
    /\ behind' = behind \cup written
    /\ scans' = [scans EXCEPT !.jobs = {[j EXCEPT !.seen = @ \ written] : j \in @}]

\* A change the watcher reports with its paths.
FileChange(changed, deleted) ==
    /\ up
    /\ changed \cup deleted # {}
    /\ Write(changed \cup deleted)
    /\ watch' = watch \o BatchCalls(changed, deleted)
    /\ unseen' = unseen \ (changed \cup deleted)
    /\ UNCHANGED <<up, retries, rebuild, registry, stored, incidents, faults>>

\* A branch switch, events lost by the provider, a watcher reset: any file
\* may have changed, and the batch asks for the whole workspace.
UnsafeChange ==
    /\ up
    /\ Write(Paths)
    /\ watch' = Append(watch, FullRequest)
    /\ unseen' = {}
    /\ UNCHANGED <<up, retries, rebuild, registry, stored, incidents, faults>>

\* A change nobody reports: the watcher has silently died, or the daemon is
\* down.
UnreportedChange(p) ==
    /\ Write({p})
    /\ unseen' = unseen \cup {p}
    /\ UNCHANGED <<watch, up, retries, rebuild, registry, stored, incidents,
                   faults>>

\* on_reconcile of the watcher manager; the calls of a workspace are
\* delivered one after the other.
OnReconcile ==
    /\ up /\ watch # << >>
    /\ watch' = Tail(watch)
    /\ status' = Reopened
    /\ scans' = IF status = "removed" THEN scans
                ELSE scheduleWorkspaceScan(scans, Head(watch), TRUE)
    /\ UNCHANGED <<behind, changes, up, retries, rebuild, snapshot, stored,
                   unseen, incidents, faults>>

-----------------------------------------------------------------------------
(***************************************************************************)
(* The other callers of scheduleWorkspaceScan                              *)
(***************************************************************************)

\* The aggregation timer fires, or a query forces the buffer out.
flushScanAggregation ==
    /\ up /\ scans.buffer # None
    /\ scans' = Dispatch([scans EXCEPT !.buffer = None], scans.buffer)
    /\ incidents' = incidents \cup DispatchIncident(scans, scans.buffer)
    /\ UNCHANGED <<behind, changes, watch, up, retries, rebuild, registry,
                   stored, unseen, faults>>

\* Mutant: degraded workspaces are not swept.
SweepReadyOnly ==
    /\ up /\ status = "ready"
    /\ status' = "indexing"
    /\ scans' = scheduleWorkspaceScan(scans, FullRequest, FALSE)
    /\ UNCHANGED <<behind, changes, watch, up, retries, rebuild, snapshot,
                   stored, unseen, incidents, faults>>

\* The periodic reconciliation sweep.
Sweep ==
    /\ up /\ status \in {"ready", "degraded"}
    /\ status' = "indexing"
    /\ scans' = scheduleWorkspaceScan(scans, FullRequest, FALSE)
    /\ UNCHANGED <<behind, changes, watch, up, retries, rebuild, snapshot,
                   stored, unseen, incidents, faults>>

\* core:reindex; a workspace already indexing is not scheduled again.
Reindex(full) ==
    /\ up /\ status # "removed"
    /\ status' = "indexing"
    /\ forceFull' = (forceFull \/ full)
    /\ rebuildOwed' = (rebuildOwed \/ full)
    /\ scans' = IF status = "indexing" THEN scans
                ELSE scheduleWorkspaceScan(scans, FullRequest, FALSE)
    /\ UNCHANGED <<behind, changes, watch, up, retries, snapshot, stored,
                   unseen, incidents, faults>>

\* core:configuration_set with an impact on indexing: schedules a scan even
\* when the workspace is already indexing.
Configure ==
    /\ up /\ status # "removed"
    /\ status' = "indexing"
    /\ forceFull' = TRUE
    /\ rebuildOwed' = TRUE
    /\ scans' = scheduleWorkspaceScan(scans, FullRequest, FALSE)
    /\ UNCHANGED <<behind, changes, watch, up, retries, snapshot, stored,
                   unseen, incidents, faults>>

\* core:workspace_configure with an impact on indexing: beginReconciliation
\* and nothing else. No scan is scheduled and none is forced to be full.
WorkspaceConfigure ==
    /\ up /\ status # "removed"
    /\ status' = "indexing"
    /\ incidents' = incidents \cup IF status = "indexing" THEN {}
                                   ELSE {"unscheduled"}
    /\ UNCHANGED <<behind, changes, watch, up, scans, retries, rebuild,
                   snapshot, stored, unseen, faults>>

\* The setTimeout of a writer-busy deferral.
RetryFires(r) ==
    /\ up /\ r \in retryTimers
    /\ retryTimers' = retryTimers \ {r}
    /\ scans' = scheduleWorkspaceScan(scans, r, FALSE)
    /\ UNCHANGED <<behind, changes, watch, up, busyRetries, rebuild, registry,
                   stored, unseen, incidents, faults>>

\* core:workspace_remove.
Remove ==
    /\ up /\ status # "removed"
    /\ status' = "removed"
    /\ watch' = << >>
    /\ UNCHANGED <<behind, changes, up, scans, retries, rebuild, snapshot,
                   stored, unseen, incidents, faults>>

-----------------------------------------------------------------------------
(***************************************************************************)
(* One scan job                                                            *)
(***************************************************************************)

Advance(j, k) == scans' = [scans EXCEPT !.jobs = (@ \ {j}) \cup {k}]

\* Mutant: the pending request is not looked at.
FinallyForgets(j) ==
    /\ scans' = [scans EXCEPT !.inFlight = FALSE, !.deletePhase = FALSE,
                              !.jobs = @ \ {j}]
    /\ UNCHANGED <<status, incidents>>

\* The finally block: the workspace is free again and the pending request,
\* if any, becomes the next scan.
Finally(j) ==
    LET free == [scans EXCEPT !.inFlight = FALSE, !.deletePhase = FALSE,
                              !.pending = None, !.jobs = @ \ {j}]
    IN  IF scans.pending = None
        THEN scans' = free /\ UNCHANGED <<status, incidents>>
        ELSE /\ status' = Reopened
             /\ scans' = Dispatch(free, scans.pending)
             /\ incidents' = incidents \cup DispatchIncident(free, scans.pending)

\* The job finds a workspace that is not indexing and does nothing.
JobSkip(j) ==
    /\ up /\ j \in scans.jobs /\ j.phase = "queued"
    /\ status # "indexing"
    /\ Finally(j)
    /\ UNCHANGED <<behind, changes, watch, up, retries, rebuild, snapshot,
                   stored, unseen, faults>>

\* The job opens the workspace database.
JobStart(j) ==
    /\ up /\ j \in scans.jobs /\ j.phase = "queued"
    /\ status = "indexing"
    /\ Advance(j, [j EXCEPT !.phase = "opening"])
    /\ UNCHANGED <<behind, changes, watch, up, retries, rebuild, registry,
                   stored, unseen, incidents, faults>>

\* Mutant: a request without a file list is reconciled, forced or not.
FullScopeFirstOnly == ~snapshot \/ ~stored

\* selectV4ScanScope chooses "full"; or the worker has no prior generation,
\* refuses the narrower scope and is sent a full one.
FullScope == ~snapshot \/ forceFull \/ ~stored

\* The files of a request: all of them when it has no file list.
RequestPaths(r) == IF r.full THEN Paths ELSE r.uris \cup r.deletes

\* selectV4ScanScope chooses "changed", for no path at all.
EmptyScope(r) == snapshot /\ ~forceFull /\ ~r.full /\ RequestPaths(r) = {}

\* The job once its observations do not matter any more.
Past(j, phase) == [NewJob(j.req) EXCEPT !.phase = phase]

\* The job at work on its scope: every file for "full" and "reconcile".
Walking(j) ==
    LET scope == IF FullScope THEN Paths ELSE RequestPaths(j.req)
    IN  [j EXCEPT !.phase = "walking", !.full = FullScope,
                  !.scope = scope, !.todo = scope]

\* Mutant: the force-full flag is not consumed.
SelectScopeSticky(j) ==
    /\ up /\ j \in scans.jobs /\ j.phase = "opening"
    /\ Advance(j, Walking(j))
    /\ UNCHANGED <<behind, changes, watch, up, retries, rebuild, registry,
                   stored, unseen, incidents, faults>>

\* The scope decision, which consumes the force-full flag. An empty scope
\* returns without publishing and without marking the workspace ready.
selectV4ScanScope(j) ==
    /\ up /\ j \in scans.jobs /\ j.phase = "opening"
    /\ forceFull' = FALSE
    /\ IF EmptyScope(j.req)
       THEN Advance(j, Past(j, "settling")) /\ busyRetries' = 0
       ELSE Advance(j, Walking(j)) /\ UNCHANGED busyRetries
    /\ UNCHANGED <<behind, changes, watch, up, retryTimers, registry, stored,
                   rebuildOwed, unseen, incidents, faults>>

\* The worker reads one file of its scope; whatever the event said, the
\* file's present state is what counts (Walker::observe_paths).
Observe(j, p) ==
    /\ up /\ j \in scans.jobs /\ j.phase = "walking"
    /\ p \in j.todo
    /\ Advance(j, [j EXCEPT !.todo = @ \ {p}, !.seen = @ \cup {p}])
    /\ UNCHANGED <<behind, changes, watch, up, retries, rebuild, registry,
                   stored, unseen, incidents, faults>>

\* The worker publishes the generation.
Publish(j) ==
    /\ up /\ j \in scans.jobs /\ j.phase = "walking" /\ j.todo = {}
    /\ behind' = (behind \ j.scope) \cup (j.scope \ j.seen)
    /\ unseen' = unseen \ j.seen
    /\ stored' = TRUE
    /\ rebuildOwed' = IF j.full THEN forceFull ELSE rebuildOwed
    /\ Advance(j, Past(j, "published"))
    /\ UNCHANGED <<changes, watch, up, retries, forceFull, registry, incidents,
                   faults>>

\* finalizeV4WorkspaceScan: markReady(ready), which throws when the
\* workspace was removed meanwhile; the error is swallowed.
Complete(j) ==
    /\ up /\ j \in scans.jobs /\ j.phase = "published"
    /\ IF status = "removed" THEN UNCHANGED registry
       ELSE status' = "ready" /\ snapshot' = TRUE
    /\ busyRetries' = 0
    /\ Advance(j, Past(j, "settling"))
    /\ UNCHANGED <<behind, changes, watch, up, retryTimers, rebuild, stored,
                   unseen, incidents, faults>>

\* The database handle is closed and the job's promise settles.
Settle(j) ==
    /\ up /\ j \in scans.jobs /\ j.phase = "settling"
    /\ Finally(j)
    /\ UNCHANGED <<behind, changes, watch, up, retries, rebuild, snapshot,
                   stored, unseen, faults>>

\* An error reaches the catch block of the job.
Caught(j, phases) ==
    /\ up /\ j \in scans.jobs /\ j.phase \in phases
    /\ faults < MaxFaults
    /\ faults' = faults + 1

\* An outdated database is moved away and recreated empty; the catch block
\* queues one full successor.
FailOutdated(j) ==
    /\ Caught(j, {"opening"})
    /\ behind' = Paths
    /\ stored' = FALSE
    /\ scans' = [scans EXCEPT !.pending = FullBuffer,
                   !.jobs = (@ \ {j}) \cup {Past(j, "settling")}]
    /\ UNCHANGED <<changes, watch, up, retries, rebuild, registry, unseen,
                   incidents>>

\* Mutant: the retry budget is not checked.
FailBusyUncapped(j) ==
    /\ Caught(j, {"opening"})
    /\ busyRetries' = busyRetries + 1
    /\ retryTimers' = retryTimers \cup {j.req}
    /\ Advance(j, Past(j, "settling"))
    /\ incidents' = incidents \cup {"busy"}
    /\ UNCHANGED <<behind, changes, watch, up, rebuild, registry, stored,
                   unseen>>

\* storage:workspace_writer_busy from openWorkspace, within the retry budget.
FailBusy(j) ==
    /\ Caught(j, {"opening"})
    /\ busyRetries < MaxRetries
    /\ busyRetries' = busyRetries + 1
    /\ retryTimers' = retryTimers \cup {j.req}
    /\ Advance(j, Past(j, "settling"))
    /\ incidents' = incidents \cup {"busy"}
    /\ UNCHANGED <<behind, changes, watch, up, rebuild, registry, stored,
                   unseen>>

\* Any other error, or an exhausted retry budget: recordScanFailure, then
\* markReady(degraded). The request of the job is given up.
FailTerminally(j) ==
    /\ Caught(j, {"opening", "walking", "published"})
    /\ busyRetries' = 0
    /\ IF status = "removed" THEN UNCHANGED registry
       ELSE status' = "degraded" /\ UNCHANGED snapshot
    /\ Advance(j, Past(j, "settling"))
    /\ incidents' = incidents \cup {"failed"}
    /\ UNCHANGED <<behind, changes, watch, up, retryTimers, rebuild, stored,
                   unseen>>

-----------------------------------------------------------------------------
(***************************************************************************)
(* Crash and restart                                                       *)
(***************************************************************************)

\* Everything but the registry and the store is lost. What a workspace not
\* persisted as indexing still owed is known to nobody afterwards.
Crash ==
    /\ up /\ faults < MaxFaults
    /\ faults' = faults + 1
    /\ up' = FALSE
    /\ watch' = << >>
    /\ scans' = NoScans
    /\ retryTimers' = {} /\ busyRetries' = 0 /\ forceFull' = FALSE
    /\ unseen' = unseen \cup IF status = "indexing" THEN {} ELSE behind
    /\ incidents' = incidents \cup {"crash"}
    /\ UNCHANGED <<behind, changes, registry, stored, rebuildOwed>>

\* Mutant: an interrupted scan is not resumed.
RestartIdle ==
    /\ ~up /\ up' = TRUE
    /\ UNCHANGED <<behind, changes, watch, scans, retries, rebuild, registry,
                   stored, unseen, incidents, faults>>

\* DaemonRuntime.start: a workspace persisted as indexing is scanned again.
Restart ==
    /\ ~up /\ up' = TRUE
    /\ scans' = IF status = "indexing"
                THEN scheduleWorkspaceScan(scans, FullRequest, FALSE)
                ELSE scans
    /\ UNCHANGED <<behind, changes, watch, retries, rebuild, registry, stored,
                   unseen, incidents, faults>>

\* DaemonRuntime.start finds the workspace database in an outdated format: the
\* workspace is reopened, whatever its status, and its next scan is forced to
\* be full; that scan meets the same error and recreates the database.
RestartOutdated ==
    /\ ~up /\ up' = TRUE
    /\ status # "removed" /\ (status = "indexing" => snapshot)
    /\ status' = "indexing"
    /\ forceFull' = TRUE
    /\ scans' = scheduleWorkspaceScan(scans, FullRequest, FALSE)
    /\ UNCHANGED <<behind, changes, watch, retries, rebuildOwed, snapshot,
                   stored, unseen, incidents, faults>>

\* The same, when the workspace was persisted in its first scan:
\* recordScanFailure degrades it, beginReconciliation is skipped for the status
\* read before that, and the loop over the indexing workspaces passes it by.
RestartDegrades ==
    /\ ~up /\ up' = TRUE
    /\ status = "indexing" /\ ~snapshot
    /\ status' = "degraded"
    /\ forceFull' = TRUE
    /\ incidents' = incidents \cup {"failed"}
    /\ UNCHANGED <<behind, changes, watch, scans, retries, rebuildOwed, snapshot,
                   stored, unseen, faults>>

-----------------------------------------------------------------------------
\* A workspace that core:workspace_add has just confirmed: its first scan is
\* admitted and its watcher runs.
Init ==
    /\ behind = Paths
    /\ watch = << >>
    /\ up = TRUE
    /\ scans = scheduleWorkspaceScan(NoScans, FullRequest, FALSE)
    /\ retryTimers = {} /\ busyRetries = 0 /\ forceFull = FALSE
    /\ status = "indexing" /\ snapshot = FALSE
    /\ stored = FALSE /\ rebuildOwed = FALSE
    /\ unseen = {} /\ incidents = {}
    /\ changes = 0 /\ faults = 0

Fails(j) ==
    \/ FailOutdated(j)
    \/ FailBusy(j)
    \/ FailTerminally(j)

\* What the daemon does by itself, once there is something to do.
JobStep(j) ==
    \/ JobSkip(j)
    \/ JobStart(j)
    \/ selectV4ScanScope(j)
    \/ \E p \in Paths : Observe(j, p)
    \/ Publish(j)
    \/ Complete(j)
    \/ Settle(j)

Next ==
    \/ \E changed \in SUBSET Paths, deleted \in SUBSET DeletePaths :
           FileChange(changed, deleted)
    \/ UnsafeChange
    \/ \E p \in Paths : UnreportedChange(p)
    \/ OnReconcile
    \/ flushScanAggregation
    \/ Sweep
    \/ \E full \in BOOLEAN : Reindex(full)
    \/ Configure
    \/ WorkspaceConfigure
    \/ \E r \in Request : RetryFires(r)
    \/ Remove
    \/ \E j \in scans.jobs : JobStep(j)
    \/ \E j \in scans.jobs : Fails(j)
    \/ Crash
    \/ Restart
    \/ RestartOutdated
    \/ RestartDegrades

Spec == Init /\ [][Next]_vars

\* The event loop runs every ready callback: queued watcher deliveries, the
\* timers, the jobs of the scheduler, the sweep interval; a crashed daemon
\* is started again by the next client.
Fairness ==
    /\ WF_vars(OnReconcile)
    /\ WF_vars(flushScanAggregation)
    /\ WF_vars(Sweep)
    /\ WF_vars(\E r \in retryTimers : RetryFires(r))
    /\ WF_vars(\E j \in scans.jobs : JobStep(j))
    /\ WF_vars(Restart)

FairSpec == Spec /\ Fairness

-----------------------------------------------------------------------------
(***************************************************************************)
(* Properties                                                              *)
(***************************************************************************)

\* Every variable keeps the shape the code gives it.
TypeOK ==
    /\ behind \in SUBSET Paths
    /\ watch \in Seq(Request)
    /\ up \in BOOLEAN
    /\ scans \in ScanMaps
    /\ retryTimers \in SUBSET Request
    /\ busyRetries \in 0 .. MaxRetries
    /\ forceFull \in BOOLEAN
    /\ status \in Statuses /\ snapshot \in BOOLEAN
    /\ stored \in BOOLEAN
    /\ rebuildOwed \in BOOLEAN
    /\ unseen \in SUBSET Paths /\ incidents \in SUBSET Incidents
    /\ changes \in 0 .. MaxChanges /\ faults \in 0 .. MaxFaults

\* scanInFlight keeps two scans from opening the same workspace database at
\* once: there is never more than one admitted job, and the set says so
\* exactly while there is one (runtime.ts, scanInFlight).
OneScan ==
    /\ \A j, k \in scans.jobs : j = k
    /\ scans.inFlight <=> scans.jobs # {}

\* A request parked in pendingScans always has a scan in flight whose finally
\* block will dispatch it; a delete phase belongs to a scan with deletes.
PendingHasOwner ==
    /\ scans.pending # None => scans.inFlight
    /\ scans.deletePhase <=> \E j \in scans.jobs : j.req.deletes # {}

BufferPaths(b) == IF b = None THEN {}
                  ELSE IF b.full THEN Paths
                  ELSE b.uris \cup b.deletes \cup b.presences

\* The files some part of the daemon still has to look at.
Owed ==
    (UNION {RequestPaths(watch[i]) : i \in DOMAIN watch})
    \cup BufferPaths(scans.buffer) \cup BufferPaths(scans.pending)
    \cup (UNION {RequestPaths(r) : r \in retryTimers})
    \cup (UNION {RequestPaths(j.req) :
                   j \in {k \in scans.jobs : k.phase \in {"queued", "opening"}}})
    \cup (UNION {j.todo \cup j.seen :
                   j \in {k \in scans.jobs : k.phase = "walking"}})
    \cup (IF ~up /\ status = "indexing" THEN Paths ELSE {})

Accounted == status # "removed" => behind \subseteq Owed \cup unseen

\* No reported change is forgotten: a file whose published content is out of
\* date is still to be looked at by an undelivered watcher call, a buffer, a
\* scan or the scan a restart will start ("instead of dropping them", the
\* finally block of scheduleWorkspaceScan). The three incidents that break
\* it are excluded by name; crashes, coalescing, deletes, renames, sweeps and
\* files that change under a scan are not.
NoChangeLost == incidents \cap {"dropped", "busy", "failed"} = {} => Accounted

ScanOwed ==
    \/ scans.inFlight \/ scans.buffer # None
    \/ retryTimers # {} \/ ~up

\* A workspace shown as indexing is going to be scanned. The sweep, a
\* reindex and a repeated workspace_add all skip a workspace that is
\* indexing, so one without a scan ahead of it would stay so. Two ways into
\* that state are excepted by name, and there is no third: a dispatch that
\* has dropped later presences, and core:workspace_configure, which reopens
\* the workspace and schedules nothing (runtime.ts:5350).
IndexingIsScanned ==
    incidents \cap {"dropped", "unscheduled"} = {} /\ status = "indexing"
        => ScanOwed

\* A full rebuild that was asked for (core:reindex, a configuration change)
\* and not yet published is what the running scan does or the next scan will
\* do; a flag consumed by a scan that then failed, or lost in a crash, is
\* gone.
RebuildOnItsWay ==
    rebuildOwed => FullScope \/ \E j \in scans.jobs : j.phase = "walking" /\ j.full

RebuildKept ==
    incidents \cap {"failed", "crash"} = {} => RebuildOnItsWay

\* Shown as indexing with no scan ahead: the state IndexingIsScanned is about.
Stranded == status = "indexing" /\ ~ScanOwed

\* Convergence: once files stop changing and scans stop failing, the
\* published index matches the disk, whatever was lost on the way: the sweep
\* repairs silent watcher losses, failures, deferrals, dropped presences and
\* crashes. The one state it cannot repair is a stranded workspace, which it
\* skips; an incident that did not strand the workspace is no excuse.
Converges == <>[](behind = {} \/ status = "removed" \/ Stranded)

\* core:reindex during a scan "forces the NEXT one full": there is a next
\* scan, although core:reindex schedules none while the workspace indexes,
\* unless the workspace gets stranded.
ForcedFullHappens ==
    forceFull ~> (~forceFull \/ status = "removed" \/ Stranded)

(***************************************************************************)
(* What comments of the code promise and the code does not keep            *)
(***************************************************************************)

\* IndexingIsScanned without its first exception: one follow-up scan runs "for
\* every hint that arrived while this scan was in flight, instead of
\* dropping them".
IndexingAlwaysScanned ==
    "unscheduled" \notin incidents /\ status = "indexing" => ScanOwed

\* NoChangeLost when writer-busy deferrals may happen: the "short, capped,
\* delayed retry" of a deferred scan is enough.
DeferredScanKept == incidents \cap {"dropped", "failed"} = {} => Accounted

\* A workspace at rest and ready has had every requested rebuild done, or
\* flagged for its next scan: it is never left "serving results built under
\* the STALE configuration forever". A crash, which forgets the flag, is
\* excluded.
ReadyServesConfiguration ==
    "crash" \notin incidents /\ status = "ready" /\ ~scans.inFlight
        => (rebuildOwed => forceFull)

=============================================================================
