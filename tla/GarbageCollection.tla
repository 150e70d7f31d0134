-------------------------- MODULE GarbageCollection --------------------------
(***************************************************************************)
(* Garbage collection of the content-addressed store (CAS) against the     *)
(* operations that refer to its objects: packages/storage/src/lifecycle.ts *)
(* (StorageMaintenance.collect and createBackup,                           *)
(* WorkspaceLifecycleRepository) and the recovery of storage.ts.           *)
(*                                                                         *)
(* Every await of the code is a step of its own: collect reads the roots,  *)
(* lists the store, re-reads the roots before each deletion and deletes in *)
(* four steps, and a writer stores an object before it writes the row that *)
(* refers to it.  The rows and the store survive a crash, the operations   *)
(* under way do not.                                                       *)
(*                                                                         *)
(* One workspace database and its executions stand for all of them; a      *)
(* reference is flat (the closure of a manifest is its own object).        *)
(***************************************************************************)
EXTENDS Naturals, FiniteSets, FiniteSetsExt

CONSTANTS Objects,      \* content hashes
          Executions,   \* query executions, each appending one segment at a time
          Epochs,       \* garbage-collection epoch identifiers
          BatchSize,    \* objects one call of collect looks at
          NoObject,     \* no object
          MaxFaults,    \* bound: steps of collect, of a backup or of an append that throw
          MaxCrashes    \* bound: crashes of the daemon

ASSUME CollectAssumption ==
    /\ NoObject \notin Objects
    /\ BatchSize \in Nat \ {0} /\ MaxFaults \in Nat /\ MaxCrashes \in Nat

VARIABLES
    cas,        \* objects in the store
    execution,  \* query_executions.execution_status; "created" is a check passed
    segments,   \* query_manifest_segments and lifecycle_roots of an execution
    appendPc,   \* appendManifestSegment of an execution
    appending,  \* the object it appends
    pin,        \* lifecycle_cas_pins; "checked" is a pinCasObject past the barrier
    epoch,      \* garbage_collection_epochs.state
    candidate,  \* garbage_collection_candidates
    barrier,    \* installation_gc_barriers.state, in the catalog
    pc,         \* collect of an epoch
    roots,      \* the hashes collect found reachable when it last looked
    batch,      \* the candidates this call still looks at
    object,     \* the candidate being decided
    backup,     \* the row of backup_barriers a running backup wrote is active
    abandoned,  \* a row a crashed or failed backup left active
    backupPc,   \* createBackup
    process,    \* the daemon: "up", "down", or after the first recovery step
    faults, crashes,
    exposed,    \* history: objects referred to after collect gave them up
    straddled,  \* history: executions that expired with an append under way
    grace,      \* history: collects past their backup check when a backup began
    unreleased  \* history: epochs whose clean-up after an error failed

rows == <<execution, segments, pin, epoch, candidate, barrier, backup, abandoned>>
collector == <<pc, roots, batch, object>>
writers == <<appendPc, appending>>
history == <<exposed, straddled, grace, unreleased>>
vars == <<cas, rows, writers, collector, backupPc, process, faults, crashes, history>>

CollectPcs == {"idle", "marking", "insert", "roots", "list", "marked", "barrier",
               "select", "check", "fresh", "unlink", "deleted", "finish",
               "complete", "failed", "release"}
\* The steps between the backup check of a candidate and its deletion.
PastCheck == {"fresh", "unlink"}

TypeOK ==
    /\ cas \in SUBSET Objects
    /\ execution \in [Executions -> {"none", "checked", "ready", "expired"}]
    /\ segments \in [Executions -> SUBSET Objects]
    /\ appendPc \in [Executions -> {"idle", "put", "insert"}]
    /\ appending \in [Executions -> Objects \cup {NoObject}]
    /\ pin \in [Objects -> {"none", "checked", "pinned"}]
    /\ epoch \in [Epochs -> {"none", "marking", "sweeping", "completed", "failed",
                             "recovered"}]
    /\ candidate \in [Epochs -> [Objects -> {"none", "pending", "deleted", "retained"}]]
    /\ barrier \in [Epochs -> {"none", "marking", "sweeping", "completed"}]
    /\ pc \in [Epochs -> CollectPcs]
    /\ roots \in [Epochs -> SUBSET Objects]
    /\ batch \in [Epochs -> SUBSET Objects]
    /\ object \in [Epochs -> Objects \cup {NoObject}]
    /\ backup \in BOOLEAN
    /\ abandoned \in BOOLEAN
    /\ backupPc \in {"idle", "checked", "copying"}
    /\ process \in {"up", "down", "barriers"}
    /\ faults \in 0..MaxFaults
    /\ crashes \in 0..MaxCrashes
    /\ exposed \in SUBSET Objects
    /\ straddled \in SUBSET Executions
    /\ grace \in SUBSET Epochs
    /\ unreleased \in SUBSET Epochs

Init ==
    /\ cas = {}
    /\ execution = [x \in Executions |-> "none"]
    /\ segments = [x \in Executions |-> {}]
    /\ appendPc = [x \in Executions |-> "idle"]
    /\ appending = [x \in Executions |-> NoObject]
    /\ pin = [o \in Objects |-> "none"]
    /\ epoch = [e \in Epochs |-> "none"]
    /\ candidate = [e \in Epochs |-> [o \in Objects |-> "none"]]
    /\ barrier = [e \in Epochs |-> "none"]
    /\ pc = [e \in Epochs |-> "idle"]
    /\ roots = [e \in Epochs |-> {}]
    /\ batch = [e \in Epochs |-> {}]
    /\ object = [e \in Epochs |-> NoObject]
    /\ backup = FALSE
    /\ abandoned = FALSE
    /\ backupPc = "idle"
    /\ process = "up"
    /\ faults = 0
    /\ crashes = 0
    /\ exposed = {}
    /\ straddled = {}
    /\ grace = {}
    /\ unreleased = {}

\* reachableHashesAllWorkspaces: the objects some row refers to.
Reachable ==
    {o \in Objects : pin[o] = "pinned" \/ \E x \in Executions : o \in segments[x]}

\* The rows that hold readers off: the epochs of the workspace and the barriers
\* of the installation.
BarrierRows == {e \in Epochs : epoch[e] \in {"marking", "sweeping"}
                               \/ barrier[e] \in {"marking", "sweeping"}}
hasActiveGcBarrier == BarrierRows # {}
hasActiveBackupBarrier == backup \/ abandoned

\* A row that refers to o is written.  A collect that has decided to delete o,
\* or has deleted it, does not see the row.
GivenUp(o) == o \notin cas \/ \E e \in Epochs : pc[e] = "unlink" /\ object[e] = o
Refer(o) == exposed' = IF GivenUp(o) THEN exposed \cup {o} ELSE exposed

-----------------------------------------------------------------------------
(* Operations that refer to objects.                                        *)

Up == process = "up"

\* createExecution: assertReaderBarrierClear, and later the row.
createExecutionCheck(x) ==
    /\ Up
    /\ execution[x] = "none"
    /\ ~hasActiveGcBarrier
    /\ execution' = [execution EXCEPT ![x] = "checked"]
    /\ UNCHANGED <<cas, segments, pin, epoch, candidate, barrier, backup, abandoned,
                   writers, collector, backupPc, process, faults, crashes, history>>

createExecutionInsert(x) ==
    /\ execution[x] = "checked"
    /\ execution' = [execution EXCEPT ![x] = "ready"]
    /\ UNCHANGED <<cas, segments, pin, epoch, candidate, barrier, backup, abandoned,
                   writers, collector, backupPc, process, faults, crashes, history>>

createExecutionFails(x) ==
    /\ execution[x] = "checked"
    /\ execution' = [execution EXCEPT ![x] = "none"]
    /\ UNCHANGED <<cas, segments, pin, epoch, candidate, barrier, backup, abandoned,
                   writers, collector, backupPc, process, faults, crashes, history>>

\* Mutant: the rows of the manifest segments are left behind.
expireExecutionsOnly(x) ==
    /\ Up
    /\ execution[x] = "ready"
    /\ execution' = [execution EXCEPT ![x] = "expired"]
    /\ straddled' = IF appendPc[x] = "idle" THEN straddled ELSE straddled \cup {x}
    /\ UNCHANGED <<cas, segments, pin, epoch, candidate, barrier, backup, abandoned,
                   writers, collector, backupPc, process, faults, crashes, exposed,
                   grace, unreleased>>

\* expireExecutions: one transaction drops the rows of the execution.
expireExecutions(x) ==
    /\ Up
    /\ execution[x] = "ready"
    /\ execution' = [execution EXCEPT ![x] = "expired"]
    /\ segments' = [segments EXCEPT ![x] = {}]
    /\ straddled' = IF appendPc[x] = "idle" THEN straddled ELSE straddled \cup {x}
    /\ UNCHANGED <<cas, pin, epoch, candidate, barrier, backup, abandoned, writers,
                   collector, backupPc, process, faults, crashes, exposed, grace,
                   unreleased>>

\* appendManifestSegment asks for a ready execution first and only then stores
\* the object; it consults no barrier.
appendCheck(x, o) ==
    /\ Up
    /\ appendPc[x] = "idle"
    /\ execution[x] = "ready"
    /\ o \notin segments[x]
    /\ appendPc' = [appendPc EXCEPT ![x] = "put"]
    /\ appending' = [appending EXCEPT ![x] = o]
    /\ UNCHANGED <<cas, rows, collector, backupPc, process, faults, crashes, history>>

\* cas.put links the object, or finds that the store already has it.
appendPut(x) ==
    /\ appendPc[x] = "put"
    /\ cas' = cas \cup {appending[x]}
    /\ appendPc' = [appendPc EXCEPT ![x] = "insert"]
    /\ exposed' = IF \E e \in Epochs : pc[e] = "unlink" /\ object[e] = appending[x]
                  THEN exposed ELSE exposed \ {appending[x]}
    /\ UNCHANGED <<rows, appending, collector, backupPc, process, faults, crashes,
                   straddled, grace, unreleased>>

\* Mutant: the object is forgotten before the row is written.
appendInsertForgotten(x) ==
    /\ appendPc[x] = "insert"
    /\ appending' = [appending EXCEPT ![x] = NoObject]
    /\ segments' = [segments EXCEPT ![x] = @ \cup {appending'[x]}]
    /\ Refer(appending[x])
    /\ appendPc' = [appendPc EXCEPT ![x] = "idle"]
    /\ UNCHANGED <<cas, execution, pin, epoch, candidate, barrier, backup, abandoned,
                   collector, backupPc, process, faults, crashes, straddled, grace,
                   unreleased>>

\* The rows of the segment, whatever has become of the execution.
appendInsert(x) ==
    /\ appendPc[x] = "insert"
    /\ segments' = [segments EXCEPT ![x] = @ \cup {appending[x]}]
    /\ Refer(appending[x])
    /\ appendPc' = [appendPc EXCEPT ![x] = "idle"]
    /\ appending' = [appending EXCEPT ![x] = NoObject]
    /\ UNCHANGED <<cas, execution, pin, epoch, candidate, barrier, backup, abandoned,
                   collector, backupPc, process, faults, crashes, straddled, grace,
                   unreleased>>

\* The store or the database refuses: an object that was stored stays there.
appendFails(x) ==
    /\ faults < MaxFaults
    /\ faults' = faults + 1
    /\ appendPc[x] # "idle"
    /\ appendPc' = [appendPc EXCEPT ![x] = "idle"]
    /\ appending' = [appending EXCEPT ![x] = NoObject]
    /\ UNCHANGED <<cas, rows, collector, backupPc, process, crashes, history>>

\* pinCasObject of an object the caller has seen: the barrier, then the row.
pinCheck(o) ==
    /\ Up
    /\ pin[o] = "none"
    /\ o \in cas
    /\ ~hasActiveGcBarrier
    /\ pin' = [pin EXCEPT ![o] = "checked"]
    /\ UNCHANGED <<cas, execution, segments, epoch, candidate, barrier, backup,
                   abandoned, writers, collector, backupPc, process, faults, crashes,
                   history>>

pinInsert(o) ==
    /\ pin[o] = "checked"
    /\ pin' = [pin EXCEPT ![o] = "pinned"]
    /\ Refer(o)
    /\ UNCHANGED <<cas, execution, segments, epoch, candidate, barrier, backup,
                   abandoned, writers, collector, backupPc, process, faults, crashes,
                   straddled, grace, unreleased>>

pinFails(o) ==
    /\ pin[o] = "checked"
    /\ pin' = [pin EXCEPT ![o] = "none"]
    /\ UNCHANGED <<cas, execution, segments, epoch, candidate, barrier, backup,
                   abandoned, writers, collector, backupPc, process, faults, crashes,
                   history>>

-----------------------------------------------------------------------------
(* StorageMaintenance.collect of epoch e: one call at a time.               *)

Goto(e, from, to) == pc[e] = from /\ pc' = [pc EXCEPT ![e] = to]
Pending(e) == {o \in Objects : candidate[e][o] = "pending"}

\* Mutant: a sweep is taken up where it was left, its barrier taken for granted.
collectResumed(e) ==
    /\ Up
    /\ pc[e] = "idle"
    /\ pc' = [pc EXCEPT ![e] =
                 IF hasActiveBackupBarrier THEN "failed"
                 ELSE CASE epoch[e] \in {"sweeping", "completed"} -> "select"
                        [] OTHER -> "marking"]
    /\ unreleased' = unreleased \ {e}
    /\ UNCHANGED <<cas, rows, writers, roots, batch, object, backupPc, process,
                   faults, crashes, exposed, straddled, grace>>

\* The call: a backup sends it away, the state of the epoch decides where it
\* takes up the work.
collect(e) ==
    /\ Up
    /\ pc[e] = "idle"
    /\ pc' = [pc EXCEPT ![e] =
                 IF hasActiveBackupBarrier THEN "failed"
                 ELSE CASE epoch[e] = "sweeping" -> "barrier"
                        [] epoch[e] = "completed" -> "select"
                        [] OTHER -> "marking"]
    /\ unreleased' = unreleased \ {e}
    /\ UNCHANGED <<cas, rows, writers, roots, batch, object, backupPc, process,
                   faults, crashes, exposed, straddled, grace>>

\* setGlobalBarrier(e, "marking").
raiseBarrier(e) ==
    /\ Goto(e, "marking", IF epoch[e] = "none" THEN "insert" ELSE "roots")
    /\ barrier' = [barrier EXCEPT ![e] = "marking"]
    /\ UNCHANGED <<cas, execution, segments, pin, epoch, candidate, backup, abandoned,
                   writers, roots, batch, object, backupPc, process, faults, crashes,
                   history>>

insertEpoch(e) ==
    /\ Goto(e, "insert", "roots")
    /\ epoch' = [epoch EXCEPT ![e] = "marking"]
    /\ UNCHANGED <<cas, execution, segments, pin, candidate, barrier, backup,
                   abandoned, writers, roots, batch, object, backupPc, process, faults,
                   crashes, history>>

readRoots(e) ==
    /\ Goto(e, "roots", "list")
    /\ roots' = [roots EXCEPT ![e] = Reachable]
    /\ UNCHANGED <<cas, rows, writers, batch, object, backupPc, process, faults,
                   crashes, history>>

\* listCasHashes, and the candidates that replace those of an earlier attempt:
\* DELETE and INSERT belong to the step, since nobody reads the candidates of
\* an epoch that is not sweeping.
listCandidates(e) ==
    /\ Goto(e, "list", "marked")
    /\ candidate' = [candidate EXCEPT ![e] =
                       [o \in Objects |-> IF o \in cas \ roots[e] THEN "pending"
                                          ELSE "none"]]
    /\ roots' = [roots EXCEPT ![e] = {}]
    /\ UNCHANGED <<cas, execution, segments, pin, epoch, barrier, backup, abandoned,
                   writers, batch, object, backupPc, process, faults, crashes,
                   history>>

startSweep(e) ==
    /\ Goto(e, "marked", "barrier")
    /\ epoch' = [epoch EXCEPT ![e] = "sweeping"]
    /\ UNCHANGED <<cas, execution, segments, pin, candidate, barrier, backup,
                   abandoned, writers, roots, batch, object, backupPc, process, faults,
                   crashes, history>>

\* setGlobalBarrier(e, "sweeping").
sweepBarrier(e) ==
    /\ Goto(e, "barrier", "select")
    /\ barrier' = [barrier EXCEPT ![e] = "sweeping"]
    /\ UNCHANGED <<cas, execution, segments, pin, epoch, candidate, backup, abandoned,
                   writers, roots, batch, object, backupPc, process, faults, crashes,
                   history>>

\* The candidates of this call, in the order of their hashes.
selectBatch(e) ==
    /\ Goto(e, "select", "check")
    /\ \E b \in SUBSET Pending(e) :
         /\ Cardinality(b) = Min({BatchSize, Cardinality(Pending(e))})
         /\ batch' = [batch EXCEPT ![e] = b]
    /\ UNCHANGED <<cas, rows, writers, roots, object, backupPc, process, faults,
                   crashes, history>>

\* Mutant: a backup is looked for once per call only.
checkBackupOnce(e) ==
    /\ batch[e] # {}
    /\ Goto(e, "check", "fresh")
    /\ \E o \in batch[e] :
         /\ batch' = [batch EXCEPT ![e] = @ \ {o}]
         /\ object' = [object EXCEPT ![e] = o]
    /\ UNCHANGED <<cas, rows, writers, roots, backupPc, process, faults, crashes,
                   history>>

\* The next candidate, unless a backup has begun.
checkBackup(e) ==
    /\ batch[e] # {}
    /\ Goto(e, "check", IF hasActiveBackupBarrier THEN "failed" ELSE "fresh")
    /\ \E o \in batch[e] :
         IF hasActiveBackupBarrier
         THEN batch' = [batch EXCEPT ![e] = {}] /\ object' = object
         ELSE /\ batch' = [batch EXCEPT ![e] = @ \ {o}]
              /\ object' = [object EXCEPT ![e] = o]
    /\ UNCHANGED <<cas, rows, writers, roots, backupPc, process, faults, crashes,
                   history>>

\* Mutant: the roots read when the candidates were listed are relied on.
markedRoots(e) ==
    /\ Goto(e, "fresh", "unlink")
    /\ UNCHANGED <<cas, rows, writers, roots, batch, object, backupPc, process, faults,
                   crashes, history>>

\* The roots are read again: a candidate referred to since is retained.
freshRoots(e) ==
    /\ Goto(e, "fresh", IF object[e] \in Reachable THEN "check" ELSE "unlink")
    /\ candidate' = IF object[e] \in Reachable
                    THEN [candidate EXCEPT ![e][object[e]] = "retained"]
                    ELSE candidate
    /\ object' = IF object[e] \in Reachable THEN [object EXCEPT ![e] = NoObject] ELSE object
    /\ UNCHANGED <<cas, execution, segments, pin, epoch, barrier, backup, abandoned,
                   writers, roots, batch, backupPc, process, faults, crashes,
                   history>>

unlink(e) ==
    /\ Goto(e, "unlink", "deleted")
    /\ cas' = cas \ {object[e]}
    /\ grace' = grace \ {e}
    /\ UNCHANGED <<rows, writers, roots, batch, object, backupPc, process, faults,
                   crashes, exposed, straddled, unreleased>>

markDeleted(e) ==
    /\ Goto(e, "deleted", "check")
    /\ candidate' = [candidate EXCEPT ![e][object[e]] = "deleted"]
    /\ object' = [object EXCEPT ![e] = NoObject]
    /\ UNCHANGED <<cas, execution, segments, pin, epoch, barrier, backup, abandoned,
                   writers, roots, batch, backupPc, process, faults, crashes,
                   history>>

\* The end of the batch: the epoch is completed, or left for a later call.
finishBatch(e) ==
    /\ batch[e] = {}
    /\ Goto(e, "check", IF Pending(e) = {} THEN "complete" ELSE "idle")
    /\ epoch' = [epoch EXCEPT ![e] = IF Pending(e) = {} THEN "completed" ELSE "sweeping"]
    /\ UNCHANGED <<cas, execution, segments, pin, candidate, barrier, backup,
                   abandoned, writers, roots, batch, object, backupPc, process, faults,
                   crashes, history>>

\* setGlobalBarrier(e, "completed").
lowerBarrier(e) ==
    /\ Goto(e, "complete", "idle")
    /\ barrier' = [barrier EXCEPT ![e] = "completed"]
    /\ UNCHANGED <<cas, execution, segments, pin, epoch, candidate, backup, abandoned,
                   writers, roots, batch, object, backupPc, process, faults, crashes,
                   history>>

\* A step of the attempt throws: a database or the file system refuses it.
collectThrows(e) ==
    /\ faults < MaxFaults
    /\ pc[e] \notin {"idle", "failed", "release"}
    /\ pc' = [pc EXCEPT ![e] = "failed"]
    /\ roots' = [roots EXCEPT ![e] = {}]
    /\ batch' = [batch EXCEPT ![e] = {}]
    /\ object' = [object EXCEPT ![e] = NoObject]
    /\ faults' = faults + 1
    /\ UNCHANGED <<cas, rows, writers, backupPc, process,
                   crashes, history>>

\* The two clean-up statements of collect, whose own errors are swallowed.
Cleanup(e, failing) ==
    /\ faults' = IF failing THEN faults + 1 ELSE faults
    /\ faults' <= MaxFaults
    /\ unreleased' = IF failing THEN unreleased \cup {e} ELSE unreleased

markEpochFailed(e, failing) ==
    /\ Goto(e, "failed", "release")
    /\ Cleanup(e, failing)
    /\ epoch' = IF ~failing /\ epoch[e] \in {"marking", "sweeping"}
                THEN [epoch EXCEPT ![e] = "failed"] ELSE epoch
    /\ UNCHANGED <<cas, execution, segments, pin, candidate, barrier, backup,
                   abandoned, writers, roots, batch, object, backupPc, process,
                   crashes, exposed, straddled, grace>>

releaseBarrier(e, failing) ==
    /\ Goto(e, "release", "idle")
    /\ Cleanup(e, failing)
    /\ barrier' = IF failing THEN barrier ELSE [barrier EXCEPT ![e] = "completed"]
    /\ UNCHANGED <<cas, execution, segments, pin, epoch, candidate, backup, abandoned,
                   writers, roots, batch, object, backupPc, process, crashes, exposed,
                   straddled, grace>>

-----------------------------------------------------------------------------
(* createBackup.                                                            *)

backupCheck ==
    /\ Up
    /\ backupPc = "idle"
    /\ ~hasActiveGcBarrier
    /\ backupPc' = "checked"
    /\ UNCHANGED <<cas, rows, writers, collector, process, faults, crashes, history>>

backupBegin ==
    /\ backupPc = "checked"
    /\ backupPc' = "copying"
    /\ backup' = TRUE
    /\ grace' = {e \in Epochs : pc[e] \in PastCheck}
    /\ UNCHANGED <<cas, execution, segments, pin, epoch, candidate, barrier, abandoned,
                   writers, collector, process, faults, crashes, exposed, straddled,
                   unreleased>>

\* The barrier is lowered whether the copy is published or the backup fails; an
\* update of the row that fails after a failed backup is swallowed.
backupEnd ==
    /\ backupPc = "copying"
    /\ backupPc' = "idle"
    /\ backup' = FALSE
    /\ \/ abandoned' = abandoned /\ faults' = faults
       \/ abandoned' = TRUE /\ faults < MaxFaults /\ faults' = faults + 1
    /\ UNCHANGED <<cas, execution, segments, pin, epoch, candidate, barrier,
                   writers, collector, process, crashes, history>>

-----------------------------------------------------------------------------
(* A crash, and the recovery of DurableStorage.open before anything else.   *)

crash ==
    /\ crashes < MaxCrashes
    /\ process # "down"
    /\ crashes' = crashes + 1
    /\ process' = "down"
    /\ execution' = [x \in Executions |->
                       IF execution[x] = "checked" THEN "none" ELSE execution[x]]
    /\ pin' = [o \in Objects |-> IF pin[o] = "checked" THEN "none" ELSE pin[o]]
    /\ appendPc' = [x \in Executions |-> "idle"]
    /\ appending' = [x \in Executions |-> NoObject]
    /\ pc' = [e \in Epochs |-> "idle"]
    /\ roots' = [e \in Epochs |-> {}]
    /\ batch' = [e \in Epochs |-> {}]
    /\ object' = [e \in Epochs |-> NoObject]
    /\ backupPc' = "idle"
    /\ backup' = FALSE
    /\ abandoned' = (abandoned \/ backup)
    /\ grace' = {}
    /\ UNCHANGED <<cas, segments, epoch, candidate, barrier, faults, exposed, straddled, unreleased>>

\* Mutant: only sweeps are recovered.
recoverSweepBarriers ==
    /\ process = "down"
    /\ process' = "barriers"
    /\ barrier' = [e \in Epochs |-> IF barrier[e] = "sweeping" THEN "completed"
                                    ELSE barrier[e]]
    /\ UNCHANGED <<cas, execution, segments, pin, epoch, candidate, backup, abandoned,
                   writers, collector, backupPc, faults, crashes, history>>

recoverGcBarriers ==
    /\ process = "down"
    /\ process' = "barriers"
    /\ barrier' = [e \in Epochs |-> IF barrier[e] \in {"marking", "sweeping"}
                                    THEN "completed" ELSE barrier[e]]
    /\ UNCHANGED <<cas, execution, segments, pin, epoch, candidate, backup, abandoned,
                   writers, collector, backupPc, faults, crashes, history>>

recoverWorkspaceGcEpochs ==
    /\ process = "barriers"
    /\ process' = "up"
    /\ epoch' = [e \in Epochs |-> IF epoch[e] \in {"marking", "sweeping"}
                                  THEN "recovered" ELSE epoch[e]]
    /\ unreleased' = {}
    /\ UNCHANGED <<cas, execution, segments, pin, candidate, barrier, backup,
                   abandoned, writers, collector, backupPc, faults, crashes, exposed,
                   straddled, grace>>

-----------------------------------------------------------------------------
Collect(e) ==
    \/ collect(e) \/ raiseBarrier(e) \/ insertEpoch(e) \/ readRoots(e)
    \/ listCandidates(e) \/ startSweep(e) \/ sweepBarrier(e) \/ selectBatch(e)
    \/ checkBackup(e) \/ freshRoots(e) \/ unlink(e) \/ markDeleted(e)
    \/ finishBatch(e) \/ lowerBarrier(e) \/ collectThrows(e)
    \/ \E failing \in BOOLEAN : markEpochFailed(e, failing) \/ releaseBarrier(e, failing)

Use(x) ==
    \/ createExecutionCheck(x) \/ createExecutionInsert(x) \/ createExecutionFails(x)
    \/ expireExecutions(x)
    \/ \E o \in Objects : appendCheck(x, o)
    \/ appendPut(x) \/ appendInsert(x) \/ appendFails(x)

Next ==
    \/ \E e \in Epochs : Collect(e)
    \/ \E x \in Executions : Use(x)
    \/ \E o \in Objects : pinCheck(o) \/ pinInsert(o) \/ pinFails(o)
    \/ backupCheck \/ backupBegin \/ backupEnd
    \/ crash \/ recoverGcBarriers \/ recoverWorkspaceGcEpochs

Spec == Init /\ [][Next]_vars

-----------------------------------------------------------------------------
(* Properties.                                                              *)

\* An object some row refers to is in the store, whatever the interleaving of
\* collects, appends, pins, crashes and resumed epochs.  The one exception is a
\* row written in the window between the last reading of the roots and the
\* deletion, or after the deletion of an object its writer had found there.
ReferencedKept == Reachable \subseteq cas \cup exposed

\* Nothing is given up while readers may come in: from the last reading of the
\* roots to the deletion the barrier of the installation stands, in an epoch
\* taken up after an error, a crash or an unfinished batch as in a new one.
SweepHoldsReadersOff ==
    \A e \in Epochs : pc[e] \in {"fresh", "unlink", "deleted"} => barrier[e] = "sweeping"

\* Readers are held off only with reason: a barrier row stands while a collect
\* works on the epoch, while candidates of it wait for a later call, or when
\* the clean-up after an error failed as well; a restart leaves none behind.
BarrierHasReason ==
    Up => \A e \in BarrierRows :
            \/ pc[e] # "idle"
            \/ epoch[e] = "sweeping" /\ Pending(e) # {}
            \/ e \in unreleased

\* A backup stops the sweep: once its row is written, a collect deletes at most
\* the one object it had already passed the backup check with.
BackupStopsSweep ==
    [][hasActiveBackupBarrier /\ cas' # cas /\ cas' \subseteq cas
         => \E e \in grace : pc[e] = "unlink" /\ e \notin grace']_vars

\* Rows of an execution keep objects alive only while it can be read: none are
\* left behind when it expires, unless an append was under way at that moment.
RootsHaveReader ==
    \A x \in Executions :
      segments[x] # {} => execution[x] = "ready" \/ x \in straddled

=============================================================================
