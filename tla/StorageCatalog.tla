---------------------------- MODULE StorageCatalog ----------------------------
(***************************************************************************)
(* The installation catalog and the database file of one workspace         *)
(* (packages/storage/src/storage.ts): opening and closing a handle, with a *)
(* lease or read-only without one, logical removal, purge, relocation with *)
(* its journal, and the recovery a process runs when it opens the store.   *)
(*                                                                         *)
(* Two kinds of lock are held across awaits: the catalog's serialized      *)
(* writer and the writer marker of each database path.  Both are exclusive *)
(* here (WriterMarker is about how the marker itself is kept); a waiter    *)
(* whose marker is held gives up at a deadline, a waiter in its own        *)
(* process's writer queue does not.                                        *)
(***************************************************************************)
EXTENDS Integers, FiniteSets

CONSTANTS Tasks,        \* asynchronous calls into the store
          Processes,    \* processes that opened the store
          Home,         \* the process of a task
          Recovering,   \* processes that recover when they start
          Viewers,      \* tasks that may open the database read-only
          NoTask,
          MaxFaults,    \* bound on operations that fail or time out
          MaxCrashes    \* bound on crashes of a process

ASSUME CatalogAssumption ==
    /\ Home \in [Tasks -> Processes]
    /\ Recovering \subseteq Processes
    /\ Viewers \subseteq Tasks
    /\ NoTask \notin Tasks
    /\ IsFiniteSet(Tasks)
    /\ MaxFaults \in Nat
    /\ MaxCrashes \in Nat

ASSUME OwnerAssumption == "dead" \notin Processes /\ "none" \notin Processes

Paths == 1 .. 2          \* database paths, in the order markers are taken
NoPath == 0
Catalog == 0             \* the lock of the catalog's writer
Locks == {Catalog} \cup Paths

VARIABLES row,        \* the workspace's row of installation_workspaces
          file,       \* what is at a database path
          journal,    \* the row of installation_workspace_relocations
          leases,     \* handle_count of a process's lease row, 0 without one
          mover,      \* the task of the relocation lease
          handle,     \* the path a task's open handle reads
          lock,       \* the task that holds a lock
          proc,       \* whether a process finished opening the store
          pc,         \* the next step of a task
          from, to,   \* the paths a task read or was given
          faults, crashes,
          incidents   \* what happened that the catalog does not survive

vars == <<row, file, journal, leases, mover, handle, lock, proc, pc, from, to,
          faults, crashes, incidents>>

Disk == <<row, file, journal>>
Use == <<leases, mover, handle>>
Env == <<proc, faults, crashes, incidents>>

NoJournal == [owner |-> "none", from |-> 1, to |-> 1]

Init ==
    /\ row = [status |-> "registered", path |-> 1]
    /\ file = [p \in Paths |-> IF p = 1 THEN "data" ELSE "none"]
    /\ journal = NoJournal
    /\ leases = [p \in Processes |-> 0]
    /\ mover = NoTask
    /\ handle = [t \in Tasks |-> NoPath]
    /\ lock = [l \in Locks |-> NoTask]
    /\ proc = [p \in Processes |-> "up"]
    /\ pc = [t \in Tasks |-> "idle"]
    /\ from = [t \in Tasks |-> 1]
    /\ to = [t \in Tasks |-> 1]
    /\ faults = 0
    /\ crashes = 0
    /\ incidents = {}

-----------------------------------------------------------------------------
Goto(t, l) == pc' = [pc EXCEPT ![t] = l]

Take(t, l) == lock[l] = NoTask /\ lock' = [lock EXCEPT ![l] = t]

\* Mutant: a call that ends keeps the catalog's writer.
ReleasedMarkers(t) == [l \in Locks |-> IF l \in Paths /\ lock[l] = t THEN NoTask ELSE lock[l]]

\* The finally blocks: whatever the call still holds is released.
Released(t) == [l \in Locks |-> IF lock[l] = t THEN NoTask ELSE lock[l]]

Done(t, l) ==
    /\ lock' = Released(t)
    /\ from' = [from EXCEPT ![t] = 1]
    /\ to' = [to EXCEPT ![t] = 1]
    /\ Goto(t, l)

\* A call that returns or throws having changed nothing else.
Return(t) == Done(t, "idle") /\ UNCHANGED <<Disk, Use, Env>>

Fault == /\ faults < MaxFaults
         /\ faults' = faults + 1
         /\ UNCHANGED <<proc, crashes, incidents>>

Note(what) == incidents' = incidents \cup what

Leased == mover # NoTask \/ \E p \in Processes : leases[p] > 0

\* The handles that are counted: a read-only one only after its connection is
\* open (incrementWorkspaceHandle in the constructor of WorkspaceDatabase).
CountedHandle == [u \in Tasks |-> IF pc[u] = "viewCount" THEN NoPath ELSE handle[u]]

\* workspaceHasOpenHandles: the counted handles of the task's own process.
OpenHere(t, path) == \E u \in Tasks : Home[u] = Home[t] /\ CountedHandle[u] = path

\* The marker of a path is held past the deadline.
MarkerBusy(t, l) == lock[l] \notin {NoTask, t}

\* The catalog's marker is held past the deadline by another process; within
\* a process the serialized writer queues the call instead.
CatalogBusy(t) == lock[Catalog] # NoTask /\ Home[lock[Catalog]] # Home[t]

-----------------------------------------------------------------------------
(* openWorkspace and WorkspaceDatabase.close.                              *)

\* The row is read before anything is locked.
openRead(t) ==
    /\ pc[t] = "idle"
    /\ proc[Home[t]] = "up"
    /\ row.status = "registered"
    /\ from' = [from EXCEPT ![t] = row.path]
    /\ Goto(t, "openLock")
    /\ UNCHANGED <<Disk, Use, Env, lock, to>>

openLock(t) ==
    /\ pc[t] = "openLock"
    /\ Take(t, from[t])
    /\ Goto(t, "openDatabase")
    /\ UNCHANGED <<Disk, Use, Env, from, to>>

openBusy(t) == pc[t] = "openLock" /\ MarkerBusy(t, from[t]) /\ Return(t)

\* Opening a path with no file creates a database there and stamps it.
openDatabase(t) ==
    /\ pc[t] = "openDatabase"
    /\ file' = [file EXCEPT ![from[t]] = IF @ = "none" THEN "fresh" ELSE @]
    /\ Note(IF file[from[t]] = "none" THEN {"created"} ELSE {})
    /\ Goto(t, "openLease")
    /\ UNCHANGED <<row, journal, Use, proc, faults, crashes, lock, from, to>>

\* The file cannot be opened, or is opened, created if need be, and a schema
\* or identity check throws.
openDatabaseFails(t) ==
    /\ pc[t] = "openDatabase"
    /\ faults < MaxFaults
    /\ faults' = faults + 1
    /\ \/ UNCHANGED <<file, incidents>>
       \/ /\ file[from[t]] = "none"
          /\ file' = [file EXCEPT ![from[t]] = "fresh"]
          /\ Note({"created"})
    /\ Goto(t, "openUndo")
    /\ UNCHANGED <<row, journal, Use, proc, crashes, lock, from, to>>

\* acquireWorkspaceLease, one operation of the catalog's writer; the handle
\* is counted when it returns.
openLease(t) ==
    /\ pc[t] = "openLease"
    /\ lock[Catalog] = NoTask
    /\ mover = NoTask
    /\ leases' = [leases EXCEPT ![Home[t]] = @ + 1]
    /\ handle' = [handle EXCEPT ![t] = from[t]]
    /\ Done(t, "using")
    /\ UNCHANGED <<Disk, mover, Env>>

openRefused(t) ==
    /\ pc[t] = "openLease"
    /\ CatalogBusy(t) \/ (lock[Catalog] = NoTask /\ mover # NoTask)
    /\ Goto(t, "openUndo")
    /\ UNCHANGED <<Disk, Use, Env, lock, from, to>>

\* The handle_count of a process's lease row, one less.
Unleased(p) == [leases EXCEPT ![p] = IF @ > 0 THEN @ - 1 ELSE @]

\* The catch block releases a lease whether or not this call acquired one.
openUndo(t) ==
    /\ pc[t] = "openUndo"
    /\ lock[Catalog] = NoTask
    /\ leases' = Unleased(Home[t])
    /\ Note(IF leases[Home[t]] > 0 THEN {"undercounted"} ELSE {})
    /\ Done(t, "idle")
    /\ UNCHANGED <<Disk, mover, handle, proc, faults, crashes>>

openUndoBusy(t) == pc[t] = "openUndo" /\ CatalogBusy(t) /\ Return(t)

closeHandle(t) ==
    /\ pc[t] = "using"
    /\ handle' = [handle EXCEPT ![t] = NoPath]
    /\ Goto(t, "closeLease")
    /\ UNCHANGED <<Disk, leases, mover, Env, lock, from, to>>

\* Mutant: the handle is closed and its lease is kept.
closeLeaseKept(t) ==
    /\ pc[t] = "closeLease"
    /\ lock[Catalog] = NoTask
    /\ Done(t, "idle")
    /\ UNCHANGED <<Disk, Use, Env>>

closeLease(t) ==
    /\ pc[t] = "closeLease"
    /\ lock[Catalog] = NoTask
    /\ leases' = Unleased(Home[t])
    /\ Done(t, "idle")
    /\ UNCHANGED <<Disk, mover, handle, Env>>

\* The lease row counts the handle until its process ends (counted with the
\* faults, so that such rows are bounded).
closeLeaseBusy(t) ==
    /\ pc[t] = "closeLease"
    /\ CatalogBusy(t)
    /\ Fault
    /\ Done(t, "idle")
    /\ UNCHANGED <<Disk, Use>>

-----------------------------------------------------------------------------
(* openWorkspaceReadOnly: no marker, no lease.                             *)

viewRead(t) ==
    /\ t \in Viewers
    /\ pc[t] = "idle"
    /\ proc[Home[t]] = "up"
    /\ row.status = "registered"
    /\ from' = [from EXCEPT ![t] = row.path]
    /\ Goto(t, "viewOpen")
    /\ UNCHANGED <<Disk, Use, Env, lock, to>>

\* A read-only connection opens an existing file and creates none.
viewOpen(t) ==
    /\ pc[t] = "viewOpen"
    /\ file[from[t]] # "none"
    /\ handle' = [handle EXCEPT ![t] = from[t]]
    /\ Done(t, "viewCount")
    /\ UNCHANGED <<Disk, leases, mover, Env>>

viewFails(t) == pc[t] = "viewOpen" /\ Return(t)

\* The paths whose file a purge or a relocation may still delete or rename,
\* having looked at the open handles.
AtRisk(u) ==
    IF pc[u] = "purgeDelete" THEN {from[u]}
    ELSE IF pc[u] \in {"moveJournal", "moveRename", "moveUpdate", "moveClear", "moveBack"}
         THEN {from[u], to[u]} ELSE {}

\* The handle comes too late to be seen by such a call of its own process, or
\* the file is gone by now.
Overtaken(t) ==
    \/ file[handle[t]] = "none"
    \/ \E u \in Tasks : Home[u] = Home[t] /\ handle[t] \in AtRisk(u)

viewCount(t) ==
    /\ pc[t] = "viewCount"
    /\ Note(IF Overtaken(t) THEN {"unseen"} ELSE {})
    /\ Goto(t, "viewing")
    /\ UNCHANGED <<Disk, Use, proc, faults, crashes, lock, from, to>>

closeView(t) ==
    /\ pc[t] = "viewing"
    /\ handle' = [handle EXCEPT ![t] = NoPath]
    /\ Goto(t, "idle")
    /\ UNCHANGED <<Disk, leases, mover, Env, lock, from, to>>

\* A read-only handle that no lease shows to the task's process.
Foreign(t, path) ==
    IF \E u \in Tasks : /\ Home[u] # Home[t] /\ pc[u] = "viewing"
                       /\ handle[u] = path
    THEN {"unseen"} ELSE {}

-----------------------------------------------------------------------------
(* markWorkspaceRemoved and purgeWorkspace.                                *)

markWorkspaceRemoved(t) ==
    /\ pc[t] = "idle"
    /\ proc[Home[t]] = "up"
    /\ lock[Catalog] = NoTask
    /\ row.status = "registered"
    /\ row' = [row EXCEPT !.status = "removed"]
    /\ UNCHANGED <<file, journal, Use, Env, lock, pc, from, to>>

purgeStart(t) ==
    /\ pc[t] = "idle"
    /\ proc[Home[t]] = "up"
    /\ row.status # "absent"
    /\ Take(t, Catalog)
    /\ from' = [from EXCEPT ![t] = row.path]
    /\ Goto(t, "purgeLock")
    /\ UNCHANGED <<Disk, Use, Env, to>>

purgeLock(t) ==
    /\ pc[t] = "purgeLock"
    /\ Take(t, from[t])
    /\ Goto(t, "purgeCheck")
    /\ UNCHANGED <<Disk, Use, Env, from, to>>

purgeBusy(t) == pc[t] = "purgeLock" /\ MarkerBusy(t, from[t]) /\ Return(t)

\* Mutant: only the handles of the purging process are looked at.
MayPurgeHere(t) == row.status = "removed" /\ ~OpenHere(t, from[t])

\* Mutant: only the leases are looked at.
MayPurgeLeased(t) == row.status = "removed" /\ ~Leased

MayPurge(t) == row.status = "removed" /\ ~OpenHere(t, from[t]) /\ ~Leased

purgeCheck(t) ==
    /\ pc[t] = "purgeCheck"
    /\ MayPurge(t)
    /\ Goto(t, "purgeDelete")
    /\ UNCHANGED <<Disk, Use, Env, lock, from, to>>

\* Not removed, within the grace period, in use, or still referenced.
purgeRefused(t) == pc[t] = "purgeCheck" /\ Return(t)

\* Mutant: the database is deleted at the path it was registered with.
purgeDeleteDefault(t) ==
    /\ pc[t] = "purgeDelete"
    /\ file' = [file EXCEPT ![1] = "none"]
    /\ Note((IF journal # NoJournal THEN {"unsettled"} ELSE {})
              \cup Foreign(t, from[t]))
    /\ Goto(t, "purgeForget")
    /\ UNCHANGED <<row, journal, Use, proc, faults, crashes, lock, from, to>>

purgeDelete(t) ==
    /\ pc[t] = "purgeDelete"
    /\ file' = [file EXCEPT ![from[t]] = "none"]
    /\ Note((IF journal # NoJournal THEN {"unsettled"} ELSE {})
              \cup Foreign(t, from[t]))
    /\ Goto(t, "purgeForget")
    /\ UNCHANGED <<row, journal, Use, proc, faults, crashes, lock, from, to>>

purgeForget(t) ==
    /\ pc[t] = "purgeForget"
    /\ row' = [row EXCEPT !.status = "absent"]
    /\ journal' = NoJournal
    /\ leases' = [p \in Processes |-> 0]
    /\ mover' = NoTask
    /\ Done(t, "idle")
    /\ UNCHANGED <<file, handle, Env>>

purgeFails(t) ==
    /\ pc[t] \in {"purgeDelete", "purgeForget"}
    /\ Fault
    /\ Done(t, "idle")
    /\ UNCHANGED <<Disk, Use>>

-----------------------------------------------------------------------------
(* relocateWorkspace.                                                      *)

relocateStart(t, path) ==
    /\ pc[t] = "idle"
    /\ proc[Home[t]] = "up"
    /\ row.status = "registered"
    /\ Take(t, Catalog)
    /\ from' = [from EXCEPT ![t] = row.path]
    /\ to' = [to EXCEPT ![t] = path]
    /\ Goto(t, "moveLock")
    /\ UNCHANGED <<Disk, Use, Env>>

\* acquireWorkspaceMutationLocks: the markers of both paths, in their order.
Wanted(t) == {l \in {from[t], to[t]} : lock[l] # t}

NextWanted(t) == CHOOSE l \in Wanted(t) : \A k \in Wanted(t) : l <= k

takeMarkers(t, wait, then) ==
    /\ pc[t] = wait
    /\ Take(t, NextWanted(t))
    /\ Goto(t, IF Wanted(t) = {NextWanted(t)} THEN then ELSE wait)
    /\ UNCHANGED <<Disk, Use, Env, from, to>>

MarkersBusy(t) == MarkerBusy(t, NextWanted(t))

relocateLock(t) == takeMarkers(t, "moveLock", "moveBegin")

relocateBusy(t) == pc[t] = "moveLock" /\ MarkersBusy(t) /\ Return(t)

\* Mutant: only the handles of the relocating process are looked at.
MayMoveHere(t) == ~OpenHere(t, from[t])

MayMove(t) == ~OpenHere(t, from[t]) /\ ~Leased

\* beginWorkspaceRelocation.
relocateBegin(t) ==
    /\ pc[t] = "moveBegin"
    /\ MayMove(t)
    /\ mover' = t
    /\ Goto(t, IF to[t] = from[t] \/ file[to[t]] # "none" THEN "moveEnd" ELSE "moveJournal")
    /\ UNCHANGED <<Disk, leases, handle, Env, lock, from, to>>

relocateRefused(t) == pc[t] = "moveBegin" /\ ~MayMove(t) /\ Return(t)

\* The journal has one row per workspace: an earlier one is a conflict.
relocateJournal(t) ==
    /\ pc[t] = "moveJournal"
    /\ journal' = IF journal = NoJournal
                  THEN [owner |-> Home[t], from |-> from[t], to |-> to[t]]
                  ELSE journal
    /\ Goto(t, IF journal = NoJournal THEN "moveRename" ELSE "moveEnd")
    /\ UNCHANGED <<row, file, Use, Env, lock, from, to>>

Renamed(a, b) == [file EXCEPT ![b] = file[a], ![a] = "none"]

relocateRename(t) ==
    /\ pc[t] = "moveRename"
    /\ file[from[t]] # "none"
    /\ file' = Renamed(from[t], to[t])
    /\ Note(Foreign(t, from[t]))
    /\ Goto(t, "moveUpdate")
    /\ UNCHANGED <<row, journal, Use, proc, faults, crashes, lock, from, to>>

\* The rename is outside the block that rolls back: the journal row stays.
relocateRenameFails(t) ==
    /\ pc[t] = "moveRename"
    /\ \/ Fault
       \/ file[from[t]] = "none" /\ UNCHANGED Env
    /\ Goto(t, "moveEnd")
    /\ UNCHANGED <<Disk, Use, lock, from, to>>

relocateUpdate(t) ==
    /\ pc[t] = "moveUpdate"
    /\ row' = [row EXCEPT !.path = to[t]]
    /\ Goto(t, "moveClear")
    /\ UNCHANGED <<file, journal, Use, Env, lock, from, to>>

relocateClear(t) ==
    /\ pc[t] = "moveClear"
    /\ journal' = NoJournal
    /\ Goto(t, "moveEnd")
    /\ UNCHANGED <<row, file, Use, Env, lock, from, to>>

relocateFails(t) ==
    /\ pc[t] \in {"moveUpdate", "moveClear"}
    /\ Fault
    /\ Goto(t, "moveBack")
    /\ UNCHANGED <<Disk, Use, lock, from, to>>

\* The file goes back; a row that already names the new path is left.
relocateBack(t) ==
    /\ pc[t] = "moveBack"
    /\ file' = Renamed(to[t], from[t])
    /\ Note((IF row.path = to[t] THEN {"unrestored"} ELSE {}) \cup Foreign(t, to[t]))
    /\ Goto(t, "moveUndone")
    /\ UNCHANGED <<row, journal, Use, proc, faults, crashes, lock, from, to>>

relocateUndone(t) ==
    /\ pc[t] = "moveUndone"
    /\ journal' = NoJournal
    /\ Goto(t, "moveEnd")
    /\ UNCHANGED <<row, file, Use, Env, lock, from, to>>

\* The rollback fails as well (the fault before it is the one counted).
relocateUndoFails(t) ==
    /\ pc[t] \in {"moveBack", "moveUndone"}
    /\ Goto(t, "moveEnd")
    /\ UNCHANGED <<Disk, Use, Env, lock, from, to>>

\* endWorkspaceRelocation.
relocateEnd(t) ==
    /\ pc[t] = "moveEnd"
    /\ mover' = NoTask
    /\ Done(t, "idle")
    /\ UNCHANGED <<Disk, leases, handle, Env>>

-----------------------------------------------------------------------------
(* A process dies; one that recovers does so before anything else uses it. *)

\* What its open connections, markers and leases held is free: nothing asks
\* for them before pruneWorkspaceLeases has deleted the rows of dead processes
\* and the marker's age or owner has been looked at.
crash(p) ==
    /\ crashes < MaxCrashes
    /\ crashes' = crashes + 1
    /\ LET gone == {t \in Tasks : Home[t] = p}
       IN  /\ pc' = [t \in Tasks |-> IF t \in gone THEN "idle" ELSE pc[t]]
           /\ from' = [t \in Tasks |-> IF t \in gone THEN 1 ELSE from[t]]
           /\ to' = [t \in Tasks |-> IF t \in gone THEN 1 ELSE to[t]]
           /\ handle' = [t \in Tasks |-> IF t \in gone THEN NoPath ELSE handle[t]]
           /\ lock' = [l \in Locks |-> IF lock[l] \in gone THEN NoTask ELSE lock[l]]
           /\ mover' = IF mover \in gone THEN NoTask ELSE mover
    /\ leases' = [leases EXCEPT ![p] = 0]
    /\ journal' = IF journal.owner = p THEN [journal EXCEPT !.owner = "dead"] ELSE journal
    /\ proc' = [proc EXCEPT ![p] = IF p \in Recovering THEN "starting" ELSE "up"]
    /\ UNCHANGED <<row, file, faults, incidents>>

\* recoverRelocations: a row whose owner lives is skipped.
recoverStart(t) ==
    /\ proc[Home[t]] = "starting"
    /\ \A u \in Tasks : Home[u] = Home[t] => pc[u] = "idle"
    /\ IF journal.owner = "dead"
       THEN /\ Take(t, Catalog)
            /\ from' = [from EXCEPT ![t] = journal.from]
            /\ to' = [to EXCEPT ![t] = journal.to]
            /\ Goto(t, "recoverLock")
            /\ UNCHANGED proc
       ELSE /\ lock[Catalog] = NoTask
            /\ proc' = [proc EXCEPT ![Home[t]] = "up"]
            /\ UNCHANGED <<lock, from, to, pc>>
    /\ UNCHANGED <<Disk, Use, faults, crashes, incidents>>

recoverLock(t) == takeMarkers(t, "recoverLock", "recoverSettle")

Fail(t) == /\ Done(t, "idle")
           /\ proc' = [proc EXCEPT ![Home[t]] = "starting"]
           /\ UNCHANGED <<Disk, Use, faults, crashes, incidents>>

\* The store does not open; it is opened again later.
recoverBusy(t) == pc[t] = "recoverLock" /\ MarkersBusy(t) /\ Fail(t)

\* Mutant: the path the catalog names is right whatever files exist.
SettledAsNamed(t) == {row.path}

\* Mutant: only a relocation that had updated the catalog is settled.
SettledForward(t) == {p \in {to[t]} : row.path = p /\ file[p] # "none"}

\* The path the catalog should name, by which of the two files exist.
Settled(t) ==
    {p \in {from[t], to[t]} :
        /\ row.path \in {from[t], to[t]}
        /\ file[p] # "none"
        /\ \/ p = to[t] /\ row.path = to[t]
           \/ \A q \in {from[t], to[t]} \ {p} : file[q] = "none"}

\* The catalog is brought to name that path, if it does not already.
recoverSettle(t) ==
    /\ pc[t] = "recoverSettle"
    /\ \E p \in Settled(t) : row' = [row EXCEPT !.path = p]
    /\ Goto(t, "recoverClear")
    /\ UNCHANGED <<file, journal, Use, Env, lock, from, to>>

recoverClear(t) ==
    /\ pc[t] = "recoverClear"
    /\ journal' = NoJournal
    /\ proc' = [proc EXCEPT ![Home[t]] = "up"]
    /\ Done(t, "idle")
    /\ UNCHANGED <<row, file, Use, faults, crashes, incidents>>

\* The store does not open, with the catalog updated or not.
recoverFails(t) ==
    /\ pc[t] \in {"recoverSettle", "recoverClear"}
    /\ Fault
    /\ Done(t, "idle")
    /\ UNCHANGED <<Disk, Use>>

\* "requires administrator recovery": the store never opens again by itself.
recoverGivesUp(t) ==
    /\ pc[t] = "recoverSettle"
    /\ Settled(t) = {}
    /\ proc' = [proc EXCEPT ![Home[t]] = "failed"]
    /\ Done(t, "idle")
    /\ UNCHANGED <<Disk, Use, faults, crashes, incidents>>

-----------------------------------------------------------------------------
Open(t) == \/ openLock(t) \/ openBusy(t) \/ openDatabase(t) \/ openDatabaseFails(t)
           \/ openLease(t) \/ openRefused(t) \/ openUndo(t) \/ openUndoBusy(t)

Close(t) == closeLease(t) \/ closeLeaseBusy(t)

View(t) == viewOpen(t) \/ viewFails(t) \/ viewCount(t)

Purge(t) == \/ purgeLock(t) \/ purgeBusy(t) \/ purgeCheck(t) \/ purgeRefused(t)
            \/ purgeDelete(t) \/ purgeForget(t) \/ purgeFails(t)

Move(t) == \/ relocateLock(t) \/ relocateBusy(t) \/ relocateBegin(t) \/ relocateRefused(t)
           \/ relocateJournal(t) \/ relocateRename(t) \/ relocateRenameFails(t)
           \/ relocateUpdate(t) \/ relocateClear(t) \/ relocateFails(t)
           \/ relocateBack(t) \/ relocateUndone(t) \/ relocateUndoFails(t) \/ relocateEnd(t)

Recover(t) == \/ recoverStart(t) \/ recoverLock(t) \/ recoverBusy(t)
              \/ recoverSettle(t) \/ recoverClear(t) \/ recoverFails(t)
              \/ recoverGivesUp(t)

\* What a call that is under way does next.
Step(t) == Open(t) \/ Close(t) \/ View(t) \/ Purge(t) \/ Move(t) \/ Recover(t)

\* What a caller may ask for.
Call(t) == \/ openRead(t) \/ closeHandle(t) \/ viewRead(t) \/ closeView(t)
           \/ markWorkspaceRemoved(t) \/ purgeStart(t)
           \/ \E path \in Paths : relocateStart(t, path)

Next == \/ \E t \in Tasks : Step(t) \/ Call(t)
        \/ \E p \in Processes : crash(p)

Spec == Init /\ [][Next]_vars

-----------------------------------------------------------------------------
(* Properties.                                                             *)

Labels == {"idle", "using", "openLock", "openDatabase", "openLease", "openUndo",
           "closeLease", "viewOpen", "viewCount", "viewing", "purgeLock", "purgeCheck",
           "purgeDelete", "purgeForget", "moveLock", "moveBegin", "moveJournal",
           "moveRename", "moveUpdate", "moveClear", "moveBack", "moveUndone", "moveEnd",
           "recoverLock", "recoverSettle", "recoverClear"}

Incidents == {"created", "undercounted", "unrestored", "unsettled", "unseen"}

\* Every variable keeps its type; a lease row counts at most one handle per
\* task, and one per release that timed out.
TypeOK ==
    /\ row \in [status : {"registered", "removed", "absent"}, path : Paths]
    /\ file \in [Paths -> {"none", "data", "fresh"}]
    /\ journal \in [owner : Processes \cup {"dead", "none"}, from : Paths, to : Paths]
    /\ leases \in [Processes -> 0 .. (Cardinality(Tasks) + MaxFaults)]
    /\ mover \in Tasks \cup {NoTask}
    /\ handle \in [Tasks -> Paths \cup {NoPath}]
    /\ lock \in [Locks -> Tasks \cup {NoTask}]
    /\ proc \in [Processes -> {"up", "starting", "failed"}]
    /\ pc \in [Tasks -> Labels]
    /\ from \in [Tasks -> Paths]
    /\ to \in [Tasks -> Paths]
    /\ faults \in 0 .. MaxFaults
    /\ crashes \in 0 .. MaxCrashes
    /\ incidents \subseteq Incidents

\* No database is deleted by a purge or moved by a relocation while a task of
\* any process has it open with a lease (storage.ts, the in_use checks), unless
\* a failed open gave back the lease of another handle.
OpenDatabaseStays ==
    \/ "undercounted" \in incidents
    \/ \A t \in Tasks : pc[t] = "using" => file[handle[t]] # "none"

\* Nor while a task has it open read-only, as the cached handles of the query
\* engines do, unless the task is in another process, which no lease tells, or
\* its handle was counted after the purge or relocation looked.
ReadHandleStays ==
    \/ "unseen" \in incidents
    \/ \A t \in Tasks : pc[t] = "viewing" => file[handle[t]] # "none"

\* Whenever no relocation is journaled the catalog names the workspace's own
\* database, after every failed or interrupted relocation and its recovery,
\* unless an open created a database of its own or a rollback left the row
\* behind.
CatalogNamesDatabase ==
    \/ incidents \cap {"created", "unrestored"} # {}
    \/ row.status # "registered"
    \/ journal # NoJournal
    \/ file[row.path] = "data"

\* A restart settles an interrupted relocation by itself; it asks for an
\* administrator only when an open created a database at the old path, a
\* rollback left the row behind, or a purge met an unsettled relocation.
RecoveryDecides ==
    \/ incidents \cap {"created", "unrestored", "unsettled"} # {}
    \/ \A p \in Processes : proc[p] # "failed"

\* A purged workspace leaves no database that the catalog no longer names,
\* unless an open made one or a relocation was unsettled when it was purged.
PurgeLeavesNothing ==
    \/ incidents \cap {"created", "unrestored", "unsettled"} # {}
    \/ row.status # "absent"
    \/ \A p \in Paths : file[p] = "none"

\* Where the workspace's own database is, if the files are f.
PlaceIn(f) == IF \E p \in Paths : f[p] = "data"
              THEN CHOOSE p \in Paths : f[p] = "data" ELSE NoPath

\* The catalog, its locks, leases and journal keep the promise of the store
\* over failures, crashes and recoveries, until one of the incidents.
Store == INSTANCE WorkspaceStore
    WITH Users <- Tasks, Places <- Paths, Nowhere <- NoPath, place <- PlaceIn(file),
         reads <- CountedHandle, removed <- (row.status # "registered"),
         broken <- (incidents # {})
ImplementsStore == Store!StoreSpec

\* A free marker is taken; one held past the deadline makes the call give up.
MayTake(t, l) == lock[l] = NoTask \/ MarkerBusy(t, l)

\* What the next step of a call waits for, if anything.
Ready(t) ==
    \/ pc[t] \in {"openLock", "purgeLock"} /\ MayTake(t, from[t])
    \/ pc[t] \in {"moveLock", "recoverLock"} /\ MayTake(t, NextWanted(t))
    \/ pc[t] \in {"openLease", "openUndo"} /\ (lock[Catalog] = NoTask \/ CatalogBusy(t))
    \/ /\ pc[t] = "closeLease"
       /\ lock[Catalog] = NoTask \/ (CatalogBusy(t) /\ faults < MaxFaults)
    \/ pc[t] \in {"openDatabase", "viewOpen", "viewCount", "purgeCheck", "purgeDelete",
                  "purgeForget", "moveBegin", "moveJournal", "moveRename", "moveUpdate",
                  "moveClear", "moveBack", "moveUndone", "moveEnd", "recoverSettle",
                  "recoverClear"}
    \/ /\ proc[Home[t]] = "starting" /\ lock[Catalog] = NoTask
       /\ \A u \in Tasks : Home[u] = Home[t] => pc[u] = "idle"

\* Calls never all wait for each other: an open holds a marker and waits for
\* the catalog while a purge or a relocation holds the catalog and waits for
\* that marker, and the deadline of the marker breaks the circle.
SomeCallAdvances ==
    (\E t \in Tasks : pc[t] \notin {"idle", "using", "viewing"}) => \E t \in Tasks : Ready(t)

=============================================================================
