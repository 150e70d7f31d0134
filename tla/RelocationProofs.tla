--------------------------- MODULE RelocationProofs ---------------------------
(***************************************************************************)
(* What the catalog's row, the relocation journal and the database files   *)
(* say of each other, for any number of tasks and processes.  The          *)
(* invariant: as long as none of the named incidents happened, either the  *)
(* database was purged, or exactly one path has it and the row names that  *)
(* path or a journal row is there (DiskInv).  A task that holds the        *)
(* catalog knows what it read of the three (TaskOf), because nobody else   *)
(* changes them meanwhile (HolderAlone, from the locks of                  *)
(* StorageCatalogProofs).                                                  *)
(***************************************************************************)
EXTENDS StorageCatalogProofs

\* Nothing happened that the catalog does not survive.
Sane == incidents \cap {"created", "unrestored", "unsettled"} = {}

Deleted == row.status # "registered" /\ journal = NoJournal /\ \A p \in Paths : file[p] = "none"

\* One path has the database, and the catalog names it or the journal is there.
Intact ==
    /\ row.status # "absent"
    /\ \E p \in Paths : /\ file[p] = "data"
                        /\ \A q \in Paths \ {p} : file[q] = "none"
                        /\ journal = NoJournal => row.path = p

DiskInv ==
    /\ Sane => Deleted \/ Intact
    /\ "unsettled" \in incidents => row.status # "registered"
    /\ journal # NoJournal => journal.from # journal.to

Journaled == {"moveRename", "moveUpdate", "moveClear", "moveBack", "moveUndone"}
BeforeUpdate == {"moveLock", "moveBegin", "moveJournal", "moveRename", "moveUpdate"}

\* What a task that holds the catalog knows of the row, journal and files.
TaskOf(t) ==
    /\ pc[t] \in PurgeLabels => from[t] = row.path
    /\ pc[t] \in {"purgeDelete", "purgeForget"} => row.status = "removed"
    /\ pc[t] = "purgeForget" /\ Sane => Deleted
    /\ pc[t] \in MovePath \cup {"moveLock"} => row.status = "registered"
    /\ pc[t] \in BeforeUpdate => row.path = from[t]
    /\ pc[t] \in Journaled \cup {"moveJournal"} => from[t] # to[t]
    /\ pc[t] \in Journaled => journal # NoJournal
    /\ pc[t] \in {"moveUpdate", "moveClear", "moveBack"} =>
          file[to[t]] # "none" /\ (Sane => file[to[t]] = "data")
    /\ pc[t] = "moveClear" => row.path = to[t]
    /\ pc[t] = "moveUndone" /\ Sane => row.path = from[t] /\ file[from[t]] = "data"
    /\ pc[t] \in {"recoverLock", "recoverSettle", "recoverClear"} =>
          journal.owner = "dead" /\ journal.from = from[t] /\ journal.to = to[t]
    /\ pc[t] = "recoverClear" => file[row.path] # "none"

TaskInv == \A t \in Tasks : TaskOf(t)

-----------------------------------------------------------------------------
USE CatalogAssumption

\* A step that changes none of them.
SameDisk(t) ==
    /\ \A u \in Tasks \ {t} : pc'[u] = pc[u] /\ from'[u] = from[u] /\ to'[u] = to[u]
    /\ row' = row /\ file' = file /\ journal' = journal
    /\ incidents \subseteq incidents' /\ incidents' \subseteq incidents \cup {"undercounted", "unseen"}
    /\ \A p \in Processes : proc'[p] = "failed" => proc[p] = "failed"

LEMMA SameDiskStep ==
    ASSUME DiskInv, TaskInv, RecoveryDecides, NEW t \in Tasks, SameDisk(t), TaskOf(t)'
    PROVE  DiskInv' /\ TaskInv' /\ RecoveryDecides'
<1>1. Sane' = Sane /\ Deleted' = Deleted /\ Intact' = Intact
  BY DEF SameDisk, Sane, Deleted, Intact
<1>2. "unsettled" \in incidents' => "unsettled" \in incidents
  BY DEF SameDisk
<1>3. DiskInv'
  BY <1>1, <1>2 DEF DiskInv, SameDisk
<1>4. ASSUME NEW u \in Tasks \ {t} PROVE TaskOf(u)'
  BY <1>1 DEF TaskInv, TaskOf, SameDisk
<1>5. RecoveryDecides'
  BY DEF RecoveryDecides, SameDisk
<1> QED
  BY <1>3, <1>4, <1>5 DEF TaskInv

LEMMA FreeTask ==
    ASSUME NEW t \in Tasks, pc'[t] \notin CatalogHeld
    PROVE  TaskOf(t)'
  BY DEF TaskOf, CatalogHeld, PurgeLabels, MovePath, BeforeUpdate, Journaled

\* Whoever holds the catalog, or finds it free, is alone with it.
LEMMA AloneTasks ==
    ASSUME NEW t \in Tasks, TaskOf(t)', \A u \in Tasks \ {t} : pc'[u] \notin CatalogHeld
    PROVE  TaskInv'
<1> SUFFICES ASSUME NEW u \in Tasks \ {t} PROVE TaskOf(u)'
  BY DEF TaskInv
<1> QED
  BY FreeTask

LEMMA HolderAlone ==
    ASSUME TypeInv, LockInv, NEW t \in Tasks, lock[Catalog] = NoTask \/ pc[t] \in CatalogHeld,
           \A u \in Tasks \ {t} : pc'[u] = pc[u]
    PROVE  \A u \in Tasks \ {t} : pc'[u] \notin CatalogHeld
  BY DEF LockInv, LockOf

LEMMA DiskInit == Init => DiskInv /\ TaskInv /\ RecoveryDecides
<1> SUFFICES ASSUME Init PROVE DiskInv /\ TaskInv /\ RecoveryDecides
  OBVIOUS
<1>1. TaskInv
  BY DEF Init, TaskInv, TaskOf, PurgeLabels, MovePath, BeforeUpdate, Journaled
<1>2. Intact
  BY DEF Init, Intact, Paths
<1>3. DiskInv
  BY <1>2 DEF Init, DiskInv
<1> QED
  BY <1>1, <1>3 DEF Init, RecoveryDecides

LEMMA DiskStep ==
    TypeInv /\ LockInv /\ DiskInv /\ TaskInv /\ RecoveryDecides /\ [Next]_vars
      => DiskInv' /\ TaskInv' /\ RecoveryDecides'
<1> SUFFICES ASSUME TypeInv, LockInv, DiskInv, TaskInv, RecoveryDecides, [Next]_vars
             PROVE  DiskInv' /\ TaskInv' /\ RecoveryDecides'
  OBVIOUS
<1>0. TypeInv /\ DataType /\ ControlType
  BY DEF TypeInv
<1>p. /\ pc \in [Tasks -> Labels] /\ from \in [Tasks -> Paths] /\ to \in [Tasks -> Paths]
      /\ proc \in [Processes -> {"up", "starting", "failed"}]
  BY DEF TypeInv, DataType, ControlType
<1>t. \A t \in Tasks : TaskOf(t)
  BY DEF TaskInv
<1>1. ASSUME NEW t \in Tasks, openLock(t) PROVE DiskInv' /\ TaskInv' /\ RecoveryDecides'
  <2>1. SameDisk(t)
    BY <1>1, <1>p DEF SameDisk, openLock, Goto, Done, Return, Fault, Note, Disk, Env
  <2>2. pc'[t] \notin CatalogHeld
    BY <1>1, <1>p DEF openLock, Return, Done, Goto, CatalogHeld, PurgeLabels, MovePath
  <2> QED
    BY <2>1, <2>2, FreeTask, SameDiskStep
<1>2. ASSUME NEW t \in Tasks, openBusy(t) PROVE DiskInv' /\ TaskInv' /\ RecoveryDecides'
  <2>1. SameDisk(t)
    BY <1>2, <1>p DEF SameDisk, openBusy, Goto, Done, Return, Fault, Note, Disk, Env
  <2>2. pc'[t] \notin CatalogHeld
    BY <1>2, <1>p DEF openBusy, Return, Done, Goto, CatalogHeld, PurgeLabels, MovePath
  <2> QED
    BY <2>1, <2>2, FreeTask, SameDiskStep
<1>3. ASSUME NEW t \in Tasks, recoverFails(t) PROVE DiskInv' /\ TaskInv' /\ RecoveryDecides'
  <2>1. SameDisk(t)
    BY <1>3, <1>p DEF SameDisk, recoverFails, Goto, Done, Return, Fault, Note, Disk, Env
  <2>2. pc'[t] \notin CatalogHeld
    BY <1>3, <1>p DEF recoverFails, Return, Done, Goto, CatalogHeld, PurgeLabels, MovePath
  <2> QED
    BY <2>1, <2>2, FreeTask, SameDiskStep
<1>4. ASSUME NEW t \in Tasks, openLease(t) PROVE DiskInv' /\ TaskInv' /\ RecoveryDecides'
  <2>1. SameDisk(t)
    BY <1>4, <1>p DEF SameDisk, openLease, Goto, Done, Return, Fault, Note, Disk, Env
  <2>2. pc'[t] \notin CatalogHeld
    BY <1>4, <1>p DEF openLease, Return, Done, Goto, CatalogHeld, PurgeLabels, MovePath
  <2> QED
    BY <2>1, <2>2, FreeTask, SameDiskStep
<1>5. ASSUME NEW t \in Tasks, openRefused(t) PROVE DiskInv' /\ TaskInv' /\ RecoveryDecides'
  <2>1. SameDisk(t)
    BY <1>5, <1>p DEF SameDisk, openRefused, Goto, Done, Return, Fault, Note, Disk, Env
  <2>2. pc'[t] \notin CatalogHeld
    BY <1>5, <1>p DEF openRefused, Return, Done, Goto, CatalogHeld, PurgeLabels, MovePath
  <2> QED
    BY <2>1, <2>2, FreeTask, SameDiskStep
<1>6. ASSUME NEW t \in Tasks, openUndo(t) PROVE DiskInv' /\ TaskInv' /\ RecoveryDecides'
  <2>1. SameDisk(t)
    BY <1>6, <1>p DEF SameDisk, openUndo, Goto, Done, Return, Fault, Note, Disk, Env
  <2>2. pc'[t] \notin CatalogHeld
    BY <1>6, <1>p DEF openUndo, Return, Done, Goto, CatalogHeld, PurgeLabels, MovePath
  <2> QED
    BY <2>1, <2>2, FreeTask, SameDiskStep
<1>7. ASSUME NEW t \in Tasks, openUndoBusy(t) PROVE DiskInv' /\ TaskInv' /\ RecoveryDecides'
  <2>1. SameDisk(t)
    BY <1>7, <1>p DEF SameDisk, openUndoBusy, Goto, Done, Return, Fault, Note, Disk, Env
  <2>2. pc'[t] \notin CatalogHeld
    BY <1>7, <1>p DEF openUndoBusy, Return, Done, Goto, CatalogHeld, PurgeLabels, MovePath
  <2> QED
    BY <2>1, <2>2, FreeTask, SameDiskStep
<1>8. ASSUME NEW t \in Tasks, closeLease(t) PROVE DiskInv' /\ TaskInv' /\ RecoveryDecides'
  <2>1. SameDisk(t)
    BY <1>8, <1>p DEF SameDisk, closeLease, Goto, Done, Return, Fault, Note, Disk, Env
  <2>2. pc'[t] \notin CatalogHeld
    BY <1>8, <1>p DEF closeLease, Return, Done, Goto, CatalogHeld, PurgeLabels, MovePath
  <2> QED
    BY <2>1, <2>2, FreeTask, SameDiskStep
<1>9. ASSUME NEW t \in Tasks, closeLeaseBusy(t) PROVE DiskInv' /\ TaskInv' /\ RecoveryDecides'
  <2>1. SameDisk(t)
    BY <1>9, <1>p DEF SameDisk, closeLeaseBusy, Goto, Done, Return, Fault, Note, Disk, Env
  <2>2. pc'[t] \notin CatalogHeld
    BY <1>9, <1>p DEF closeLeaseBusy, Return, Done, Goto, CatalogHeld, PurgeLabels, MovePath
  <2> QED
    BY <2>1, <2>2, FreeTask, SameDiskStep
<1>10. ASSUME NEW t \in Tasks, purgeLock(t) PROVE DiskInv' /\ TaskInv' /\ RecoveryDecides'
  <2>1. SameDisk(t)
    BY <1>10, <1>p DEF SameDisk, purgeLock, Goto, Done, Return, Fault, Note, Disk, Env
  <2>2. pc[t] = "purgeLock" /\ pc'[t] = "purgeCheck" /\ from' = from /\ to' = to
    BY <1>10, <1>p DEF purgeLock, Goto
  <2>3. TaskOf(t)'
    BY <2>1, <2>2, <1>t DEF TaskOf, SameDisk, Sane, PurgeLabels, MovePath, BeforeUpdate, Journaled
  <2> QED
    BY <2>1, <2>3, SameDiskStep
<1>11. ASSUME NEW t \in Tasks, purgeBusy(t) PROVE DiskInv' /\ TaskInv' /\ RecoveryDecides'
  <2>1. SameDisk(t)
    BY <1>11, <1>p DEF SameDisk, purgeBusy, Goto, Done, Return, Fault, Note, Disk, Env
  <2>2. pc'[t] \notin CatalogHeld
    BY <1>11, <1>p DEF purgeBusy, Return, Done, Goto, CatalogHeld, PurgeLabels, MovePath
  <2> QED
    BY <2>1, <2>2, FreeTask, SameDiskStep
<1>12. ASSUME NEW t \in Tasks, purgeCheck(t) PROVE DiskInv' /\ TaskInv' /\ RecoveryDecides'
  <2>1. SameDisk(t)
    BY <1>12, <1>p DEF SameDisk, purgeCheck, Goto, Done, Return, Fault, Note, Disk, Env
  <2>2. /\ pc[t] = "purgeCheck" /\ pc'[t] = "purgeDelete" /\ from' = from /\ to' = to
        /\ row.status = "removed"
    BY <1>12, <1>p DEF purgeCheck, Goto, MayPurge
  <2>3. TaskOf(t)'
    BY <2>1, <2>2, <1>t DEF TaskOf, SameDisk, Sane, PurgeLabels, MovePath, BeforeUpdate, Journaled
  <2> QED
    BY <2>1, <2>3, SameDiskStep
<1>13. ASSUME NEW t \in Tasks, purgeRefused(t) PROVE DiskInv' /\ TaskInv' /\ RecoveryDecides'
  <2>1. SameDisk(t)
    BY <1>13, <1>p DEF SameDisk, purgeRefused, Goto, Done, Return, Fault, Note, Disk, Env
  <2>2. pc'[t] \notin CatalogHeld
    BY <1>13, <1>p DEF purgeRefused, Return, Done, Goto, CatalogHeld, PurgeLabels, MovePath
  <2> QED
    BY <2>1, <2>2, FreeTask, SameDiskStep
<1>14. ASSUME NEW t \in Tasks, purgeFails(t) PROVE DiskInv' /\ TaskInv' /\ RecoveryDecides'
  <2>1. SameDisk(t)
    BY <1>14, <1>p DEF SameDisk, purgeFails, Goto, Done, Return, Fault, Note, Disk, Env
  <2>2. pc'[t] \notin CatalogHeld
    BY <1>14, <1>p DEF purgeFails, Return, Done, Goto, CatalogHeld, PurgeLabels, MovePath
  <2> QED
    BY <2>1, <2>2, FreeTask, SameDiskStep
<1>15. ASSUME NEW t \in Tasks, relocateLock(t) PROVE DiskInv' /\ TaskInv' /\ RecoveryDecides'
  <2>1. SameDisk(t)
    BY <1>15, <1>p DEF SameDisk, relocateLock, takeMarkers, Goto, Done, Return, Fault,
       Note, Disk, Env
  <2>2. pc[t] = "moveLock" /\ pc'[t] \in {"moveLock", "moveBegin"} /\ from' = from /\ to' = to
    BY <1>15, <1>p DEF relocateLock, takeMarkers, Goto
  <2>3. TaskOf(t)'
    BY <2>1, <2>2, <1>t DEF TaskOf, SameDisk, Sane, PurgeLabels, MovePath, BeforeUpdate, Journaled
  <2> QED
    BY <2>1, <2>3, SameDiskStep
<1>16. ASSUME NEW t \in Tasks, relocateBusy(t) PROVE DiskInv' /\ TaskInv' /\ RecoveryDecides'
  <2>1. SameDisk(t)
    BY <1>16, <1>p DEF SameDisk, relocateBusy, Goto, Done, Return, Fault, Note, Disk, Env
  <2>2. pc'[t] \notin CatalogHeld
    BY <1>16, <1>p DEF relocateBusy, Return, Done, Goto, CatalogHeld, PurgeLabels, MovePath
  <2> QED
    BY <2>1, <2>2, FreeTask, SameDiskStep
<1>17. ASSUME NEW t \in Tasks, relocateBegin(t) PROVE DiskInv' /\ TaskInv' /\ RecoveryDecides'
  <2>1. SameDisk(t)
    BY <1>17, <1>p DEF SameDisk, relocateBegin, Goto, Done, Return, Fault, Note, Disk, Env
  <2>2. /\ pc[t] = "moveBegin" /\ from' = from /\ to' = to
        /\ pc'[t] = "moveEnd" \/ (pc'[t] = "moveJournal" /\ to[t] # from[t])
    BY <1>17, <1>p DEF relocateBegin, Goto
  <2>3. TaskOf(t)'
    BY <2>1, <2>2, <1>t DEF TaskOf, SameDisk, Sane, PurgeLabels, MovePath, BeforeUpdate, Journaled
  <2> QED
    BY <2>1, <2>3, SameDiskStep
<1>18. ASSUME NEW t \in Tasks, relocateRefused(t) PROVE DiskInv' /\ TaskInv' /\ RecoveryDecides'
  <2>1. SameDisk(t)
    BY <1>18, <1>p DEF SameDisk, relocateRefused, Goto, Done, Return, Fault, Note, Disk, Env
  <2>2. pc'[t] \notin CatalogHeld
    BY <1>18, <1>p DEF relocateRefused, Return, Done, Goto, CatalogHeld, PurgeLabels, MovePath
  <2> QED
    BY <2>1, <2>2, FreeTask, SameDiskStep
<1>19. ASSUME NEW t \in Tasks, relocateRenameFails(t) PROVE DiskInv' /\ TaskInv' /\ RecoveryDecides'
  <2>1. SameDisk(t)
    BY <1>19, <1>p DEF SameDisk, relocateRenameFails, Goto, Done, Return, Fault, Note, Disk, Env
  <2>2. pc[t] = "moveRename" /\ pc'[t] = "moveEnd" /\ from' = from /\ to' = to
    BY <1>19, <1>p DEF relocateRenameFails, Goto
  <2>3. TaskOf(t)'
    BY <2>1, <2>2, <1>t DEF TaskOf, SameDisk, Sane, PurgeLabels, MovePath, BeforeUpdate, Journaled
  <2> QED
    BY <2>1, <2>3, SameDiskStep
<1>20. ASSUME NEW t \in Tasks, relocateFails(t) PROVE DiskInv' /\ TaskInv' /\ RecoveryDecides'
  <2>1. SameDisk(t)
    BY <1>20, <1>p DEF SameDisk, relocateFails, Goto, Done, Return, Fault, Note, Disk, Env
  <2>2. pc[t] \in {"moveUpdate", "moveClear"} /\ pc'[t] = "moveBack" /\ from' = from /\ to' = to
    BY <1>20, <1>p DEF relocateFails, Goto
  <2>3. TaskOf(t)'
    BY <2>1, <2>2, <1>t DEF TaskOf, SameDisk, Sane, PurgeLabels, MovePath, BeforeUpdate, Journaled
  <2> QED
    BY <2>1, <2>3, SameDiskStep
<1>21. ASSUME NEW t \in Tasks, relocateUndoFails(t) PROVE DiskInv' /\ TaskInv' /\ RecoveryDecides'
  <2>1. SameDisk(t)
    BY <1>21, <1>p DEF SameDisk, relocateUndoFails, Goto, Done, Return, Fault, Note, Disk, Env
  <2>2. pc[t] \in {"moveBack", "moveUndone"} /\ pc'[t] = "moveEnd" /\ from' = from /\ to' = to
    BY <1>21, <1>p DEF relocateUndoFails, Goto
  <2>3. TaskOf(t)'
    BY <2>1, <2>2, <1>t DEF TaskOf, SameDisk, Sane, PurgeLabels, MovePath, BeforeUpdate, Journaled
  <2> QED
    BY <2>1, <2>3, SameDiskStep
<1>22. ASSUME NEW t \in Tasks, relocateEnd(t) PROVE DiskInv' /\ TaskInv' /\ RecoveryDecides'
  <2>1. SameDisk(t)
    BY <1>22, <1>p DEF SameDisk, relocateEnd, Goto, Done, Return, Fault, Note, Disk, Env
  <2>2. pc'[t] \notin CatalogHeld
    BY <1>22, <1>p DEF relocateEnd, Return, Done, Goto, CatalogHeld, PurgeLabels, MovePath
  <2> QED
    BY <2>1, <2>2, FreeTask, SameDiskStep
<1>23. ASSUME NEW t \in Tasks, recoverStart(t) PROVE DiskInv' /\ TaskInv' /\ RecoveryDecides'
  <2>1. SameDisk(t)
    BY <1>23, <1>p DEF SameDisk, recoverStart, Goto, Done, Return, Fault, Note, Disk, Env
  <2>2. /\ pc[t] = "idle"
        /\ \/ pc'[t] = "idle"
           \/ /\ pc'[t] = "recoverLock" /\ journal.owner = "dead"
              /\ from'[t] = journal.from /\ to'[t] = journal.to
    BY <1>23, <1>p DEF recoverStart, Goto
  <2>3. TaskOf(t)'
    BY <2>1, <2>2, <1>t DEF TaskOf, SameDisk, Sane, PurgeLabels, MovePath, BeforeUpdate, Journaled
  <2> QED
    BY <2>1, <2>3, SameDiskStep
<1>24. ASSUME NEW t \in Tasks, recoverLock(t) PROVE DiskInv' /\ TaskInv' /\ RecoveryDecides'
  <2>1. SameDisk(t)
    BY <1>24, <1>p DEF SameDisk, recoverLock, takeMarkers, Goto, Done, Return, Fault,
       Note, Disk, Env
  <2>2. pc[t] = "recoverLock" /\ pc'[t] \in {"recoverLock", "recoverSettle"} /\ from' = from /\ to' = to
    BY <1>24, <1>p DEF recoverLock, takeMarkers, Goto
  <2>3. TaskOf(t)'
    BY <2>1, <2>2, <1>t DEF TaskOf, SameDisk, Sane, PurgeLabels, MovePath, BeforeUpdate, Journaled
  <2> QED
    BY <2>1, <2>3, SameDiskStep
<1>25. ASSUME NEW t \in Tasks, recoverBusy(t) PROVE DiskInv' /\ TaskInv' /\ RecoveryDecides'
  <2>1. SameDisk(t)
    BY <1>25, <1>p DEF SameDisk, recoverBusy, Fail, Goto, Done, Return, Fault, Note, Disk, Env
  <2>2. pc'[t] \notin CatalogHeld
    BY <1>25, <1>p DEF recoverBusy, Fail, Return, Done, Goto, CatalogHeld, PurgeLabels, MovePath
  <2> QED
    BY <2>1, <2>2, FreeTask, SameDiskStep
<1>26. ASSUME NEW t \in Tasks, openRead(t) PROVE DiskInv' /\ TaskInv' /\ RecoveryDecides'
  <2>1. SameDisk(t)
    BY <1>26, <1>p DEF SameDisk, openRead, Goto, Done, Return, Fault, Note, Disk, Env
  <2>2. pc'[t] \notin CatalogHeld
    BY <1>26, <1>p DEF openRead, Return, Done, Goto, CatalogHeld, PurgeLabels, MovePath
  <2> QED
    BY <2>1, <2>2, FreeTask, SameDiskStep
<1>27. ASSUME NEW t \in Tasks, closeHandle(t) PROVE DiskInv' /\ TaskInv' /\ RecoveryDecides'
  <2>1. SameDisk(t)
    BY <1>27, <1>p DEF SameDisk, closeHandle, Goto, Done, Return, Fault, Note, Disk, Env
  <2>2. pc'[t] \notin CatalogHeld
    BY <1>27, <1>p DEF closeHandle, Return, Done, Goto, CatalogHeld, PurgeLabels, MovePath
  <2> QED
    BY <2>1, <2>2, FreeTask, SameDiskStep
<1>28. ASSUME NEW t \in Tasks, purgeStart(t) PROVE DiskInv' /\ TaskInv' /\ RecoveryDecides'
  <2>1. SameDisk(t)
    BY <1>28, <1>p DEF SameDisk, purgeStart, Goto, Done, Return, Fault, Note, Disk, Env
  <2>2. pc'[t] = "purgeLock" /\ from'[t] = row.path
    BY <1>28, <1>p DEF purgeStart, Goto
  <2>3. TaskOf(t)'
    BY <2>1, <2>2, <1>t DEF TaskOf, SameDisk, Sane, PurgeLabels, MovePath, BeforeUpdate, Journaled
  <2> QED
    BY <2>1, <2>3, SameDiskStep
<1>29. ASSUME NEW t \in Tasks, NEW path \in Paths, relocateStart(t, path) PROVE DiskInv' /\ TaskInv' /\ RecoveryDecides'
  <2>1. SameDisk(t)
    BY <1>29, <1>p DEF SameDisk, relocateStart, Goto, Done, Return, Fault, Note, Disk, Env
  <2>2. /\ pc'[t] = "moveLock" /\ from'[t] = row.path
        /\ row.status = "registered"
    BY <1>29, <1>p DEF relocateStart, Goto
  <2>3. TaskOf(t)'
    BY <2>1, <2>2, <1>t DEF TaskOf, SameDisk, Sane, PurgeLabels, MovePath, BeforeUpdate, Journaled
  <2> QED
    BY <2>1, <2>3, SameDiskStep
<1>30. ASSUME NEW t \in Tasks, markWorkspaceRemoved(t) PROVE DiskInv' /\ TaskInv' /\ RecoveryDecides'
  <2>1. \A u \in Tasks \ {t} : pc'[u] \notin CatalogHeld
    <3>1. lock[Catalog] = NoTask \/ pc[t] \in CatalogHeld
      BY <1>30 DEF markWorkspaceRemoved, CatalogHeld, PurgeLabels, MovePath
    <3>2. \A u \in Tasks \ {t} : pc'[u] = pc[u]
      BY <1>30, <1>0 DEF markWorkspaceRemoved, Goto, Done, TypeInv
    <3> QED
      BY <1>0, <3>1, <3>2, HolderAlone
  <2>2. TaskOf(t)'
    BY <1>30, <1>0 DEF TaskOf, markWorkspaceRemoved, PurgeLabels, MovePath, BeforeUpdate, Journaled
  <2>3. DiskInv'
    <3>1. Sane' = Sane /\ incidents' = incidents /\ file' = file /\ journal' = journal
      BY <1>30 DEF markWorkspaceRemoved, Sane, Env
    <3>2. row'.status = "removed" /\ row'.path = row.path /\ row.status = "registered"
      BY <1>30, <1>0 DEF markWorkspaceRemoved, DataType
    <3>3. Intact => Intact'
      BY <3>1, <3>2 DEF Intact
    <3>4. ~Deleted
      BY <3>2 DEF Deleted
    <3> QED
      BY <3>1, <3>2, <3>3, <3>4 DEF DiskInv
  <2>4. RecoveryDecides'
    BY <1>30 DEF RecoveryDecides, markWorkspaceRemoved, Env, Note
  <2> QED
    BY <2>1, <2>2, <2>3, <2>4, AloneTasks
<1>31. ASSUME NEW t \in Tasks, purgeDelete(t) PROVE DiskInv' /\ TaskInv' /\ RecoveryDecides'
  <2>1. \A u \in Tasks \ {t} : pc'[u] \notin CatalogHeld
    <3>1. lock[Catalog] = NoTask \/ pc[t] \in CatalogHeld
      BY <1>31 DEF purgeDelete, CatalogHeld, PurgeLabels, MovePath
    <3>2. \A u \in Tasks \ {t} : pc'[u] = pc[u]
      BY <1>31, <1>0 DEF purgeDelete, Goto, Done, TypeInv
    <3> QED
      BY <1>0, <3>1, <3>2, HolderAlone
  <2>0. /\ row' = row /\ journal' = journal /\ from[t] = row.path /\ row.status = "removed"
        /\ file' = [file EXCEPT ![row.path] = "none"] /\ row.path \in Paths
        /\ incidents \subseteq incidents'
        /\ incidents' \subseteq incidents \cup {"unsettled", "unseen"}
        /\ journal # NoJournal => "unsettled" \in incidents'
    BY <1>31, <1>0, <1>t DEF purgeDelete, Note, Foreign, TaskOf, DataType, PurgeLabels
  <2>5. Sane' => Deleted'
    <3> SUFFICES ASSUME Sane' PROVE Deleted'
      OBVIOUS
    <3>1. journal = NoJournal /\ Sane
      BY <2>0 DEF Sane
    <3>2. Deleted \/ Intact
      BY <3>1 DEF DiskInv
    <3>3. \A p \in Paths \ {row.path} : file[p] = "none"
      BY <3>1, <3>2 DEF Deleted, Intact
    <3> QED
      BY <2>0, <3>1, <3>3, <1>0 DEF Deleted, DataType
  <2>2. TaskOf(t)'
    <3>1. pc'[t] = "purgeForget" /\ from' = from
      BY <1>31, <1>0 DEF purgeDelete, Goto, ControlType
    <3> QED
      BY <2>0, <2>5, <3>1 DEF TaskOf, PurgeLabels, MovePath, BeforeUpdate, Journaled
  <2>3. DiskInv'
    BY <2>0, <2>5 DEF DiskInv
  <2>4. RecoveryDecides'
    BY <1>31, <2>0 DEF RecoveryDecides, purgeDelete
  <2> QED
    BY <2>1, <2>2, <2>3, <2>4, AloneTasks
<1>32. ASSUME NEW t \in Tasks, purgeForget(t) PROVE DiskInv' /\ TaskInv' /\ RecoveryDecides'
  <2>1. \A u \in Tasks \ {t} : pc'[u] \notin CatalogHeld
    <3>1. lock[Catalog] = NoTask \/ pc[t] \in CatalogHeld
      BY <1>32 DEF purgeForget, CatalogHeld, PurgeLabels, MovePath
    <3>2. \A u \in Tasks \ {t} : pc'[u] = pc[u]
      BY <1>32, <1>0 DEF purgeForget, Goto, Done, TypeInv
    <3> QED
      BY <1>0, <3>1, <3>2, HolderAlone
  <2>2. TaskOf(t)'
    BY <1>32, <1>0 DEF TaskOf, purgeForget, Done, Goto, ControlType, PurgeLabels,
       MovePath, BeforeUpdate, Journaled
  <2>3. DiskInv'
    <3>1. Sane' = Sane /\ incidents' = incidents /\ file' = file /\ journal' = NoJournal
      BY <1>32 DEF purgeForget, Sane, Env
    <3>2. row'.status = "absent"
      BY <1>32, <1>0 DEF purgeForget, DataType
    <3>3. Sane => Deleted
      BY <1>32, <1>t DEF TaskOf, purgeForget
    <3>4. Deleted => Deleted'
      BY <3>1, <3>2 DEF Deleted
    <3> QED
      BY <3>1, <3>2, <3>3, <3>4 DEF DiskInv
  <2>4. RecoveryDecides'
    BY <1>32 DEF RecoveryDecides, purgeForget, Env, Note
  <2> QED
    BY <2>1, <2>2, <2>3, <2>4, AloneTasks
<1>33. ASSUME NEW t \in Tasks, relocateJournal(t) PROVE DiskInv' /\ TaskInv' /\ RecoveryDecides'
  <2>1. \A u \in Tasks \ {t} : pc'[u] \notin CatalogHeld
    <3>1. lock[Catalog] = NoTask \/ pc[t] \in CatalogHeld
      BY <1>33 DEF relocateJournal, CatalogHeld, PurgeLabels, MovePath
    <3>2. \A u \in Tasks \ {t} : pc'[u] = pc[u]
      BY <1>33, <1>0 DEF relocateJournal, Goto, Done, TypeInv
    <3> QED
      BY <1>0, <3>1, <3>2, HolderAlone
  <2>0. /\ row' = row /\ file' = file /\ incidents' = incidents /\ from' = from /\ to' = to
        /\ from[t] # to[t] /\ row.status = "registered" /\ row.path = from[t]
    BY <1>33, <1>t DEF relocateJournal, TaskOf, Use, Env, PurgeLabels, MovePath,
       BeforeUpdate, Journaled
  <2>5. \/ journal' = journal /\ pc'[t] = "moveEnd"
        \/ journal' # NoJournal /\ journal'.from = from[t] /\ journal'.to = to[t] /\ pc'[t] = "moveRename"
    <3>1. CASE journal = NoJournal
      <4>1. journal' = [owner |-> Home[t], from |-> from[t], to |-> to[t]] /\ pc'[t] = "moveRename"
        BY <3>1, <1>33, <1>0 DEF relocateJournal, Goto, ControlType
      <4>2. journal' # NoJournal
        BY <4>1, <2>0 DEF NoJournal
      <4> QED
        BY <4>1, <4>2
    <3>2. CASE journal # NoJournal
      BY <3>2, <1>33, <1>0 DEF relocateJournal, Goto, ControlType
    <3> QED
      BY <3>1, <3>2
  <2>2. TaskOf(t)'
    BY <2>0, <2>5 DEF TaskOf, PurgeLabels, MovePath, BeforeUpdate, Journaled
  <2>3. DiskInv'
    <3>1. Sane' = Sane
      BY <2>0 DEF Sane
    <3>2. Intact => Intact'
      BY <2>0, <2>5 DEF Intact
    <3>3. ~Deleted
      BY <2>0 DEF Deleted
    <3> QED
      BY <2>0, <2>5, <3>1, <3>2, <3>3 DEF DiskInv
  <2>4. RecoveryDecides'
    BY <1>33 DEF RecoveryDecides, relocateJournal, Env, Note
  <2> QED
    BY <2>1, <2>2, <2>3, <2>4, AloneTasks
<1>34. ASSUME NEW t \in Tasks, relocateRename(t) PROVE DiskInv' /\ TaskInv' /\ RecoveryDecides'
  <2>1. \A u \in Tasks \ {t} : pc'[u] \notin CatalogHeld
    <3>1. lock[Catalog] = NoTask \/ pc[t] \in CatalogHeld
      BY <1>34 DEF relocateRename, CatalogHeld, PurgeLabels, MovePath
    <3>2. \A u \in Tasks \ {t} : pc'[u] = pc[u]
      <4>1. pc' = [pc EXCEPT ![t] = "moveUpdate"] /\ pc \in [Tasks -> Labels]
        BY <1>34, <1>0 DEF relocateRename, Goto, TypeInv, ControlType
      <4> QED
        BY <4>1
    <3> QED
      BY <1>0, <3>1, <3>2, HolderAlone
  <2>0. /\ row' = row /\ journal' = journal /\ proc' = proc /\ from' = from /\ to' = to
        /\ from[t] # to[t] /\ row.status = "registered" /\ row.path = from[t] /\ journal # NoJournal
        /\ pc'[t] = "moveUpdate" /\ file[from[t]] # "none"
    BY <1>34, <1>0, <1>t DEF relocateRename, TaskOf, Use, Goto, ControlType,
       PurgeLabels, MovePath, BeforeUpdate, Journaled
  <2>8. incidents \subseteq incidents' /\ incidents' \subseteq incidents \cup {"unseen"}
    BY <1>34 DEF relocateRename, Note, Foreign
  <2>5. /\ from[t] \in Paths /\ to[t] \in Paths
        /\ file'[to[t]] = file[from[t]] /\ file'[from[t]] = "none" /\ Paths = {from[t], to[t]}
    BY <1>34, <1>0, <2>0 DEF relocateRename, Renamed, ControlType, DataType, Paths
  <2>6. Sane => file[from[t]] = "data"
    BY <2>0, <2>5 DEF DiskInv, Deleted, Intact
  <2>7. Sane' = Sane
    BY <2>8 DEF Sane
  <2>2. TaskOf(t)'
    BY <2>0, <2>5, <2>6, <2>7 DEF TaskOf, PurgeLabels, MovePath, BeforeUpdate, Journaled
  <2>3. DiskInv'
    <3>1. Sane => Intact'
      BY <2>0, <2>5, <2>6 DEF Intact
    <3> QED
      BY <2>0, <2>7, <2>8, <3>1 DEF DiskInv
  <2>4. RecoveryDecides'
    BY <2>0, <2>8 DEF RecoveryDecides
  <2> QED
    BY <2>1, <2>2, <2>3, <2>4, AloneTasks
<1>35. ASSUME NEW t \in Tasks, relocateUpdate(t) PROVE DiskInv' /\ TaskInv' /\ RecoveryDecides'
  <2>1. \A u \in Tasks \ {t} : pc'[u] \notin CatalogHeld
    <3>1. lock[Catalog] = NoTask \/ pc[t] \in CatalogHeld
      BY <1>35 DEF relocateUpdate, CatalogHeld, PurgeLabels, MovePath
    <3>2. \A u \in Tasks \ {t} : pc'[u] = pc[u]
      BY <1>35, <1>0 DEF relocateUpdate, Goto, Done, TypeInv
    <3> QED
      BY <1>0, <3>1, <3>2, HolderAlone
  <2>0. /\ file' = file /\ journal' = journal /\ incidents' = incidents /\ from' = from /\ to' = to
        /\ from[t] # to[t] /\ row.status = "registered" /\ journal # NoJournal
        /\ pc'[t] = "moveClear"
    BY <1>35, <1>0, <1>t DEF relocateUpdate, TaskOf, Use, Env, Goto, ControlType,
       PurgeLabels, MovePath, BeforeUpdate, Journaled
  <2>5. row'.status = "registered" /\ row'.path = to[t]
    BY <1>35, <1>0, <2>0 DEF relocateUpdate, DataType
  <2>6. file[to[t]] # "none" /\ (Sane => file[to[t]] = "data")
    BY <1>35, <1>t DEF TaskOf, relocateUpdate
  <2>7. Sane' = Sane
    BY <2>0 DEF Sane
  <2>2. TaskOf(t)'
    BY <2>0, <2>5, <2>6, <2>7 DEF TaskOf, PurgeLabels, MovePath, BeforeUpdate, Journaled
  <2>3. DiskInv'
    <3>1. Intact => Intact'
      BY <2>0, <2>5 DEF Intact
    <3>2. ~Deleted
      BY <2>0 DEF Deleted
    <3>3. "unsettled" \notin incidents
      BY <2>0 DEF DiskInv
    <3> QED
      BY <2>0, <2>7, <3>1, <3>2, <3>3 DEF DiskInv
  <2>4. RecoveryDecides'
    BY <1>35 DEF RecoveryDecides, relocateUpdate, Env, Note
  <2> QED
    BY <2>1, <2>2, <2>3, <2>4, AloneTasks
<1>36. ASSUME NEW t \in Tasks, relocateClear(t) PROVE DiskInv' /\ TaskInv' /\ RecoveryDecides'
  <2>1. \A u \in Tasks \ {t} : pc'[u] \notin CatalogHeld
    <3>1. lock[Catalog] = NoTask \/ pc[t] \in CatalogHeld
      BY <1>36 DEF relocateClear, CatalogHeld, PurgeLabels, MovePath
    <3>2. \A u \in Tasks \ {t} : pc'[u] = pc[u]
      BY <1>36, <1>0 DEF relocateClear, Goto, Done, TypeInv
    <3> QED
      BY <1>0, <3>1, <3>2, HolderAlone
  <2>0. /\ row' = row /\ file' = file /\ journal' = NoJournal /\ incidents' = incidents
        /\ from' = from /\ to' = to /\ row.status = "registered" /\ pc'[t] = "moveEnd"
    BY <1>36, <1>0, <1>t DEF relocateClear, TaskOf, Use, Env, Goto, ControlType,
       PurgeLabels, MovePath, BeforeUpdate, Journaled
  <2>5. to[t] \in Paths
    BY <1>p
  <2>6. Sane => file[to[t]] = "data" /\ row.path = to[t]
    BY <1>36, <1>t DEF TaskOf, relocateClear
  <2>7. Sane' = Sane
    BY <2>0 DEF Sane
  <2>2. TaskOf(t)'
    BY <2>0 DEF TaskOf, PurgeLabels, MovePath, BeforeUpdate, Journaled
  <2>3. DiskInv'
    <3>1. Sane => Intact
      BY <2>0 DEF DiskInv, Deleted
    <3>2. Sane => Intact'
      BY <2>0, <2>5, <2>6, <3>1 DEF Intact
    <3> QED
      BY <2>0, <2>7, <3>2 DEF DiskInv
  <2>4. RecoveryDecides'
    BY <1>36 DEF RecoveryDecides, relocateClear, Env, Note
  <2> QED
    BY <2>1, <2>2, <2>3, <2>4, AloneTasks
<1>37. ASSUME NEW t \in Tasks, relocateUndone(t) PROVE DiskInv' /\ TaskInv' /\ RecoveryDecides'
  <2>1. \A u \in Tasks \ {t} : pc'[u] \notin CatalogHeld
    <3>1. lock[Catalog] = NoTask \/ pc[t] \in CatalogHeld
      BY <1>37 DEF relocateUndone, CatalogHeld, PurgeLabels, MovePath
    <3>2. \A u \in Tasks \ {t} : pc'[u] = pc[u]
      BY <1>37, <1>0 DEF relocateUndone, Goto, Done, TypeInv
    <3> QED
      BY <1>0, <3>1, <3>2, HolderAlone
  <2>0. /\ row' = row /\ file' = file /\ journal' = NoJournal /\ incidents' = incidents
        /\ from' = from /\ to' = to /\ row.status = "registered" /\ pc'[t] = "moveEnd"
    BY <1>37, <1>0, <1>t DEF relocateUndone, TaskOf, Use, Env, Goto, ControlType,
       PurgeLabels, MovePath, BeforeUpdate, Journaled
  <2>5. from[t] \in Paths
    BY <1>p
  <2>6. Sane => file[from[t]] = "data" /\ row.path = from[t]
    BY <1>37, <1>t DEF TaskOf, relocateUndone
  <2>7. Sane' = Sane
    BY <2>0 DEF Sane
  <2>2. TaskOf(t)'
    BY <2>0 DEF TaskOf, PurgeLabels, MovePath, BeforeUpdate, Journaled
  <2>3. DiskInv'
    <3>1. Sane => Intact
      BY <2>0 DEF DiskInv, Deleted
    <3>2. Sane => Intact'
      BY <2>0, <2>5, <2>6, <3>1 DEF Intact
    <3> QED
      BY <2>0, <2>7, <3>2 DEF DiskInv
  <2>4. RecoveryDecides'
    BY <1>37 DEF RecoveryDecides, relocateUndone, Env, Note
  <2> QED
    BY <2>1, <2>2, <2>3, <2>4, AloneTasks
<1>38. ASSUME NEW t \in Tasks, relocateBack(t) PROVE DiskInv' /\ TaskInv' /\ RecoveryDecides'
  <2>1. \A u \in Tasks \ {t} : pc'[u] \notin CatalogHeld
    <3>1. lock[Catalog] = NoTask \/ pc[t] \in CatalogHeld
      BY <1>38 DEF relocateBack, CatalogHeld, PurgeLabels, MovePath
    <3>2. \A u \in Tasks \ {t} : pc'[u] = pc[u]
      BY <1>38, <1>0 DEF relocateBack, Goto, Done, TypeInv
    <3> QED
      BY <1>0, <3>1, <3>2, HolderAlone
  <2>0. /\ row' = row /\ journal' = journal /\ from' = from /\ to' = to
        /\ from[t] # to[t] /\ row.status = "registered" /\ journal # NoJournal
        /\ pc'[t] = "moveUndone"
    BY <1>38, <1>0, <1>t DEF relocateBack, TaskOf, Use, Goto, ControlType,
       PurgeLabels, MovePath, BeforeUpdate, Journaled
  <2>7. /\ incidents \subseteq incidents'
        /\ incidents' \subseteq incidents \cup {"unrestored", "unseen"}
        /\ row.path = to[t] => "unrestored" \in incidents'
    BY <1>38 DEF relocateBack, Note, Foreign
  <2>5. /\ from[t] \in Paths /\ to[t] \in Paths /\ row.path \in Paths
        /\ file'[from[t]] = file[to[t]] /\ file'[to[t]] = "none" /\ Paths = {from[t], to[t]}
    BY <1>38, <1>0, <2>0 DEF relocateBack, Renamed, ControlType, DataType, Paths
  <2>6. Sane' => Sane /\ row.path = from[t] /\ file[to[t]] = "data"
    <3>1. Sane' => Sane /\ row.path # to[t]
      BY <2>7 DEF Sane
    <3>2. Sane => file[to[t]] = "data"
      BY <1>38, <1>t DEF TaskOf, relocateBack
    <3> QED
      BY <3>1, <3>2, <2>5
  <2>2. TaskOf(t)'
    BY <2>0, <2>5, <2>6 DEF TaskOf, PurgeLabels, MovePath, BeforeUpdate, Journaled
  <2>3. DiskInv'
    <3>1. Sane' => Intact'
      BY <2>0, <2>5, <2>6 DEF Intact
    <3>2. "unsettled" \in incidents' => "unsettled" \in incidents
      BY <2>7
    <3> QED
      BY <2>0, <3>1, <3>2 DEF DiskInv
  <2>4. RecoveryDecides'
    BY <1>38, <2>7 DEF RecoveryDecides, relocateBack
  <2> QED
    BY <2>1, <2>2, <2>3, <2>4, AloneTasks
<1>39. ASSUME NEW t \in Tasks, recoverSettle(t) PROVE DiskInv' /\ TaskInv' /\ RecoveryDecides'
  <2>1. \A u \in Tasks \ {t} : pc'[u] \notin CatalogHeld
    <3>1. lock[Catalog] = NoTask \/ pc[t] \in CatalogHeld
      BY <1>39 DEF recoverSettle, CatalogHeld, PurgeLabels, MovePath
    <3>2. \A u \in Tasks \ {t} : pc'[u] = pc[u]
      BY <1>39, <1>0 DEF recoverSettle, Goto, Done, TypeInv
    <3> QED
      BY <1>0, <3>1, <3>2, HolderAlone
  <2>0. /\ file' = file /\ journal' = journal /\ incidents' = incidents /\ proc' = proc
        /\ pc'[t] = "recoverClear" /\ from' = from /\ to' = to
        /\ journal.owner = "dead" /\ journal.from = from[t] /\ journal.to = to[t]
    BY <1>39, <1>0, <1>t DEF recoverSettle, TaskOf, Goto, ControlType, Env
  <2>5. PICK p \in Settled(t) : row' = [row EXCEPT !.path = p]
    BY <1>39 DEF recoverSettle
  <2>6. /\ row'.path = p /\ row'.status = row.status /\ p \in Paths
        /\ file[p] # "none"
    BY <2>5, <1>0 DEF DataType, ControlType, Settled
  <2>7. Sane' = Sane /\ journal # NoJournal
    BY <2>0 DEF Sane, NoJournal
  <2>2. TaskOf(t)'
    BY <2>0, <2>6 DEF TaskOf, PurgeLabels, MovePath, BeforeUpdate, Journaled
  <2>3. DiskInv'
    <3>1. Sane => Intact
      BY <2>7 DEF DiskInv, Deleted
    <3>2. Sane => Intact'
      BY <2>0, <2>6, <2>7, <3>1 DEF Intact
    <3>3. "unsettled" \in incidents' => row'.status # "registered"
      BY <2>0, <2>6 DEF DiskInv
    <3> QED
      BY <2>0, <2>7, <3>2, <3>3 DEF DiskInv
  <2>4. RecoveryDecides'
    BY <2>0 DEF RecoveryDecides
  <2> QED
    BY <2>1, <2>2, <2>3, <2>4, AloneTasks
<1>40. ASSUME NEW t \in Tasks, recoverGivesUp(t) PROVE DiskInv' /\ TaskInv' /\ RecoveryDecides'
  <2>1. /\ row' = row /\ file' = file /\ journal' = journal /\ incidents' = incidents
        /\ pc'[t] = "idle" /\ \A u \in Tasks \ {t} : pc'[u] = pc[u]
    BY <1>40, <1>0 DEF recoverGivesUp, Done, Goto, Disk, ControlType
  <2>2. /\ journal.owner = "dead" /\ journal.from = from[t] /\ journal.to = to[t]
        /\ journal # NoJournal /\ from[t] \in Paths /\ to[t] \in Paths /\ row.path \in Paths
        /\ pc[t] \in CatalogHeld
    <3>1. journal.owner = "dead" /\ journal.from = from[t] /\ journal.to = to[t]
      BY <1>40, <1>t DEF recoverGivesUp, TaskOf
    <3>2. journal # NoJournal
      BY <3>1 DEF NoJournal
    <3>3. pc[t] \in CatalogHeld
      BY <1>40 DEF recoverGivesUp, CatalogHeld
    <3>4. row.path \in Paths
      BY <1>0 DEF DataType
    <3> QED
      BY <3>1, <3>2, <3>3, <3>4, <1>p
  <2>3. Paths = {from[t], to[t]}
    BY <2>2 DEF DiskInv, Paths
  <2>4. ~Sane
    <3> SUFFICES ASSUME Sane PROVE FALSE
      OBVIOUS
    <3>1. Intact
      BY <2>2 DEF DiskInv, Deleted
    <3>2. PICK p \in Paths : file[p] = "data" /\ \A q \in Paths \ {p} : file[q] = "none"
      BY <3>1 DEF Intact
    <3>3. p \in Settled(t)
      BY <2>2, <2>3, <3>2 DEF Settled
    <3> QED
      BY <3>3, <1>40 DEF recoverGivesUp
  <2>5. RecoveryDecides'
    BY <2>1, <2>4 DEF RecoveryDecides, Sane
  <2>6. DiskInv'
    BY <2>1 DEF DiskInv, Sane, Deleted, Intact
  <2>7. \A u \in Tasks \ {t} : pc'[u] \notin CatalogHeld
    BY <1>0, <2>1, <2>2, HolderAlone
  <2>8. TaskOf(t)'
    BY <2>1 DEF TaskOf, PurgeLabels, MovePath, BeforeUpdate, Journaled
  <2> QED
    BY <2>5, <2>6, <2>7, <2>8, AloneTasks
<1>41. ASSUME NEW t \in Tasks, openDatabase(t) \/ openDatabaseFails(t)
       PROVE  DiskInv' /\ TaskInv' /\ RecoveryDecides'
  <2>1. /\ \A p \in Paths : file[p] # "none" => file'[p] # "none"
        /\ from' = from /\ to' = to /\ incidents \subseteq incidents'
        /\ pc'[t] \in {"openLease", "openUndo"}
        /\ \A u \in Tasks \ {t} : pc'[u] = pc[u]
    BY <1>41, OpensAdd
  <2>2. /\ row' = row /\ journal' = journal /\ proc' = proc /\ row.path \in Paths
        /\ incidents' \subseteq incidents \cup {"created"}
    BY <1>41, <1>0 DEF openDatabase, openDatabaseFails, Note, DataType
  <2>3. file' = file \/ ~Sane'
    <3>1. CASE openDatabase(t)
      BY <3>1, <1>0 DEF openDatabase, Note, ControlType, DataType, Sane
    <3>2. CASE openDatabaseFails(t)
      BY <3>2 DEF openDatabaseFails, Note, Sane
    <3> QED
      BY <3>1, <3>2, <1>41
  <2>4. (Sane' => Sane) /\ ("unsettled" \in incidents' => "unsettled" \in incidents)
    BY <2>1, <2>2 DEF Sane
  <2>5. Sane' => Deleted' = Deleted /\ Intact' = Intact
    BY <2>2, <2>3 DEF Deleted, Intact
  <2>6. DiskInv'
    BY <2>2, <2>4, <2>5 DEF DiskInv
  <2>7. TaskOf(t)'
    BY <2>1 DEF TaskOf, PurgeLabels, MovePath, BeforeUpdate, Journaled
  <2>8. ASSUME NEW u \in Tasks \ {t} PROVE TaskOf(u)'
    <3>1. TaskOf(u) /\ pc'[u] = pc[u] /\ from'[u] = from[u] /\ to'[u] = to[u] /\ to[u] \in Paths
      BY <1>t, <1>p, <2>1
    <3> QED
      BY <2>1, <2>2, <2>3, <2>4, <2>5, <3>1 DEF TaskOf
  <2>9. RecoveryDecides'
    BY <2>1, <2>2 DEF RecoveryDecides
  <2> QED
    BY <2>6, <2>7, <2>8, <2>9 DEF TaskInv
<1>42. ASSUME NEW q \in Processes, crash(q) PROVE DiskInv' /\ TaskInv' /\ RecoveryDecides'
  <2>1. /\ row' = row /\ file' = file /\ incidents' = incidents
        /\ journal'.from = journal.from /\ journal'.to = journal.to
        /\ journal'.owner = IF journal.owner = q THEN "dead" ELSE journal.owner
    BY <1>42, <1>0 DEF crash, DataType
  <2>2. (journal' = NoJournal) <=> (journal = NoJournal)
    <3>1. CASE journal.owner = q
      <4>1. journal'.owner = "dead" /\ journal.owner # "none"
        BY <3>1, <2>1, OwnerAssumption
      <4> QED
        BY <4>1 DEF NoJournal
    <3>2. CASE journal.owner # q
      BY <3>2, <1>42 DEF crash
    <3> QED
      BY <3>1, <3>2
  <2>3. Sane' = Sane /\ Deleted' = Deleted /\ Intact' = Intact
    BY <2>1, <2>2 DEF Sane, Deleted, Intact
  <2>4. DiskInv'
    BY <2>1, <2>2, <2>3 DEF DiskInv
  <2>5. ASSUME NEW t \in Tasks PROVE TaskOf(t)'
    <3>1. CASE Home[t] = q
      <4>1. pc'[t] = "idle"
        BY <3>1, <1>42 DEF crash
      <4> QED
        BY <4>1 DEF TaskOf, PurgeLabels, MovePath, BeforeUpdate, Journaled
    <3>2. CASE Home[t] # q
      <4>1. pc'[t] = pc[t] /\ from'[t] = from[t] /\ to'[t] = to[t] /\ TaskOf(t)
        BY <3>2, <1>42, <1>t DEF crash
      <4> QED
        BY <4>1, <2>1, <2>2, <2>3 DEF TaskOf
    <3> QED
      BY <3>1, <3>2
  <2>6. RecoveryDecides'
    BY <1>42, <1>0 DEF RecoveryDecides, crash, DataType
  <2> QED
    BY <2>4, <2>5, <2>6 DEF TaskInv
<1>43. CASE UNCHANGED vars
  <2>1. Sane' = Sane /\ Deleted' = Deleted /\ Intact' = Intact
    BY <1>43 DEF Sane, Deleted, Intact, vars
  <2>2. DiskInv' /\ RecoveryDecides'
    BY <1>43, <2>1 DEF DiskInv, RecoveryDecides, vars
  <2>3. ASSUME NEW t \in Tasks PROVE TaskOf(t)'
    BY <1>43, <2>1, <1>t DEF TaskOf, vars
  <2> QED
    BY <2>2, <2>3 DEF TaskInv
<1>44. ASSUME NEW t \in Tasks, recoverClear(t) PROVE DiskInv' /\ TaskInv' /\ RecoveryDecides'
  <2>1. \A u \in Tasks \ {t} : pc'[u] \notin CatalogHeld
    <3>1. lock[Catalog] = NoTask \/ pc[t] \in CatalogHeld
      BY <1>44 DEF recoverClear, CatalogHeld, PurgeLabels, MovePath
    <3>2. \A u \in Tasks \ {t} : pc'[u] = pc[u]
      BY <1>44, <1>0 DEF recoverClear, Goto, Done, TypeInv
    <3> QED
      BY <1>0, <3>1, <3>2, HolderAlone
  <2>0. /\ row' = row /\ file' = file /\ journal' = NoJournal /\ incidents' = incidents
        /\ pc'[t] = "idle" /\ journal.owner = "dead" /\ file[row.path] # "none" /\ row.path \in Paths
    BY <1>44, <1>0, <1>t DEF recoverClear, TaskOf, Done, Goto, ControlType, DataType
  <2>5. Sane' = Sane /\ journal # NoJournal
    BY <2>0 DEF Sane, NoJournal
  <2>2. TaskOf(t)'
    BY <2>0 DEF TaskOf, PurgeLabels, MovePath, BeforeUpdate, Journaled
  <2>3. DiskInv'
    <3>1. Sane => Intact
      BY <2>5 DEF DiskInv, Deleted
    <3>2. Sane => Intact'
      BY <2>0, <3>1 DEF Intact
    <3> QED
      BY <2>0, <2>5, <3>2 DEF DiskInv
  <2>4. RecoveryDecides'
    BY <1>44, <1>0, <2>0 DEF RecoveryDecides, recoverClear, DataType
  <2> QED
    BY <2>1, <2>2, <2>3, <2>4, AloneTasks
<1>45. ASSUME NEW t \in Tasks, viewRead(t) PROVE DiskInv' /\ TaskInv' /\ RecoveryDecides'
  <2>1. SameDisk(t)
    BY <1>45, <1>p DEF SameDisk, viewRead, Goto, Done, Return, Note, Disk, Env
  <2>2. pc'[t] \notin CatalogHeld
    BY <1>45, <1>p DEF viewRead, Return, Done, Goto, CatalogHeld, PurgeLabels, MovePath
  <2> QED
    BY <2>1, <2>2, FreeTask, SameDiskStep
<1>46. ASSUME NEW t \in Tasks, viewOpen(t) PROVE DiskInv' /\ TaskInv' /\ RecoveryDecides'
  <2>1. SameDisk(t)
    BY <1>46, <1>p DEF SameDisk, viewOpen, Goto, Done, Return, Note, Disk, Env
  <2>2. pc'[t] \notin CatalogHeld
    BY <1>46, <1>p DEF viewOpen, Return, Done, Goto, CatalogHeld, PurgeLabels, MovePath
  <2> QED
    BY <2>1, <2>2, FreeTask, SameDiskStep
<1>47. ASSUME NEW t \in Tasks, viewFails(t) PROVE DiskInv' /\ TaskInv' /\ RecoveryDecides'
  <2>1. SameDisk(t)
    BY <1>47, <1>p DEF SameDisk, viewFails, Goto, Done, Return, Note, Disk, Env
  <2>2. pc'[t] \notin CatalogHeld
    BY <1>47, <1>p DEF viewFails, Return, Done, Goto, CatalogHeld, PurgeLabels, MovePath
  <2> QED
    BY <2>1, <2>2, FreeTask, SameDiskStep
<1>48. ASSUME NEW t \in Tasks, viewCount(t) PROVE DiskInv' /\ TaskInv' /\ RecoveryDecides'
  <2>1. SameDisk(t)
    BY <1>48, <1>p DEF SameDisk, viewCount, Goto, Done, Return, Note, Disk, Env
  <2>2. pc'[t] \notin CatalogHeld
    BY <1>48, <1>p DEF viewCount, Return, Done, Goto, CatalogHeld, PurgeLabels, MovePath
  <2> QED
    BY <2>1, <2>2, FreeTask, SameDiskStep
<1>49. ASSUME NEW t \in Tasks, closeView(t) PROVE DiskInv' /\ TaskInv' /\ RecoveryDecides'
  <2>1. SameDisk(t)
    BY <1>49, <1>p DEF SameDisk, closeView, Goto, Done, Return, Note, Disk, Env
  <2>2. pc'[t] \notin CatalogHeld
    BY <1>49, <1>p DEF closeView, Return, Done, Goto, CatalogHeld, PurgeLabels, MovePath
  <2> QED
    BY <2>1, <2>2, FreeTask, SameDiskStep
<1> QED
  BY <1>1, <1>2, <1>3, <1>4, <1>5, <1>6, <1>7, <1>8, <1>9, <1>10, <1>11, <1>12, <1>13,
     <1>14, <1>15, <1>16, <1>17, <1>18, <1>19, <1>20, <1>21, <1>22, <1>23, <1>24, <1>25,
     <1>26, <1>27, <1>28, <1>29, <1>30, <1>31, <1>32, <1>33, <1>34, <1>35, <1>36, <1>37,
     <1>38, <1>39, <1>40, <1>41, <1>42, <1>43, <1>44, <1>45, <1>46, <1>47, <1>48, <1>49
     DEF Next, Step, Call, Open, Close, View, Purge, Move, Recover

LEMMA CatalogInvariant == Spec => [](TypeInv /\ LockInv /\ DiskInv /\ TaskInv /\ RecoveryDecides)
  BY TypeInit, LockInit, DiskInit, TypeStep, LockStep, DiskStep, PTL DEF Spec

\* When no relocation is journaled, the row of a registered workspace names
\* its own database (relocateWorkspaceSerialized, recoverRelocations), unless
\* an open created one or a rollback left the row behind.
THEOREM CatalogNamesDatabases == Spec => []CatalogNamesDatabase
<1>1. TypeInv /\ DiskInv => CatalogNamesDatabase
  BY DEF TypeInv, DataType, DiskInv, Sane, Deleted, Intact, CatalogNamesDatabase
<1> QED
  BY <1>1, CatalogInvariant, PTL

\* A restart settles every interrupted relocation by itself
\* (recoverRelocations), unless one of the incidents came first.
THEOREM RecoveriesDecide == Spec => []RecoveryDecides
  BY CatalogInvariant, PTL

\* A purge leaves no database behind (purgeWorkspace), unless one of the
\* incidents came first.
THEOREM PurgesLeaveNothing == Spec => []PurgeLeavesNothing
<1>1. DiskInv => PurgeLeavesNothing
  BY DEF DiskInv, Sane, Deleted, Intact, PurgeLeavesNothing
<1> QED
  BY <1>1, CatalogInvariant, PTL

-----------------------------------------------------------------------------
(* The read-only handles.                                                  *)

\* A handle whose file is there, and which no call of its own process that
\* has looked at the open handles is about to delete or rename.
Safe(t) ==
    /\ file[handle[t]] # "none"
    /\ \A u \in Tasks : Home[u] = Home[t] => handle[t] \notin AtRisk(u)

ViewInv ==
    "unseen" \in incidents \/ \A t \in Tasks : pc[t] = "viewing" => Safe(t)

LEMMA ViewInit == Init => ViewInv
  BY DEF Init, ViewInv

\* A step that takes no file away and puts no path at risk.
LEMMA ViewFrame ==
    ASSUME TypeInv, HandleInv, ViewInv, NEW t \in Tasks,
           \A u \in Tasks \ {t} : /\ pc'[u] = pc[u] /\ handle'[u] = handle[u]
                                  /\ from'[u] = from[u] /\ to'[u] = to[u],
           pc'[t] # "viewing", AtRisk(t)' \subseteq AtRisk(t), incidents \subseteq incidents',
           \A p \in Paths : file[p] # "none" => file'[p] # "none"
    PROVE  ViewInv'
<1> SUFFICES ASSUME "unseen" \notin incidents', NEW v \in Tasks, pc'[v] = "viewing"
             PROVE  Safe(v)'
  BY DEF ViewInv
<1>1. v # t /\ pc[v] = "viewing" /\ handle'[v] = handle[v]
  OBVIOUS
<1>2. Safe(v) /\ handle[v] \in Paths
  BY <1>1 DEF ViewInv, HandleInv, Opened, TypeInv, DataType
<1>3. ASSUME NEW u \in Tasks PROVE AtRisk(u)' \subseteq AtRisk(u)
  <2>1. CASE u = t
    BY <2>1
  <2>2. CASE u # t
    <3>1. pc'[u] = pc[u] /\ from'[u] = from[u] /\ to'[u] = to[u]
      BY <2>2
    <3> QED
      BY <3>1 DEF AtRisk
  <2> QED
    BY <2>1, <2>2
<1> QED
  BY <1>1, <1>2, <1>3 DEF Safe

\* The file of one path goes, in a call that had looked at the open handles:
\* no counted handle of its process is there, and another's is an incident.
LEMMA ViewTaken ==
    ASSUME TypeInv, HandleInv, ViewInv, NEW t \in Tasks, NEW p \in Paths, p \in AtRisk(t),
           \A u \in Tasks \ {t} : pc'[u] = pc[u],
           handle' = handle, from' = from, to' = to,
           pc'[t] # "viewing", AtRisk(t)' \subseteq AtRisk(t), incidents \subseteq incidents',
           Foreign(t, p) \subseteq incidents',
           \A q \in Paths \ {p} : file[q] # "none" => file'[q] # "none"
    PROVE  ViewInv'
<1> SUFFICES ASSUME "unseen" \notin incidents', NEW v \in Tasks, pc'[v] = "viewing"
             PROVE  Safe(v)'
  BY DEF ViewInv
<1>1. v # t /\ pc[v] = "viewing"
  OBVIOUS
<1>2. Safe(v) /\ handle[v] \in Paths
  BY <1>1 DEF ViewInv, HandleInv, Opened, TypeInv, DataType
<1>3. \A u \in Tasks : AtRisk(u)' \subseteq AtRisk(u)
  BY DEF AtRisk
<1>4. handle[v] # p
  BY <1>1, <1>2 DEF Foreign, Safe
<1> QED
  BY <1>2, <1>3, <1>4 DEF Safe

LEMMA ViewStep ==
    TypeInv /\ HandleInv /\ TaskInv /\ ViewInv /\ [Next]_vars => ViewInv'
<1> SUFFICES ASSUME TypeInv, HandleInv, TaskInv, ViewInv, [Next]_vars PROVE ViewInv'
  OBVIOUS
<1>0. TypeInv /\ DataType /\ ControlType
  BY DEF TypeInv
<1>h. \A u \in Tasks : pc[u] = "viewing" => handle[u] \in Paths
  BY <1>0 DEF HandleInv, Opened, DataType
<1>1. ASSUME NEW t \in Tasks, SameFile(t) PROVE ViewInv'
  BY <1>1, ViewFrame DEF SameFile
<1>2. ASSUME NEW t \in Tasks, openDatabase(t) \/ openDatabaseFails(t) PROVE ViewInv'
  <2>1. /\ \A p \in Paths : file[p] # "none" => file'[p] # "none"
        /\ from' = from /\ to' = to /\ handle' = handle /\ incidents \subseteq incidents'
        /\ pc'[t] \in {"openLease", "openUndo"}
        /\ \A u \in Tasks \ {t} : pc'[u] = pc[u]
    BY <1>2, OpensAdd
  <2>2. AtRisk(t)' = {}
    BY <2>1 DEF AtRisk
  <2> QED
    BY <2>1, <2>2, ViewFrame
<1>3. ASSUME NEW t \in Tasks, openLease(t) PROVE ViewInv'
  <2>1. /\ \A u \in Tasks \ {t} : /\ pc'[u] = pc[u] /\ handle'[u] = handle[u]
                                  /\ from'[u] = from[u] /\ to'[u] = to[u]
        /\ pc'[t] = "using" /\ incidents' = incidents /\ file' = file
    BY <1>3, <1>0 DEF openLease, Done, Goto, Disk, Env, ControlType, DataType
  <2>2. AtRisk(t)' = {}
    BY <2>1 DEF AtRisk
  <2> QED
    BY <2>1, <2>2, ViewFrame
<1>4. ASSUME NEW t \in Tasks, viewCount(t) PROVE ViewInv'
  <2>1. /\ \A u \in Tasks \ {t} : pc'[u] = pc[u]
        /\ from' = from /\ to' = to /\ handle' = handle /\ file' = file
        /\ pc'[t] = "viewing" /\ incidents \subseteq incidents'
        /\ Overtaken(t) => "unseen" \in incidents'
    BY <1>4, <1>0 DEF viewCount, Goto, Note, Disk, Use, ControlType
  <2>2. \A u \in Tasks : AtRisk(u)' \subseteq AtRisk(u)
    BY <2>1 DEF AtRisk
  <2>3. ~Overtaken(t) => Safe(t)
    BY DEF Overtaken, Safe
  <2>4. \A v \in Tasks : Safe(v) => Safe(v)'
    BY <2>1, <2>2 DEF Safe
  <2> QED
    BY <2>1, <2>3, <2>4 DEF ViewInv
<1>5. ASSUME NEW t \in Tasks, purgeCheck(t) \/ relocateBegin(t) PROVE ViewInv'
  <2>1. /\ \A u \in Tasks \ {t} : pc'[u] = pc[u]
        /\ from' = from /\ to' = to /\ handle' = handle /\ file' = file
        /\ pc'[t] # "viewing" /\ incidents' = incidents /\ ~OpenHere(t, from[t])
    BY <1>5, <1>0 DEF purgeCheck, relocateBegin, MayPurge, MayMove, Goto, Disk, Use, Env, ControlType
  <2>2. AtRisk(t)' \subseteq {from[t]} \cup {p \in Paths : file[p] = "none"}
    <3>1. CASE purgeCheck(t)
      BY <3>1, <1>0, <2>1 DEF purgeCheck, Goto, AtRisk, ControlType
    <3>2. CASE relocateBegin(t)
      <4>1. /\ pc'[t] \in {"moveEnd", "moveJournal"} /\ to[t] \in Paths
            /\ pc'[t] = "moveJournal" => file[to[t]] = "none"
        BY <3>2, <1>0 DEF relocateBegin, Goto, ControlType
      <4> QED
        BY <4>1, <2>1 DEF AtRisk
    <3> QED
      BY <3>1, <3>2, <1>5
  <2> SUFFICES ASSUME "unseen" \notin incidents, NEW v \in Tasks, pc'[v] = "viewing"
               PROVE  Safe(v)'
    BY <2>1 DEF ViewInv
  <2>3. v # t /\ pc[v] = "viewing" /\ Safe(v)
    BY <2>1 DEF ViewInv
  <2>4. Home[v] = Home[t] => handle[v] # from[t]
    BY <2>1, <2>3 DEF OpenHere, CountedHandle
  <2>5. Home[v] = Home[t] => handle[v] \notin AtRisk(t)'
    BY <2>2, <2>3, <2>4 DEF Safe
  <2>6. \A u \in Tasks \ {t} : AtRisk(u)' = AtRisk(u)
    BY <2>1 DEF AtRisk
  <2> QED
    BY <2>1, <2>3, <2>5, <2>6 DEF Safe
<1>6. ASSUME NEW t \in Tasks, purgeDelete(t) PROVE ViewInv'
  <2>1. /\ \A u \in Tasks \ {t} : pc'[u] = pc[u]
        /\ from' = from /\ to' = to /\ handle' = handle
        /\ pc[t] = "purgeDelete" /\ pc'[t] = "purgeForget" /\ from[t] \in Paths
        /\ incidents \subseteq incidents' /\ Foreign(t, from[t]) \subseteq incidents'
    BY <1>6, <1>0 DEF purgeDelete, Goto, Note, Use, ControlType
  <2>2. \A q \in Paths \ {from[t]} : file[q] # "none" => file'[q] # "none"
    BY <1>6, <1>0 DEF purgeDelete, DataType
  <2>3. AtRisk(t)' = {} /\ from[t] \in AtRisk(t)
    BY <2>1 DEF AtRisk
  <2> QED
    BY <2>1, <2>2, <2>3, ViewTaken
<1>7. ASSUME NEW t \in Tasks, relocateRename(t) PROVE ViewInv'
  <2>1. /\ \A u \in Tasks \ {t} : pc'[u] = pc[u]
        /\ from' = from /\ to' = to /\ handle' = handle
        /\ pc[t] = "moveRename" /\ pc'[t] = "moveUpdate" /\ from[t] \in Paths
        /\ incidents \subseteq incidents' /\ Foreign(t, from[t]) \subseteq incidents'
    BY <1>7, <1>0 DEF relocateRename, Goto, Note, Use, ControlType
  <2>2. \A q \in Paths \ {from[t]} : file[q] # "none" => file'[q] # "none"
    BY <1>7, <1>0 DEF relocateRename, Renamed, DataType, ControlType
  <2>3. AtRisk(t)' = AtRisk(t) /\ from[t] \in AtRisk(t)
    BY <2>1 DEF AtRisk
  <2> QED
    BY <2>1, <2>2, <2>3, ViewTaken
<1>8. ASSUME NEW t \in Tasks, relocateBack(t) PROVE ViewInv'
  <2>1. /\ \A u \in Tasks \ {t} : pc'[u] = pc[u]
        /\ from' = from /\ to' = to /\ handle' = handle
        /\ pc[t] = "moveBack" /\ pc'[t] = "moveUndone" /\ to[t] \in Paths
        /\ incidents \subseteq incidents' /\ Foreign(t, to[t]) \subseteq incidents'
    BY <1>8, <1>0 DEF relocateBack, Goto, Note, Use, ControlType
  <2>4. file[to[t]] # "none"
    BY <2>1 DEF TaskInv, TaskOf
  <2>2. \A q \in Paths \ {to[t]} : file[q] # "none" => file'[q] # "none"
    BY <1>8, <1>0, <2>4 DEF relocateBack, Renamed, DataType, ControlType
  <2>3. AtRisk(t)' = {} /\ to[t] \in AtRisk(t)
    BY <2>1 DEF AtRisk
  <2> QED
    BY <2>1, <2>2, <2>3, ViewTaken
<1>9. ASSUME NEW q \in Processes, crash(q) PROVE ViewInv'
  <2>1. /\ file' = file /\ incidents' = incidents
        /\ \A u \in Tasks : pc'[u] = "viewing" => pc[u] = "viewing" /\ handle'[u] = handle[u]
    BY <1>9 DEF crash
  <2>2. ASSUME NEW u \in Tasks PROVE AtRisk(u)' \subseteq AtRisk(u)
    <3>1. pc'[u] = "idle" \/ (pc'[u] = pc[u] /\ from'[u] = from[u] /\ to'[u] = to[u])
      BY <1>9 DEF crash
    <3> QED
      BY <3>1 DEF AtRisk
  <2> QED
    BY <2>1, <2>2 DEF ViewInv, Safe
<1>10. CASE UNCHANGED vars
  BY <1>10 DEF ViewInv, Safe, AtRisk, vars
<1> QED
  BY <1>1, <1>2, <1>3, <1>4, <1>5, <1>6, <1>7, <1>8, <1>9, <1>10, FileSorted DEF FileChange

LEMMA StoreInvariant == Spec => [](IInv /\ DiskInv /\ TaskInv /\ ViewInv)
<1>1. Init => IInv /\ DiskInv /\ TaskInv /\ RecoveryDecides /\ ViewInv
  BY TypeInit, LockInit, UseInit, DiskInit, ViewInit DEF IInv
<1>2. IInv /\ DiskInv /\ TaskInv /\ RecoveryDecides /\ ViewInv /\ [Next]_vars
        => (IInv /\ DiskInv /\ TaskInv /\ RecoveryDecides /\ ViewInv)'
  BY TypeStep, LockStep, LeaseStep, QuietStep, StaysStep, DiskStep, ViewStep DEF IInv
<1> QED
  BY <1>1, <1>2, PTL DEF Spec

\* Nor is one deleted or moved that a task has open read-only, which takes no
\* lease (openWorkspaceReadOnly), unless the task is in another process or its
\* handle was counted after the purge or relocation looked.
THEOREM ReadHandlesStay == Spec => []ReadHandleStays
<1>1. ViewInv => ReadHandleStays
  BY DEF ViewInv, Safe, ReadHandleStays
<1> QED
  BY <1>1, StoreInvariant, PTL

-----------------------------------------------------------------------------
(* The catalog implements the store.                                       *)

\* A step the callers of the store do not see.
Hidden ==
    /\ file' = file /\ handle' = handle /\ incidents' = incidents
    /\ row'.status = row.status
    /\ \A u \in Tasks : pc'[u] = "viewCount" <=> pc[u] = "viewCount"

\* A step they see.
Seen(t) == \/ openDatabase(t) \/ openDatabaseFails(t) \/ openLease(t) \/ openUndo(t)
           \/ closeHandle(t) \/ viewOpen(t) \/ viewCount(t) \/ closeView(t)
           \/ markWorkspaceRemoved(t) \/ purgeDelete(t) \/ purgeForget(t)
           \/ relocateRename(t) \/ relocateBack(t)

LEMMA StepSeen ==
    ASSUME TypeInv, [Next]_vars
    PROVE  \/ Hidden \/ \E t \in Tasks : Seen(t)
           \/ \E p \in Processes : crash(p)
<1>r. row \in [status : {"registered", "removed", "absent"}, path : Paths]
  BY DEF TypeInv, DataType
<1>p. pc \in [Tasks -> Labels]
  BY DEF TypeInv, ControlType
<1>1. ASSUME NEW t \in Tasks, openLock(t) PROVE Hidden
  BY <1>1, <1>p DEF Hidden, openLock, Return, Fault, Done, Goto, Disk, Use, Env
<1>2. ASSUME NEW t \in Tasks, openBusy(t) PROVE Hidden
  BY <1>2, <1>p DEF Hidden, openBusy, Return, Fault, Done, Goto, Disk, Use, Env
<1>3. ASSUME NEW t \in Tasks, recoverFails(t) PROVE Hidden
  BY <1>3, <1>p DEF Hidden, recoverFails, Return, Fault, Done, Goto, Disk, Use, Env
<1>4. ASSUME NEW t \in Tasks, openRefused(t) PROVE Hidden
  BY <1>4, <1>p DEF Hidden, openRefused, Return, Fault, Done, Goto, Disk, Use, Env
<1>5. ASSUME NEW t \in Tasks, openUndoBusy(t) PROVE Hidden
  BY <1>5, <1>p DEF Hidden, openUndoBusy, Return, Fault, Done, Goto, Disk, Use, Env
<1>6. ASSUME NEW t \in Tasks, closeLease(t) PROVE Hidden
  BY <1>6, <1>p DEF Hidden, closeLease, Return, Fault, Done, Goto, Disk, Use, Env
<1>7. ASSUME NEW t \in Tasks, closeLeaseBusy(t) PROVE Hidden
  BY <1>7, <1>p DEF Hidden, closeLeaseBusy, Return, Fault, Done, Goto, Disk, Use, Env
<1>8. ASSUME NEW t \in Tasks, purgeLock(t) PROVE Hidden
  BY <1>8, <1>p DEF Hidden, purgeLock, Return, Fault, Done, Goto, Disk, Use, Env
<1>9. ASSUME NEW t \in Tasks, purgeBusy(t) PROVE Hidden
  BY <1>9, <1>p DEF Hidden, purgeBusy, Return, Fault, Done, Goto, Disk, Use, Env
<1>10. ASSUME NEW t \in Tasks, purgeCheck(t) PROVE Hidden
  BY <1>10, <1>p DEF Hidden, purgeCheck, Return, Fault, Done, Goto, Disk, Use, Env
<1>11. ASSUME NEW t \in Tasks, purgeRefused(t) PROVE Hidden
  BY <1>11, <1>p DEF Hidden, purgeRefused, Return, Fault, Done, Goto, Disk, Use, Env
<1>12. ASSUME NEW t \in Tasks, purgeFails(t) PROVE Hidden
  BY <1>12, <1>p DEF Hidden, purgeFails, Return, Fault, Done, Goto, Disk, Use, Env
<1>13. ASSUME NEW t \in Tasks, relocateLock(t) PROVE Hidden
  BY <1>13, <1>p DEF Hidden, relocateLock, takeMarkers, Return, Fault, Done, Goto, Disk, Use, Env
<1>14. ASSUME NEW t \in Tasks, relocateBusy(t) PROVE Hidden
  BY <1>14, <1>p DEF Hidden, relocateBusy, Return, Fault, Done, Goto, Disk, Use, Env
<1>15. ASSUME NEW t \in Tasks, relocateBegin(t) PROVE Hidden
  BY <1>15, <1>p DEF Hidden, relocateBegin, Return, Fault, Done, Goto, Disk, Use, Env
<1>16. ASSUME NEW t \in Tasks, relocateRefused(t) PROVE Hidden
  BY <1>16, <1>p DEF Hidden, relocateRefused, Return, Fault, Done, Goto, Disk, Use, Env
<1>17. ASSUME NEW t \in Tasks, relocateJournal(t) PROVE Hidden
  BY <1>17, <1>p DEF Hidden, relocateJournal, Return, Fault, Done, Goto, Disk, Use, Env
<1>18. ASSUME NEW t \in Tasks, relocateRenameFails(t) PROVE Hidden
  BY <1>18, <1>p DEF Hidden, relocateRenameFails, Return, Fault, Done, Goto, Disk, Use, Env
<1>19. ASSUME NEW t \in Tasks, relocateUpdate(t) PROVE Hidden
  BY <1>19, <1>r, <1>p DEF Hidden, relocateUpdate, Return, Fault, Done, Goto, Disk, Use, Env
<1>20. ASSUME NEW t \in Tasks, relocateClear(t) PROVE Hidden
  BY <1>20, <1>p DEF Hidden, relocateClear, Return, Fault, Done, Goto, Disk, Use, Env
<1>21. ASSUME NEW t \in Tasks, relocateFails(t) PROVE Hidden
  BY <1>21, <1>p DEF Hidden, relocateFails, Return, Fault, Done, Goto, Disk, Use, Env
<1>22. ASSUME NEW t \in Tasks, relocateUndone(t) PROVE Hidden
  BY <1>22, <1>p DEF Hidden, relocateUndone, Return, Fault, Done, Goto, Disk, Use, Env
<1>23. ASSUME NEW t \in Tasks, relocateUndoFails(t) PROVE Hidden
  BY <1>23, <1>p DEF Hidden, relocateUndoFails, Return, Fault, Done, Goto, Disk, Use, Env
<1>24. ASSUME NEW t \in Tasks, relocateEnd(t) PROVE Hidden
  BY <1>24, <1>p DEF Hidden, relocateEnd, Return, Fault, Done, Goto, Disk, Use, Env
<1>25. ASSUME NEW t \in Tasks, recoverStart(t) PROVE Hidden
  BY <1>25, <1>p DEF Hidden, recoverStart, Return, Fault, Done, Goto, Disk, Use, Env
<1>26. ASSUME NEW t \in Tasks, recoverLock(t) PROVE Hidden
  BY <1>26, <1>p DEF Hidden, recoverLock, takeMarkers, Return, Fault, Done, Goto, Disk, Use, Env
<1>27. ASSUME NEW t \in Tasks, recoverBusy(t) PROVE Hidden
  BY <1>27, <1>p DEF Hidden, recoverBusy, Fail, Return, Fault, Done, Goto, Disk, Use, Env
<1>28. ASSUME NEW t \in Tasks, recoverSettle(t) PROVE Hidden
  BY <1>28, <1>r, <1>p DEF Hidden, recoverSettle, Return, Fault, Done, Goto, Disk, Use, Env
<1>29. ASSUME NEW t \in Tasks, recoverGivesUp(t) PROVE Hidden
  BY <1>29, <1>p DEF Hidden, recoverGivesUp, Return, Fault, Done, Goto, Disk, Use, Env
<1>30. ASSUME NEW t \in Tasks, openRead(t) PROVE Hidden
  BY <1>30, <1>p DEF Hidden, openRead, Return, Fault, Done, Goto, Disk, Use, Env
<1>31. ASSUME NEW t \in Tasks, purgeStart(t) PROVE Hidden
  BY <1>31, <1>p DEF Hidden, purgeStart, Return, Fault, Done, Goto, Disk, Use, Env
<1>32. ASSUME NEW t \in Tasks, NEW path \in Paths, relocateStart(t, path) PROVE Hidden
  BY <1>32, <1>p DEF Hidden, relocateStart, Done, Goto, Disk, Use, Env
<1>34. ASSUME NEW t \in Tasks, recoverClear(t) PROVE Hidden
  BY <1>34, <1>p DEF Hidden, recoverClear, Done, Goto, Use
<1>35. ASSUME NEW t \in Tasks, viewRead(t) PROVE Hidden
  BY <1>35, <1>p DEF Hidden, viewRead, Goto, Disk, Use, Env
<1>36. ASSUME NEW t \in Tasks, viewFails(t) PROVE Hidden
  BY <1>36, <1>p DEF Hidden, viewFails, Return, Done, Goto, Disk, Use, Env
<1>33. CASE UNCHANGED vars
  BY <1>33 DEF Hidden, vars
<1> QED
  BY <1>1, <1>2, <1>3, <1>4, <1>5, <1>6, <1>7, <1>8, <1>9, <1>10, <1>11, <1>12, <1>13,
     <1>14, <1>15, <1>16, <1>17, <1>18, <1>19, <1>20, <1>21, <1>22, <1>23, <1>24, <1>25, <1>26,
     <1>27, <1>28, <1>29, <1>30, <1>31, <1>32, <1>33, <1>34, <1>35, <1>36
     DEF Next, Step, Call, Open, Close, View, Purge, Move, Recover, Seen

LEMMA PlaceFound ==
    ASSUME NEW f \in [Paths -> {"none", "data", "fresh"}]
    PROVE  /\ \A p \in Paths : f[p] = "data" /\ (\A q \in Paths \ {p} : f[q] = "none")
                                 => PlaceIn(f) = p
           /\ (\A p \in Paths : f[p] = "none") => PlaceIn(f) = NoPath
  BY DEF PlaceIn

\* Outside the incidents there is one database or none.
LEMMA OnePlace ==
    ASSUME TypeInv, DiskInv, incidents = {}
    PROVE  /\ \A p \in Paths : file[p] # "none" => file[p] = "data" /\ PlaceIn(file) = p
           /\ row.status = "registered" => \E p \in Paths : file[p] = "data"
           /\ journal = NoJournal => file[row.path] = "data" \/ \A p \in Paths : file[p] = "none"
<1>1. file \in [Paths -> {"none", "data", "fresh"}]
  BY DEF TypeInv, DataType
<1>2. Deleted \/ Intact
  BY DEF DiskInv, Sane
<1>3. CASE Deleted
  BY <1>3 DEF Deleted
<1>4. CASE Intact
  <2>1. PICK p \in Paths : /\ file[p] = "data"
                           /\ \A q \in Paths \ {p} : file[q] = "none"
                           /\ journal = NoJournal => row.path = p
    BY <1>4 DEF Intact
  <2>2. PlaceIn(file) = p
    BY <1>1, <2>1, PlaceFound
  <2> QED
    BY <2>1, <2>2
<1> QED
  BY <1>2, <1>3, <1>4

\* A rename takes the database from one path to the other.
LEMMA RenameMoves ==
    ASSUME TypeInv, DiskInv, incidents = {}, NEW a \in Paths, NEW b \in Paths, a # b,
           file[a] # "none", file' = Renamed(a, b)
    PROVE  PlaceIn(file) = a /\ PlaceIn(file') = b
<1>1. file \in [Paths -> {"none", "data", "fresh"}] /\ Paths = {a, b}
  BY DEF TypeInv, DataType, Paths
<1>2. file[a] = "data" /\ PlaceIn(file) = a
  BY OnePlace
<1>3. file' \in [Paths -> {"none", "data", "fresh"}] /\ file'[b] = "data" /\ file'[a] = "none"
  BY <1>1, <1>2 DEF Renamed
<1>4. PlaceIn(file') = b
  BY <1>1, <1>3, PlaceFound
<1> QED
  BY <1>2, <1>4

\* Nobody reads a database that a purge deletes or a relocation renames.
LEMMA NobodyReads ==
    ASSUME IInv, ViewInv, incidents = {}, NEW t \in Tasks, pc[t] \in Quiet,
           NEW p \in Paths, p \in AtRisk(t), \A q \in Paths \ {p} : file[q] = "none",
           Foreign(t, p) = {}
    PROVE  Store!Unused
<1> SUFFICES ASSUME NEW u \in Tasks, CountedHandle[u] # NoPath PROVE FALSE
  BY DEF Store!Unused
<1>1. handle[u] # NoPath /\ pc[u] # "viewCount"
  BY DEF CountedHandle
<1>2. pc[u] # "using"
  BY QuietNoHandle DEF IInv
<1>3. pc[u] = "viewing" /\ handle[u] \in Paths
  BY <1>1, <1>2 DEF IInv, HandleInv, Opened, TypeInv, DataType
<1>4. Safe(u)
  BY <1>3 DEF ViewInv
<1>5. handle[u] = p
  BY <1>3, <1>4 DEF Safe
<1> QED
  BY <1>3, <1>4, <1>5 DEF Safe, Foreign

StoreVars == <<PlaceIn(file), CountedHandle, row.status # "registered", incidents # {}>>

LEMMA StoreStep ==
    IInv /\ DiskInv /\ TaskInv /\ ViewInv /\ [Next]_vars => [Store!StoreNext]_StoreVars
<1> SUFFICES ASSUME IInv, DiskInv, TaskInv, ViewInv, [Next]_vars
             PROVE  Store!StoreNext \/ UNCHANGED StoreVars
  OBVIOUS
<1>0. TypeInv /\ DataType /\ ControlType /\ LockInv /\ LeaseInv /\ QuietInv /\ HandleInv /\ OpenInv
  BY DEF IInv, TypeInv
<1>b. CASE incidents' # {}
  BY <1>b DEF Store!StoreNext, Store!Break
<1>c. ASSUME handle' = handle, \A u \in Tasks : pc'[u] = "viewCount" <=> pc[u] = "viewCount"
      PROVE  CountedHandle' = CountedHandle
  BY <1>c DEF CountedHandle
<1>h. CASE Hidden
  BY <1>h, <1>c DEF Hidden, StoreVars
<1>1. ASSUME NEW t \in Tasks, Seen(t), incidents' = {}
      PROVE  Store!StoreNext \/ UNCHANGED StoreVars
  <2>1. CASE openDatabase(t) \/ openDatabaseFails(t)
    <3>1. /\ handle' = handle /\ pc'[t] \in {"openLease", "openUndo"} /\ pc[t] = "openDatabase"
          /\ \A u \in Tasks \ {t} : pc'[u] = pc[u]
      BY <1>0, <2>1, OpensAdd
    <3>2. CountedHandle' = CountedHandle
      BY <1>c, <3>1
    <3>3. file' = file /\ row' = row /\ incidents' = incidents
      <4>1. CASE openDatabase(t)
        <5>1. file[from[t]] # "none" /\ incidents' = incidents /\ row' = row
          BY <1>1, <4>1 DEF openDatabase, Note
        <5> QED
          BY <1>0, <4>1, <5>1 DEF openDatabase, DataType
      <4>2. CASE openDatabaseFails(t)
        BY <1>1, <4>2 DEF openDatabaseFails, Note
      <4> QED
        BY <2>1, <4>1, <4>2
    <3> QED
      BY <3>2, <3>3 DEF StoreVars
  <2>2. CASE openLease(t)
    <3>1. incidents = {} /\ row' = row /\ file' = file /\ incidents' = incidents
      BY <1>1, <2>2 DEF openLease, Env, Disk
    <3>2. PlaceIn(file) = from[t] /\ from[t] \in Paths
      BY <1>0, <2>2, <3>1, OnePlace DEF OpenInv, openLease, ControlType
    <3>3. from[t] # NoPath
      BY <3>2 DEF Paths, NoPath
    <3>4. /\ \A u \in Tasks \ {t} : pc'[u] = pc[u] /\ handle'[u] = handle[u]
          /\ pc'[t] = "using" /\ handle'[t] = from[t]
      BY <1>0, <2>2 DEF openLease, Done, Goto, ControlType, DataType
    <3>6. CountedHandle' = [CountedHandle EXCEPT ![t] = from[t]]
      BY <3>4 DEF CountedHandle
    <3>5. Store!Attach(t)
      BY <3>1, <3>2, <3>3, <3>6 DEF Store!Attach
    <3> QED
      BY <3>5 DEF Store!StoreNext
  <2>3. CASE openUndo(t)
    <3>1. file' = file /\ handle' = handle /\ row' = row /\ incidents' = incidents
      BY <1>1, <2>3 DEF openUndo, Note, Disk
    <3>2. CountedHandle' = CountedHandle
      BY <1>0, <1>c, <2>3, <3>1 DEF openUndo, Done, Goto, ControlType
    <3> QED
      BY <3>1, <3>2 DEF StoreVars
  <2>4. CASE closeHandle(t) \/ closeView(t)
    <3>1. row' = row /\ file' = file /\ incidents' = incidents
      BY <2>4 DEF closeHandle, closeView, Disk, Env
    <3>4. \A u \in Tasks : handle'[u] \in {handle[u], NoPath} /\
                           (pc'[u] = "viewCount" <=> pc[u] = "viewCount")
      BY <1>0, <2>4 DEF closeHandle, closeView, Goto, DataType, ControlType
    <3>2. \A u \in Tasks : CountedHandle'[u] \in {CountedHandle[u], NoPath}
      BY <3>4 DEF CountedHandle
    <3>3. Store!Detach
      BY <3>1, <3>2 DEF Store!Detach
    <3> QED
      BY <3>3 DEF Store!StoreNext
  <2>10. CASE viewOpen(t)
    <3>1. row' = row /\ file' = file /\ incidents' = incidents
      BY <2>10 DEF viewOpen, Disk, Env
    <3>2. /\ \A u \in Tasks \ {t} : pc'[u] = pc[u] /\ handle'[u] = handle[u]
          /\ pc[t] = "viewOpen" /\ pc'[t] = "viewCount"
      BY <1>0, <2>10 DEF viewOpen, Done, Goto, ControlType, DataType
    <3>3. handle[t] = NoPath
      BY <1>0, <3>2 DEF HandleInv, Opened
    <3>4. CountedHandle' = CountedHandle
      BY <3>2, <3>3 DEF CountedHandle
    <3> QED
      BY <3>1, <3>4 DEF StoreVars
  <2>11. CASE viewCount(t)
    <3>1. /\ row' = row /\ file' = file /\ handle' = handle /\ incidents' = incidents
          /\ incidents = {} /\ ~Overtaken(t)
      BY <1>1, <2>11 DEF viewCount, Note, Disk, Use
    <3>2. /\ \A u \in Tasks \ {t} : pc'[u] = pc[u]
          /\ pc[t] = "viewCount" /\ pc'[t] = "viewing"
      BY <1>0, <2>11 DEF viewCount, Goto, ControlType
    <3>3. handle[t] \in Paths /\ handle[t] # NoPath
      BY <1>0, <3>2 DEF HandleInv, Opened, DataType
    <3>4. PlaceIn(file) = handle[t]
      BY <1>0, <3>1, <3>3, OnePlace DEF Overtaken
    <3>5. CountedHandle' = [CountedHandle EXCEPT ![t] = handle[t]]
      BY <3>1, <3>2 DEF CountedHandle
    <3>6. Store!Attach(t)
      BY <3>1, <3>3, <3>4, <3>5 DEF Store!Attach
    <3> QED
      BY <3>6 DEF Store!StoreNext
  <2>5. CASE markWorkspaceRemoved(t)
    <3>1. file' = file /\ CountedHandle' = CountedHandle /\ incidents' = incidents
      BY <1>c, <2>5 DEF markWorkspaceRemoved, Use, Env
    <3>2. row'.status # "registered"
      BY <1>0, <2>5 DEF markWorkspaceRemoved, DataType
    <3>3. Store!Remove
      BY <3>1, <3>2 DEF Store!Remove
    <3> QED
      BY <3>3 DEF Store!StoreNext
  <2>6. CASE purgeDelete(t)
    <3>1. /\ incidents = {} /\ journal = NoJournal /\ row' = row /\ handle' = handle
          /\ incidents' = incidents /\ Foreign(t, from[t]) = {}
      BY <1>1, <2>6 DEF purgeDelete, Note, Use
    <3>c. CountedHandle' = CountedHandle
      BY <1>0, <1>c, <2>6, <3>1 DEF purgeDelete, Goto, ControlType
    <3>2. from[t] = row.path /\ row.status = "removed" /\ row.path \in Paths
      BY <1>0, <2>6 DEF TaskInv, TaskOf, purgeDelete, PurgeLabels, DataType
    <3>3. \A p \in Paths \ {row.path} : file[p] = "none"
      <4>1. file[row.path] = "data" \/ \A p \in Paths : file[p] = "none"
        BY <1>0, <3>1, OnePlace
      <4> QED
        BY <1>0, <3>1, <3>2, <4>1, OnePlace
    <3>4. file' \in [Paths -> {"none", "data", "fresh"}] /\ \A p \in Paths : file'[p] = "none"
      BY <1>0, <2>6, <3>2, <3>3 DEF purgeDelete, DataType
    <3>5. PlaceIn(file') = NoPath
      BY <3>4, PlaceFound
    <3>8. pc[t] \in Quiet /\ from[t] \in AtRisk(t)
      BY <2>6 DEF purgeDelete, Quiet, AtRisk
    <3>6. Store!Unused
      BY <3>1, <3>2, <3>3, <3>8, NobodyReads
    <3>7. Store!Delete
      BY <3>1, <3>c, <3>2, <3>5, <3>6 DEF Store!Delete
    <3> QED
      BY <3>7 DEF Store!StoreNext
  <2>7. CASE purgeForget(t)
    <3>1. file' = file /\ CountedHandle' = CountedHandle /\ incidents' = incidents
      BY <1>0, <1>c, <2>7 DEF purgeForget, Done, Goto, Env, ControlType
    <3>2. row.status = "removed" /\ row'.status = "absent"
      BY <1>0, <2>7 DEF TaskInv, TaskOf, purgeForget, DataType
    <3> QED
      BY <3>1, <3>2 DEF StoreVars
  <2>8. CASE relocateRename(t)
    <3>1. /\ incidents = {} /\ row' = row /\ handle' = handle /\ incidents' = incidents
          /\ Foreign(t, from[t]) = {}
      BY <1>1, <2>8 DEF relocateRename, Note, Use
    <3>c. CountedHandle' = CountedHandle
      BY <1>0, <1>c, <2>8, <3>1 DEF relocateRename, Goto, ControlType
    <3>2. /\ from[t] # to[t] /\ from[t] \in Paths /\ to[t] \in Paths
          /\ row.status = "registered" /\ pc[t] \in Quiet
      BY <1>0, <2>8 DEF TaskInv, TaskOf, relocateRename, Journaled, MovePath, Quiet, ControlType
    <3>3. PlaceIn(file) = from[t] /\ PlaceIn(file') = to[t]
      BY <1>0, <2>8, <3>1, <3>2, RenameMoves DEF relocateRename
    <3>6. from[t] \in AtRisk(t) /\ from[t] # NoPath
      <4>1. pc[t] = "moveRename"
        BY <2>8 DEF relocateRename
      <4>2. from[t] \in AtRisk(t)
        BY <4>1 DEF AtRisk
      <4>3. from[t] # NoPath
        BY <3>2 DEF Paths, NoPath
      <4> QED
        BY <4>2, <4>3
    <3>7. \A q \in Paths \ {from[t]} : file[q] = "none"
      BY <1>0, <3>1, <3>3, OnePlace
    <3>4. Store!Unused
      BY <3>1, <3>2, <3>6, <3>7, NobodyReads
    <3>5. Store!Relocate
      BY <3>1, <3>c, <3>2, <3>3, <3>4, <3>6 DEF Store!Relocate
    <3> QED
      BY <3>5 DEF Store!StoreNext
  <2>9. CASE relocateBack(t)
    <3>1. /\ incidents = {} /\ row' = row /\ handle' = handle /\ incidents' = incidents
          /\ Foreign(t, to[t]) = {}
      BY <1>1, <2>9 DEF relocateBack, Note, Use
    <3>c. CountedHandle' = CountedHandle
      BY <1>0, <1>c, <2>9, <3>1 DEF relocateBack, Goto, ControlType
    <3>2. /\ from[t] # to[t] /\ from[t] \in Paths /\ to[t] \in Paths
          /\ row.status = "registered" /\ pc[t] \in Quiet
      BY <1>0, <2>9 DEF TaskInv, TaskOf, relocateBack, Journaled, MovePath, Quiet, ControlType
    <3>3. file[to[t]] = "data"
      BY <2>9, <3>1 DEF TaskInv, TaskOf, relocateBack, Sane
    <3>4. PlaceIn(file) = to[t] /\ PlaceIn(file') = from[t]
      BY <1>0, <2>9, <3>1, <3>2, <3>3, RenameMoves DEF relocateBack
    <3>7. to[t] \in AtRisk(t) /\ to[t] # NoPath
      <4>1. pc[t] = "moveBack"
        BY <2>9 DEF relocateBack
      <4>2. to[t] \in AtRisk(t)
        BY <4>1 DEF AtRisk
      <4>3. to[t] # NoPath
        BY <3>2 DEF Paths, NoPath
      <4> QED
        BY <4>2, <4>3
    <3>8. \A q \in Paths \ {to[t]} : file[q] = "none"
      BY <1>0, <3>1, <3>4, OnePlace
    <3>5. Store!Unused
      BY <3>1, <3>2, <3>7, <3>8, NobodyReads
    <3>6. Store!Relocate
      BY <3>1, <3>c, <3>2, <3>4, <3>5, <3>7 DEF Store!Relocate
    <3> QED
      BY <3>6 DEF Store!StoreNext
  <2> QED
    BY <1>1, <2>1, <2>2, <2>3, <2>4, <2>5, <2>6, <2>7, <2>8, <2>9, <2>10, <2>11 DEF Seen
<1>2. ASSUME NEW p \in Processes, crash(p) PROVE Store!StoreNext
  <2>1. row' = row /\ file' = file /\ incidents' = incidents
    BY <1>2 DEF crash
  <2>4. \A u \in Tasks : \/ handle'[u] = NoPath
                         \/ handle'[u] = handle[u] /\ pc'[u] = pc[u]
    BY <1>0, <1>2 DEF crash, DataType
  <2>2. \A u \in Tasks : CountedHandle'[u] \in {CountedHandle[u], NoPath}
    BY <2>4 DEF CountedHandle
  <2>3. Store!Detach
    BY <2>1, <2>2 DEF Store!Detach
  <2> QED
    BY <2>3 DEF Store!StoreNext
<1> QED
  BY <1>0, <1>b, <1>h, <1>1, <1>2, StepSeen

LEMMA StoreStart == Init => Store!StoreInit
<1> SUFFICES ASSUME Init PROVE Store!StoreInit
  OBVIOUS
<1>1. /\ file \in [Paths -> {"none", "data", "fresh"}] /\ 1 \in Paths /\ file[1] = "data"
      /\ \A q \in Paths \ {1} : file[q] = "none"
  BY DEF Init, Paths
<1>2. PlaceIn(file) \in Paths
  BY <1>1, PlaceFound
<1>3. row.status = "registered" /\ incidents = {} /\ CountedHandle = [t \in Tasks |-> NoPath]
  BY DEF Init, CountedHandle
<1> QED
  BY <1>2, <1>3 DEF Store!StoreInit

\* Opening, closing, removal, purge, relocation, crash and recovery do to the
\* database what the abstract store does (openWorkspace, close, purgeWorkspace,
\* relocateWorkspace, recoverRelocations): it is in one place, and moves or
\* disappears in one step while no process has it open, until an incident.
THEOREM CatalogImplementsStore == Spec => ImplementsStore
<1>1. Init => Store!StoreInit
  BY StoreStart
<1>2. IInv /\ DiskInv /\ TaskInv /\ ViewInv /\ [Next]_vars
        => [Store!StoreNext]_<<PlaceIn(file), CountedHandle, row.status # "registered", incidents # {}>>
  BY StoreStep DEF StoreVars
<1> QED
  BY <1>1, <1>2, StoreInvariant, PTL DEF Spec, ImplementsStore, Store!StoreSpec

\* A handle that is open reads the workspace's own database, where it is now,
\* in whichever process and after whatever relocations, until an incident
\* (openWorkspace reads the row before it takes the marker and the lease).
THEOREM HandlesReadDatabase == Spec => []Store!ReadsDatabase
<1>1. IInv /\ DiskInv /\ ViewInv => Store!ReadsDatabase
  <2> SUFFICES ASSUME IInv, DiskInv, ViewInv, incidents = {},
                      NEW t \in Tasks, CountedHandle[t] # NoPath
               PROVE  PlaceIn(file) = CountedHandle[t]
    BY DEF Store!ReadsDatabase
  <2>1. handle[t] # NoPath /\ pc[t] # "viewCount" /\ CountedHandle[t] = handle[t]
    BY DEF CountedHandle
  <2>2. pc[t] \in {"using", "viewing"} /\ handle[t] \in Paths
    BY <2>1 DEF IInv, TypeInv, DataType, HandleInv, Opened
  <2>3. file[handle[t]] # "none"
    BY <2>2 DEF IInv, OpenDatabaseStays, ViewInv, Safe
  <2> QED
    BY <2>1, <2>2, <2>3, OnePlace DEF IInv
<1> QED
  BY <1>1, StoreInvariant, PTL

=============================================================================
