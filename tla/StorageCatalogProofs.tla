------------------------- MODULE StorageCatalogProofs -------------------------
(***************************************************************************)
(* No database is deleted or moved under an open handle, for any number of *)
(* tasks and processes.  The argument: a purge and a relocation keep the   *)
(* catalog's writer from their check of the leases to their last step, so  *)
(* the leases they found absent stay absent (QuietInv); a lease row counts *)
(* at least the handles of its process (LeaseInv), so no lease means no    *)
(* handle; and an open that has its database but not yet its lease holds   *)
(* the marker of its path (LockInv), which a purge or relocation needs.    *)
(***************************************************************************)
EXTENDS StorageCatalog, FiniteSetTheorems, TLAPS

PurgeLabels == {"purgeLock", "purgeCheck", "purgeDelete", "purgeForget"}
MovePath == {"moveBegin", "moveJournal", "moveRename", "moveUpdate", "moveClear",
             "moveBack", "moveUndone", "moveEnd"}
CatalogHeld == PurgeLabels \cup MovePath
                 \cup {"moveLock", "recoverLock", "recoverSettle", "recoverClear"}
ToHeld == MovePath \cup {"recoverSettle", "recoverClear"}
FromHeld == ToHeld \cup {"openDatabase", "openLease", "openUndo",
                         "purgeCheck", "purgeDelete", "purgeForget"}
NothingHeld == {"idle", "using", "openLock", "closeLease", "viewOpen", "viewCount", "viewing"}
Opened == {"using", "viewCount", "viewing"}
Waiting == {"moveLock", "recoverLock"}
Quiet == {"purgeDelete", "purgeForget"} \cup (MovePath \ {"moveBegin"})

DataType ==
    /\ row \in [status : {"registered", "removed", "absent"}, path : Paths]
    /\ file \in [Paths -> {"none", "data", "fresh"}]
    /\ journal \in [owner : Processes \cup {"dead", "none"}, from : Paths, to : Paths]
    /\ leases \in [Processes -> Nat]
    /\ mover \in Tasks \cup {NoTask}
    /\ handle \in [Tasks -> Paths \cup {NoPath}]
    /\ proc \in [Processes -> {"up", "starting", "failed"}]

ControlType ==
    /\ lock \in [Locks -> Tasks \cup {NoTask}]
    /\ pc \in [Tasks -> Labels]
    /\ from \in [Tasks -> Paths]
    /\ to \in [Tasks -> Paths]

TypeInv == DataType /\ ControlType

\* What a task holds at each of its steps.
LockOf(t) ==
    /\ pc[t] \in CatalogHeld <=> lock[Catalog] = t
    /\ pc[t] \in FromHeld => lock[from[t]] = t
    /\ pc[t] \in ToHeld => lock[to[t]] = t
    /\ pc[t] \in NothingHeld => \A l \in Locks : lock[l] # t
    /\ pc[t] \in Waiting => Wanted(t) # {}
    /\ pc[t] = "purgeLock" => \A l \in Paths : lock[l] # t

LockInv == \A t \in Tasks : LockOf(t)

\* The tasks of a process whose handle its lease row counts.
Counted(p) == {t \in Tasks : Home[t] = p /\ pc[t] \in {"using", "closeLease"}}

LeaseInv ==
    "undercounted" \in incidents \/ \A p \in Processes : Cardinality(Counted(p)) <= leases[p]

\* A lease row counts no more than those and the releases that timed out, and
\* the model's own bounds are kept.
BudgetInv ==
    /\ faults \in 0 .. MaxFaults
    /\ crashes \in 0 .. MaxCrashes
    /\ incidents \subseteq Incidents
    /\ \A p \in Processes : leases[p] <= Cardinality(Counted(p)) + faults

\* A purge or relocation past its checks: no handle is leased.
QuietInv ==
    \/ "undercounted" \in incidents
    \/ \A t \in Tasks : pc[t] \in Quiet => \A p \in Processes : leases[p] = 0

HandleInv == \A t \in Tasks : handle[t] # NoPath <=> pc[t] \in Opened

OpenInv == \A t \in Tasks : pc[t] = "openLease" => file[from[t]] # "none"

IInv == /\ TypeInv /\ LockInv /\ LeaseInv /\ QuietInv /\ HandleInv /\ OpenInv
        /\ OpenDatabaseStays

-----------------------------------------------------------------------------
USE CatalogAssumption

LEMMA TypeInit == Init => TypeInv
<1> SUFFICES ASSUME Init PROVE TypeInv
  OBVIOUS
<1>1. /\ row \in [status : {"registered", "removed", "absent"}, path : Paths]
      /\ file \in [Paths -> {"none", "data", "fresh"}]
      /\ journal \in [owner : Processes \cup {"dead", "none"}, from : Paths, to : Paths]
  BY DEF Init, NoJournal, Paths
<1>2. /\ leases \in [Processes -> Nat]
      /\ mover \in Tasks \cup {NoTask}
      /\ handle \in [Tasks -> Paths \cup {NoPath}]
      /\ lock \in [Locks -> Tasks \cup {NoTask}]
      /\ proc \in [Processes -> {"up", "starting", "failed"}]
  BY DEF Init
<1>3. pc \in [Tasks -> Labels] /\ from \in [Tasks -> Paths] /\ to \in [Tasks -> Paths]
  BY DEF Init, Labels, Paths
<1> QED
  BY <1>1, <1>2, <1>3 DEF TypeInv, DataType, ControlType

LEMMA ControlTypeStep == TypeInv /\ [Next]_vars => ControlType'
<1> SUFFICES ASSUME TypeInv, [Next]_vars PROVE ControlType'
  OBVIOUS
<1>0. ControlType /\ 1 \in Paths
  BY DEF TypeInv, Paths
<1>r. row.path \in Paths /\ journal.from \in Paths /\ journal.to \in Paths
  BY DEF TypeInv, DataType
<1>d. ASSUME NEW t \in Tasks, NEW l \in {"idle", "using", "viewCount"}, Done(t, l) PROVE ControlType'
  BY <1>d, <1>0 DEF ControlType, Done, Released, Goto, Labels
<1>1. ASSUME NEW t \in Tasks, openLock(t) PROVE ControlType'
  BY <1>1, <1>0, <1>r DEF ControlType, openLock, Goto, Take, Labels
<1>2. ASSUME NEW t \in Tasks, openBusy(t) PROVE ControlType'
  BY <1>2, <1>d DEF openBusy, Return
<1>3. ASSUME NEW t \in Tasks, openDatabase(t) PROVE ControlType'
  BY <1>3, <1>0, <1>r DEF ControlType, openDatabase, Goto, Take, Labels
<1>4. ASSUME NEW t \in Tasks, openDatabaseFails(t) PROVE ControlType'
  BY <1>4, <1>0, <1>r DEF ControlType, openDatabaseFails, Goto, Take, Labels
<1>5. ASSUME NEW t \in Tasks, openLease(t) PROVE ControlType'
  BY <1>5, <1>d DEF openLease, Return
<1>6. ASSUME NEW t \in Tasks, openRefused(t) PROVE ControlType'
  BY <1>6, <1>0, <1>r DEF ControlType, openRefused, Goto, Take, Labels
<1>7. ASSUME NEW t \in Tasks, openUndo(t) PROVE ControlType'
  BY <1>7, <1>d DEF openUndo, Return
<1>8. ASSUME NEW t \in Tasks, openUndoBusy(t) PROVE ControlType'
  BY <1>8, <1>d DEF openUndoBusy, Return
<1>9. ASSUME NEW t \in Tasks, closeLease(t) PROVE ControlType'
  BY <1>9, <1>d DEF closeLease, Return
<1>10. ASSUME NEW t \in Tasks, closeLeaseBusy(t) PROVE ControlType'
  BY <1>10, <1>d DEF closeLeaseBusy, Return
<1>11. ASSUME NEW t \in Tasks, purgeLock(t) PROVE ControlType'
  BY <1>11, <1>0, <1>r DEF ControlType, purgeLock, Goto, Take, Labels
<1>12. ASSUME NEW t \in Tasks, purgeBusy(t) PROVE ControlType'
  BY <1>12, <1>d DEF purgeBusy, Return
<1>13. ASSUME NEW t \in Tasks, purgeCheck(t) PROVE ControlType'
  BY <1>13, <1>0, <1>r DEF ControlType, purgeCheck, Goto, Take, Labels
<1>14. ASSUME NEW t \in Tasks, purgeRefused(t) PROVE ControlType'
  BY <1>14, <1>d DEF purgeRefused, Return
<1>15. ASSUME NEW t \in Tasks, purgeDelete(t) PROVE ControlType'
  BY <1>15, <1>0, <1>r DEF ControlType, purgeDelete, Goto, Take, Labels
<1>16. ASSUME NEW t \in Tasks, purgeForget(t) PROVE ControlType'
  BY <1>16, <1>d DEF purgeForget, Return
<1>17. ASSUME NEW t \in Tasks, purgeFails(t) PROVE ControlType'
  BY <1>17, <1>d DEF purgeFails, Return
<1>18. ASSUME NEW t \in Tasks, relocateLock(t) PROVE ControlType'
  BY <1>18, <1>0, <1>r DEF ControlType, relocateLock, Goto, Take, Labels, takeMarkers
<1>19. ASSUME NEW t \in Tasks, relocateBusy(t) PROVE ControlType'
  BY <1>19, <1>d DEF relocateBusy, Return
<1>20. ASSUME NEW t \in Tasks, relocateBegin(t) PROVE ControlType'
  BY <1>20, <1>0, <1>r DEF ControlType, relocateBegin, Goto, Take, Labels
<1>21. ASSUME NEW t \in Tasks, relocateRefused(t) PROVE ControlType'
  BY <1>21, <1>d DEF relocateRefused, Return
<1>22. ASSUME NEW t \in Tasks, relocateJournal(t) PROVE ControlType'
  BY <1>22, <1>0, <1>r DEF ControlType, relocateJournal, Goto, Take, Labels
<1>23. ASSUME NEW t \in Tasks, relocateRename(t) PROVE ControlType'
  BY <1>23, <1>0, <1>r DEF ControlType, relocateRename, Goto, Take, Labels
<1>24. ASSUME NEW t \in Tasks, relocateRenameFails(t) PROVE ControlType'
  BY <1>24, <1>0, <1>r DEF ControlType, relocateRenameFails, Goto, Take, Labels
<1>25. ASSUME NEW t \in Tasks, relocateUpdate(t) PROVE ControlType'
  BY <1>25, <1>0, <1>r DEF ControlType, relocateUpdate, Goto, Take, Labels
<1>26. ASSUME NEW t \in Tasks, relocateClear(t) PROVE ControlType'
  BY <1>26, <1>0, <1>r DEF ControlType, relocateClear, Goto, Take, Labels
<1>27. ASSUME NEW t \in Tasks, relocateFails(t) PROVE ControlType'
  BY <1>27, <1>0, <1>r DEF ControlType, relocateFails, Goto, Take, Labels
<1>28. ASSUME NEW t \in Tasks, relocateBack(t) PROVE ControlType'
  BY <1>28, <1>0, <1>r DEF ControlType, relocateBack, Goto, Take, Labels
<1>29. ASSUME NEW t \in Tasks, relocateUndone(t) PROVE ControlType'
  BY <1>29, <1>0, <1>r DEF ControlType, relocateUndone, Goto, Take, Labels
<1>30. ASSUME NEW t \in Tasks, relocateUndoFails(t) PROVE ControlType'
  BY <1>30, <1>0, <1>r DEF ControlType, relocateUndoFails, Goto, Take, Labels
<1>31. ASSUME NEW t \in Tasks, relocateEnd(t) PROVE ControlType'
  BY <1>31, <1>d DEF relocateEnd, Return
<1>32. ASSUME NEW t \in Tasks, recoverStart(t) PROVE ControlType'
  <2>1. CASE journal.owner = "dead"
    BY <2>1, <1>32, <1>0, <1>r DEF ControlType, recoverStart, Goto, Take, Labels
  <2>2. CASE journal.owner # "dead"
    BY <2>2, <1>32, <1>0 DEF ControlType, recoverStart
  <2> QED
    BY <2>1, <2>2
<1>33. ASSUME NEW t \in Tasks, recoverLock(t) PROVE ControlType'
  BY <1>33, <1>0, <1>r DEF ControlType, recoverLock, Goto, Take, Labels, takeMarkers
<1>34. ASSUME NEW t \in Tasks, recoverBusy(t) PROVE ControlType'
  BY <1>34, <1>d DEF recoverBusy, Return, Fail
<1>35. ASSUME NEW t \in Tasks, recoverSettle(t) PROVE ControlType'
  BY <1>35, <1>0, <1>r DEF ControlType, recoverSettle, Goto, Take, Labels
<1>36. ASSUME NEW t \in Tasks, recoverGivesUp(t) PROVE ControlType'
  BY <1>36, <1>d DEF recoverGivesUp, Return
<1>37. ASSUME NEW t \in Tasks, openRead(t) PROVE ControlType'
  BY <1>37, <1>0, <1>r DEF ControlType, openRead, Goto, Take, Labels
<1>38. ASSUME NEW t \in Tasks, closeHandle(t) PROVE ControlType'
  BY <1>38, <1>0, <1>r DEF ControlType, closeHandle, Goto, Take, Labels
<1>39. ASSUME NEW t \in Tasks, markWorkspaceRemoved(t) PROVE ControlType'
  BY <1>39, <1>0, <1>r DEF ControlType, markWorkspaceRemoved, Goto, Take, Labels
<1>40. ASSUME NEW t \in Tasks, purgeStart(t) PROVE ControlType'
  BY <1>40, <1>0, <1>r DEF ControlType, purgeStart, Goto, Take, Labels
<1>41. ASSUME NEW t \in Tasks, NEW path \in Paths, relocateStart(t, path) PROVE ControlType'
  BY <1>41, <1>0, <1>r DEF ControlType, relocateStart, Goto, Take, Labels
<1>42. ASSUME NEW p \in Processes, crash(p) PROVE ControlType'
  BY <1>42, <1>0 DEF ControlType, crash, Labels
<1>43. CASE UNCHANGED vars
  BY <1>43, <1>0 DEF ControlType, vars
<1>44. ASSUME NEW t \in Tasks, viewRead(t) PROVE ControlType'
  BY <1>44, <1>0, <1>r DEF ControlType, viewRead, Goto, Labels
<1>45. ASSUME NEW t \in Tasks, viewOpen(t) PROVE ControlType'
  BY <1>45, <1>d DEF viewOpen
<1>46. ASSUME NEW t \in Tasks, viewFails(t) PROVE ControlType'
  BY <1>46, <1>d DEF viewFails, Return
<1>47. ASSUME NEW t \in Tasks, viewCount(t) PROVE ControlType'
  BY <1>47, <1>0 DEF ControlType, viewCount, Goto, Labels
<1>48. ASSUME NEW t \in Tasks, closeView(t) PROVE ControlType'
  BY <1>48, <1>0 DEF ControlType, closeView, Goto, Labels
<1>49. ASSUME NEW t \in Tasks, recoverClear(t) PROVE ControlType'
  BY <1>49, <1>d DEF recoverClear
<1>50. ASSUME NEW t \in Tasks, recoverFails(t) PROVE ControlType'
  BY <1>50, <1>d DEF recoverFails
<1> QED
  BY <1>1, <1>2, <1>3, <1>4, <1>5, <1>6, <1>7, <1>8, <1>9, <1>10, <1>11, <1>12, <1>13,
     <1>14, <1>15, <1>16, <1>17, <1>18, <1>19, <1>20, <1>21, <1>22, <1>23, <1>24, <1>25,
     <1>26, <1>27, <1>28, <1>29, <1>30, <1>31, <1>32, <1>33, <1>34, <1>35, <1>36, <1>37,
     <1>38, <1>39, <1>40, <1>41, <1>42, <1>43, <1>44, <1>45, <1>46, <1>47, <1>48, <1>49, <1>50
     DEF Next, Step, Call, Open, Close, View, Purge, Move, Recover

LEMMA DataTypeStep == TypeInv /\ [Next]_vars => DataType'
<1> SUFFICES ASSUME TypeInv, [Next]_vars PROVE DataType'
  OBVIOUS
<1>0. DataType /\ NoPath \notin Paths
  BY DEF TypeInv, Paths, NoPath
<1>c. from \in [Tasks -> Paths] /\ to \in [Tasks -> Paths]
  BY DEF TypeInv, ControlType
<1>j. NoJournal \in [owner : Processes \cup {"dead", "none"}, from : Paths, to : Paths]
  BY DEF NoJournal, Paths
<1>s. ASSUME UNCHANGED <<Disk, Use>>, proc' = proc PROVE DataType'
  BY <1>s, <1>0 DEF DataType, Disk, Use
<1>1. ASSUME NEW t \in Tasks, openLock(t) PROVE DataType'
  BY <1>1, <1>s DEF openLock, Return, Fault, Env
<1>2. ASSUME NEW t \in Tasks, openBusy(t) PROVE DataType'
  BY <1>2, <1>s DEF openBusy, Return, Fault, Env
<1>3. ASSUME NEW t \in Tasks, openDatabase(t) PROVE DataType'
  BY <1>3, <1>0, <1>c, <1>j DEF DataType, openDatabase, Disk, Use, Env
<1>4. ASSUME NEW t \in Tasks, openDatabaseFails(t) PROVE DataType'
  <2>1. file' \in [Paths -> {"none", "data", "fresh"}]
    BY <1>4, <1>0, <1>c DEF DataType, openDatabaseFails
  <2> QED
    BY <2>1, <1>4, <1>0 DEF DataType, openDatabaseFails, Use
<1>5. ASSUME NEW t \in Tasks, openLease(t) PROVE DataType'
  BY <1>5, <1>0, <1>c, <1>j DEF DataType, openLease, Disk, Use, Env
<1>6. ASSUME NEW t \in Tasks, openRefused(t) PROVE DataType'
  BY <1>6, <1>s DEF openRefused, Return, Fault, Env
<1>7. ASSUME NEW t \in Tasks, openUndo(t) PROVE DataType'
  BY <1>7, <1>0, <1>c, <1>j DEF DataType, openUndo, Disk, Use, Env, Unleased
<1>8. ASSUME NEW t \in Tasks, openUndoBusy(t) PROVE DataType'
  BY <1>8, <1>s DEF openUndoBusy, Return, Fault, Env
<1>9. ASSUME NEW t \in Tasks, closeLease(t) PROVE DataType'
  BY <1>9, <1>0, <1>c, <1>j DEF DataType, closeLease, Disk, Use, Env, Unleased
<1>10. ASSUME NEW t \in Tasks, closeLeaseBusy(t) PROVE DataType'
  BY <1>10, <1>s DEF closeLeaseBusy, Return, Fault, Env
<1>11. ASSUME NEW t \in Tasks, purgeLock(t) PROVE DataType'
  BY <1>11, <1>s DEF purgeLock, Return, Fault, Env
<1>12. ASSUME NEW t \in Tasks, purgeBusy(t) PROVE DataType'
  BY <1>12, <1>s DEF purgeBusy, Return, Fault, Env
<1>13. ASSUME NEW t \in Tasks, purgeCheck(t) PROVE DataType'
  BY <1>13, <1>s DEF purgeCheck, Return, Fault, Env
<1>14. ASSUME NEW t \in Tasks, purgeRefused(t) PROVE DataType'
  BY <1>14, <1>s DEF purgeRefused, Return, Fault, Env
<1>15. ASSUME NEW t \in Tasks, purgeDelete(t) PROVE DataType'
  BY <1>15, <1>0, <1>c, <1>j DEF DataType, purgeDelete, Disk, Use, Env
<1>16. ASSUME NEW t \in Tasks, purgeForget(t) PROVE DataType'
  BY <1>16, <1>0, <1>c, <1>j DEF DataType, purgeForget, Disk, Use, Env
<1>17. ASSUME NEW t \in Tasks, purgeFails(t) PROVE DataType'
  BY <1>17, <1>s DEF purgeFails, Return, Fault, Env
<1>18. ASSUME NEW t \in Tasks, relocateLock(t) PROVE DataType'
  BY <1>18, <1>s DEF relocateLock, Return, Fault, Env, takeMarkers
<1>19. ASSUME NEW t \in Tasks, relocateBusy(t) PROVE DataType'
  BY <1>19, <1>s DEF relocateBusy, Return, Fault, Env
<1>20. ASSUME NEW t \in Tasks, relocateBegin(t) PROVE DataType'
  BY <1>20, <1>0, <1>c, <1>j DEF DataType, relocateBegin, Disk, Use, Env
<1>21. ASSUME NEW t \in Tasks, relocateRefused(t) PROVE DataType'
  BY <1>21, <1>s DEF relocateRefused, Return, Fault, Env
<1>22. ASSUME NEW t \in Tasks, relocateJournal(t) PROVE DataType'
  BY <1>22, <1>0, <1>c, <1>j DEF DataType, relocateJournal, Disk, Use, Env
<1>23. ASSUME NEW t \in Tasks, relocateRename(t) PROVE DataType'
  BY <1>23, <1>0, <1>c, <1>j DEF DataType, relocateRename, Disk, Use, Env, Renamed
<1>24. ASSUME NEW t \in Tasks, relocateRenameFails(t) PROVE DataType'
  BY <1>24, <1>s DEF relocateRenameFails, Return, Fault, Env
<1>25. ASSUME NEW t \in Tasks, relocateUpdate(t) PROVE DataType'
  BY <1>25, <1>0, <1>c, <1>j DEF DataType, relocateUpdate, Disk, Use, Env
<1>26. ASSUME NEW t \in Tasks, relocateClear(t) PROVE DataType'
  BY <1>26, <1>0, <1>c, <1>j DEF DataType, relocateClear, Disk, Use, Env
<1>27. ASSUME NEW t \in Tasks, relocateFails(t) PROVE DataType'
  BY <1>27, <1>s DEF relocateFails, Return, Fault, Env
<1>28. ASSUME NEW t \in Tasks, relocateBack(t) PROVE DataType'
  BY <1>28, <1>0, <1>c, <1>j DEF DataType, relocateBack, Disk, Use, Env, Renamed
<1>29. ASSUME NEW t \in Tasks, relocateUndone(t) PROVE DataType'
  BY <1>29, <1>0, <1>c, <1>j DEF DataType, relocateUndone, Disk, Use, Env
<1>30. ASSUME NEW t \in Tasks, relocateUndoFails(t) PROVE DataType'
  BY <1>30, <1>s DEF relocateUndoFails, Return, Fault, Env
<1>31. ASSUME NEW t \in Tasks, relocateEnd(t) PROVE DataType'
  BY <1>31, <1>0, <1>c, <1>j DEF DataType, relocateEnd, Disk, Use, Env
<1>32. ASSUME NEW t \in Tasks, recoverStart(t) PROVE DataType'
  <2>1. proc' \in [Processes -> {"up", "starting", "failed"}]
    BY <1>32, <1>0 DEF DataType, recoverStart
  <2> QED
    BY <2>1, <1>32, <1>0 DEF DataType, recoverStart, Disk, Use
<1>33. ASSUME NEW t \in Tasks, recoverLock(t) PROVE DataType'
  BY <1>33, <1>s DEF recoverLock, Return, Fault, Env, takeMarkers
<1>34. ASSUME NEW t \in Tasks, recoverBusy(t) PROVE DataType'
  BY <1>34, <1>0, <1>c, <1>j DEF DataType, recoverBusy, Disk, Use, Env, Fail
<1>35. ASSUME NEW t \in Tasks, recoverSettle(t) PROVE DataType'
  BY <1>35, <1>0, <1>c, <1>j DEF DataType, recoverSettle, Disk, Use, Env, Settled
<1>36. ASSUME NEW t \in Tasks, recoverGivesUp(t) PROVE DataType'
  BY <1>36, <1>0, <1>c, <1>j DEF DataType, recoverGivesUp, Disk, Use, Env
<1>37. ASSUME NEW t \in Tasks, openRead(t) PROVE DataType'
  BY <1>37, <1>s DEF openRead, Return, Fault, Env
<1>38. ASSUME NEW t \in Tasks, closeHandle(t) PROVE DataType'
  BY <1>38, <1>0, <1>c, <1>j DEF DataType, closeHandle, Disk, Use, Env
<1>39. ASSUME NEW t \in Tasks, markWorkspaceRemoved(t) PROVE DataType'
  BY <1>39, <1>0, <1>c, <1>j DEF DataType, markWorkspaceRemoved, Disk, Use, Env
<1>40. ASSUME NEW t \in Tasks, purgeStart(t) PROVE DataType'
  BY <1>40, <1>s DEF purgeStart, Return, Fault, Env
<1>41. ASSUME NEW t \in Tasks, NEW path \in Paths, relocateStart(t, path) PROVE DataType'
  BY <1>41, <1>s DEF relocateStart, Return, Fault, Env
<1>42. ASSUME NEW p \in Processes, crash(p) PROVE DataType'
  <2>1. /\ row' = row /\ file' = file /\ leases' \in [Processes -> Nat]
        /\ journal' \in [owner : Processes \cup {"dead", "none"}, from : Paths, to : Paths]
    BY <1>42, <1>0 DEF DataType, crash
  <2>2. /\ mover' \in Tasks \cup {NoTask} /\ handle' \in [Tasks -> Paths \cup {NoPath}]
        /\ proc' \in [Processes -> {"up", "starting", "failed"}]
    BY <1>42, <1>0 DEF DataType, crash
  <2> QED
    BY <2>1, <2>2, <1>0 DEF DataType
<1>43. CASE UNCHANGED vars
  BY <1>43, <1>0 DEF DataType, vars
<1>44. ASSUME NEW t \in Tasks, viewRead(t) PROVE DataType'
  BY <1>44, <1>s DEF viewRead, Env
<1>45. ASSUME NEW t \in Tasks, viewOpen(t) PROVE DataType'
  BY <1>45, <1>0, <1>c DEF DataType, viewOpen, Disk, Env
<1>46. ASSUME NEW t \in Tasks, viewFails(t) PROVE DataType'
  BY <1>46, <1>s DEF viewFails, Return, Env
<1>47. ASSUME NEW t \in Tasks, viewCount(t) PROVE DataType'
  BY <1>47, <1>s DEF viewCount
<1>48. ASSUME NEW t \in Tasks, closeView(t) PROVE DataType'
  BY <1>48, <1>0 DEF DataType, closeView, Disk, Env
<1>49. ASSUME NEW t \in Tasks, recoverClear(t) PROVE DataType'
  BY <1>49, <1>0, <1>j DEF DataType, recoverClear, Use
<1>50. ASSUME NEW t \in Tasks, recoverFails(t) PROVE DataType'
  BY <1>50, <1>s DEF recoverFails, Fault
<1> QED
  BY <1>1, <1>2, <1>3, <1>4, <1>5, <1>6, <1>7, <1>8, <1>9, <1>10, <1>11, <1>12, <1>13,
     <1>14, <1>15, <1>16, <1>17, <1>18, <1>19, <1>20, <1>21, <1>22, <1>23, <1>24, <1>25,
     <1>26, <1>27, <1>28, <1>29, <1>30, <1>31, <1>32, <1>33, <1>34, <1>35, <1>36, <1>37,
     <1>38, <1>39, <1>40, <1>41, <1>42, <1>43, <1>44, <1>45, <1>46, <1>47, <1>48, <1>49, <1>50
     DEF Next, Step, Call, Open, Close, View, Purge, Move, Recover

LEMMA TypeStep == TypeInv /\ [Next]_vars => TypeInv'
  BY ControlTypeStep, DataTypeStep DEF TypeInv

-----------------------------------------------------------------------------
(* What a task holds.                                                      *)

\* A step of a task leaves the others where they are, with what they hold.
OthersKeep(t) ==
    \A u \in Tasks \ {t} :
        /\ pc'[u] = pc[u] /\ from'[u] = from[u] /\ to'[u] = to[u]
        /\ \A l \in Locks : lock'[l] = u <=> lock[l] = u

LEMMA LockFrame ==
    ASSUME TypeInv, LockInv, NEW t \in Tasks, OthersKeep(t), LockOf(t)'
    PROVE  LockInv'
<1> SUFFICES ASSUME NEW u \in Tasks, u # t PROVE LockOf(u)'
  BY DEF LockInv
<1>1. /\ pc'[u] = pc[u] /\ from'[u] = from[u] /\ to'[u] = to[u]
      /\ \A l \in Locks : lock'[l] = u <=> lock[l] = u
  BY DEF OthersKeep
<1>2. Catalog \in Locks /\ Paths \subseteq Locks /\ from[u] \in Locks /\ to[u] \in Locks
  BY DEF TypeInv, ControlType, Locks
<1>3. Wanted(u)' = Wanted(u)
  BY <1>1, <1>2 DEF Wanted
<1> QED
  BY <1>1, <1>2, <1>3 DEF LockInv, LockOf

\* The first marker a task waits for is one of the two.
LEMMA NextIsWanted ==
    ASSUME TypeInv, NEW t \in Tasks, Wanted(t) # {}
    PROVE  NextWanted(t) \in Wanted(t)
<1>1. \E l \in Wanted(t) : \A j \in Wanted(t) : l <= j
  BY DEF Wanted, TypeInv, ControlType, Paths
<1> QED
  BY <1>1 DEF NextWanted

\* One more marker of the two a task waits for.
LEMMA MarkersStep ==
    ASSUME TypeInv, NEW t \in Tasks, LockOf(t), NEW wait \in Waiting, NEW then \in ToHeld,
           then \in CatalogHeld, takeMarkers(t, wait, then)
    PROVE  OthersKeep(t) /\ LockOf(t)'
<1> DEFINE k == NextWanted(t)
<1>1. pc[t] = wait /\ Wanted(t) # {} /\ lock[Catalog] = t
  BY DEF takeMarkers, LockOf, Waiting, CatalogHeld
<1>2. k \in Wanted(t)
  BY <1>1, NextIsWanted
<1>3. k \in Paths /\ k # Catalog /\ k \in {from[t], to[t]}
  BY <1>2 DEF Wanted, TypeInv, ControlType, Paths, Catalog
<1>4. lock[k] = NoTask /\ lock' = [lock EXCEPT ![k] = t] /\ from' = from /\ to' = to
      /\ pc' = [pc EXCEPT ![t] = IF Wanted(t) = {k} THEN then ELSE wait]
  BY DEF takeMarkers, Take, Goto
<1> HIDE DEF k
<1>5. OthersKeep(t)
  BY <1>3, <1>4 DEF OthersKeep, TypeInv, ControlType, Locks
<1>6. lock'[Catalog] = t /\ lock'[k] = t
  BY <1>1, <1>3, <1>4 DEF TypeInv, ControlType, Locks
<1>7. CASE Wanted(t) = {k}
  <2>1. lock'[from[t]] = t /\ lock'[to[t]] = t
    BY <1>7, <1>3, <1>4, <1>6 DEF Wanted, TypeInv, ControlType, Locks
  <2>2. pc'[t] = then
    BY <1>7, <1>4 DEF TypeInv, ControlType
  <2> QED
    BY <2>1, <2>2, <1>4, <1>5, <1>6 DEF LockOf, ToHeld, MovePath, NothingHeld, Waiting
<1>8. CASE Wanted(t) # {k}
  <2>1. PICK j \in Wanted(t) : j # k
    BY <1>8, <1>2
  <2>2. j \in {from[t], to[t]} /\ lock[j] # t /\ j \in Locks
    BY <2>1 DEF Wanted, TypeInv, ControlType, Locks
  <2>3. lock'[j] # t
    BY <2>1, <2>2, <1>4 DEF TypeInv, ControlType
  <2>4. Wanted(t)' # {}
    BY <2>2, <2>3, <1>4 DEF Wanted
  <2>5. pc'[t] = wait
    BY <1>8, <1>4 DEF TypeInv, ControlType
  <2> QED
    BY <2>4, <2>5, <1>5, <1>6
       DEF LockOf, Waiting, CatalogHeld, FromHeld, ToHeld, MovePath, NothingHeld
<1> QED
  BY <1>7, <1>8

LEMMA LockInit == Init => LockInv
  BY DEF Init, LockInv, LockOf, Locks, CatalogHeld, FromHeld, ToHeld, NothingHeld,
     Waiting, PurgeLabels, MovePath

LEMMA LockStep == TypeInv /\ LockInv /\ [Next]_vars => LockInv'
<1> SUFFICES ASSUME TypeInv, LockInv, [Next]_vars PROVE LockInv'
  OBVIOUS
<1>0. ControlType /\ Catalog \in Locks /\ Catalog \notin Paths /\ Paths \subseteq Locks
  BY DEF TypeInv, Locks, Paths, Catalog
<1>d. ASSUME NEW t \in Tasks, NEW l \in {"idle", "using", "viewCount"}, Done(t, l)
      PROVE  OthersKeep(t) /\ LockOf(t)'
  <2>1. \A k \in Locks : lock'[k] # t
    BY <1>d DEF Done, Released
  <2>2. pc'[t] = l
    BY <1>d, <1>0 DEF Done, Goto, ControlType
  <2>3. OthersKeep(t)
    BY <1>d, <1>0 DEF OthersKeep, Done, Goto, Released, ControlType
  <2> QED
    BY <2>1, <2>2, <2>3, <1>0 DEF LockOf, CatalogHeld, FromHeld, ToHeld, NothingHeld,
       Waiting, PurgeLabels, MovePath
<1>r. row.path \in Paths
  BY DEF TypeInv, DataType
<1>l. \A t \in Tasks : LockOf(t)
  BY DEF LockInv
<1>k. ASSUME NEW t \in Tasks, UNCHANGED <<lock, from, to>>, pc[t] = "openDatabase",
             NEW l \in {"openLease", "openUndo"}, pc' = [pc EXCEPT ![t] = l]
      PROVE  OthersKeep(t) /\ LockOf(t)'
  BY <1>k, <1>0, <1>l DEF OthersKeep, LockOf, ControlType,
     CatalogHeld, FromHeld, ToHeld, NothingHeld, Waiting, PurgeLabels, MovePath
<1>1. ASSUME NEW t \in Tasks, openLock(t) PROVE OthersKeep(t) /\ LockOf(t)'
  BY <1>1, <1>0, <1>l, <1>r DEF OthersKeep, LockOf, ControlType, openLock, Goto, Take,
     CatalogHeld, FromHeld, ToHeld, NothingHeld, Waiting, PurgeLabels, MovePath
<1>2. ASSUME NEW t \in Tasks, openBusy(t) PROVE OthersKeep(t) /\ LockOf(t)'
  BY <1>2, <1>d DEF openBusy, Return
<1>3. ASSUME NEW t \in Tasks, openDatabase(t) PROVE OthersKeep(t) /\ LockOf(t)'
  BY <1>3, <1>k DEF openDatabase, Goto
<1>4. ASSUME NEW t \in Tasks, openDatabaseFails(t) PROVE OthersKeep(t) /\ LockOf(t)'
  BY <1>4, <1>k DEF openDatabaseFails, Goto
<1>5. ASSUME NEW t \in Tasks, openLease(t) PROVE OthersKeep(t) /\ LockOf(t)'
  BY <1>5, <1>d DEF openLease, Return
<1>6. ASSUME NEW t \in Tasks, openRefused(t) PROVE OthersKeep(t) /\ LockOf(t)'
  BY <1>6, <1>0, <1>l, <1>r DEF OthersKeep, LockOf, ControlType, openRefused, Goto, Take,
     CatalogHeld, FromHeld, ToHeld, NothingHeld, Waiting, PurgeLabels, MovePath
<1>7. ASSUME NEW t \in Tasks, openUndo(t) PROVE OthersKeep(t) /\ LockOf(t)'
  BY <1>7, <1>d DEF openUndo, Return
<1>8. ASSUME NEW t \in Tasks, openUndoBusy(t) PROVE OthersKeep(t) /\ LockOf(t)'
  BY <1>8, <1>d DEF openUndoBusy, Return
<1>9. ASSUME NEW t \in Tasks, closeLease(t) PROVE OthersKeep(t) /\ LockOf(t)'
  BY <1>9, <1>d DEF closeLease, Return
<1>10. ASSUME NEW t \in Tasks, closeLeaseBusy(t) PROVE OthersKeep(t) /\ LockOf(t)'
  BY <1>10, <1>d DEF closeLeaseBusy, Return
<1>11. ASSUME NEW t \in Tasks, purgeLock(t) PROVE OthersKeep(t) /\ LockOf(t)'
  BY <1>11, <1>0, <1>l, <1>r DEF OthersKeep, LockOf, ControlType, purgeLock, Goto, Take,
     CatalogHeld, FromHeld, ToHeld, NothingHeld, Waiting, PurgeLabels, MovePath
<1>12. ASSUME NEW t \in Tasks, purgeBusy(t) PROVE OthersKeep(t) /\ LockOf(t)'
  BY <1>12, <1>d DEF purgeBusy, Return
<1>13. ASSUME NEW t \in Tasks, purgeCheck(t) PROVE OthersKeep(t) /\ LockOf(t)'
  BY <1>13, <1>0, <1>l, <1>r DEF OthersKeep, LockOf, ControlType, purgeCheck, Goto, Take,
     CatalogHeld, FromHeld, ToHeld, NothingHeld, Waiting, PurgeLabels, MovePath
<1>14. ASSUME NEW t \in Tasks, purgeRefused(t) PROVE OthersKeep(t) /\ LockOf(t)'
  BY <1>14, <1>d DEF purgeRefused, Return
<1>15. ASSUME NEW t \in Tasks, purgeDelete(t) PROVE OthersKeep(t) /\ LockOf(t)'
  BY <1>15, <1>0, <1>l, <1>r DEF OthersKeep, LockOf, ControlType, purgeDelete, Goto, Take,
     CatalogHeld, FromHeld, ToHeld, NothingHeld, Waiting, PurgeLabels, MovePath
<1>16. ASSUME NEW t \in Tasks, purgeForget(t) PROVE OthersKeep(t) /\ LockOf(t)'
  BY <1>16, <1>d DEF purgeForget, Return
<1>17. ASSUME NEW t \in Tasks, purgeFails(t) PROVE OthersKeep(t) /\ LockOf(t)'
  BY <1>17, <1>d DEF purgeFails, Return
<1>18. ASSUME NEW t \in Tasks, relocateLock(t) PROVE OthersKeep(t) /\ LockOf(t)'
  <2>1. "moveLock" \in Waiting /\ "moveBegin" \in ToHeld /\ "moveBegin" \in CatalogHeld
    BY DEF Waiting, ToHeld, CatalogHeld, MovePath
  <2> QED
    BY <2>1, <1>18, <1>l, MarkersStep DEF relocateLock
<1>19. ASSUME NEW t \in Tasks, relocateBusy(t) PROVE OthersKeep(t) /\ LockOf(t)'
  BY <1>19, <1>d DEF relocateBusy, Return
<1>20. ASSUME NEW t \in Tasks, relocateBegin(t) PROVE OthersKeep(t) /\ LockOf(t)'
  BY <1>20, <1>0, <1>l, <1>r DEF OthersKeep, LockOf, ControlType, relocateBegin, Goto, Take,
     CatalogHeld, FromHeld, ToHeld, NothingHeld, Waiting, PurgeLabels, MovePath
<1>21. ASSUME NEW t \in Tasks, relocateRefused(t) PROVE OthersKeep(t) /\ LockOf(t)'
  BY <1>21, <1>d DEF relocateRefused, Return
<1>22. ASSUME NEW t \in Tasks, relocateJournal(t) PROVE OthersKeep(t) /\ LockOf(t)'
  BY <1>22, <1>0, <1>l, <1>r DEF OthersKeep, LockOf, ControlType, relocateJournal, Goto, Take,
     CatalogHeld, FromHeld, ToHeld, NothingHeld, Waiting, PurgeLabels, MovePath
<1>23. ASSUME NEW t \in Tasks, relocateRename(t) PROVE OthersKeep(t) /\ LockOf(t)'
  BY SMTT(20), <1>23, <1>0, <1>l, <1>r DEF OthersKeep, LockOf, ControlType, relocateRename, Goto, Take,
     CatalogHeld, FromHeld, ToHeld, NothingHeld, Waiting, PurgeLabels, MovePath
<1>24. ASSUME NEW t \in Tasks, relocateRenameFails(t) PROVE OthersKeep(t) /\ LockOf(t)'
  BY SMTT(20), <1>24, <1>0, <1>l, <1>r DEF OthersKeep, LockOf, ControlType, relocateRenameFails, Goto, Take,
     CatalogHeld, FromHeld, ToHeld, NothingHeld, Waiting, PurgeLabels, MovePath
<1>25. ASSUME NEW t \in Tasks, relocateUpdate(t) PROVE OthersKeep(t) /\ LockOf(t)'
  BY <1>25, <1>0, <1>l, <1>r DEF OthersKeep, LockOf, ControlType, relocateUpdate, Goto, Take,
     CatalogHeld, FromHeld, ToHeld, NothingHeld, Waiting, PurgeLabels, MovePath
<1>26. ASSUME NEW t \in Tasks, relocateClear(t) PROVE OthersKeep(t) /\ LockOf(t)'
  BY <1>26, <1>0, <1>l, <1>r DEF OthersKeep, LockOf, ControlType, relocateClear, Goto, Take,
     CatalogHeld, FromHeld, ToHeld, NothingHeld, Waiting, PurgeLabels, MovePath
<1>27. ASSUME NEW t \in Tasks, relocateFails(t) PROVE OthersKeep(t) /\ LockOf(t)'
  BY <1>27, <1>0, <1>l, <1>r DEF OthersKeep, LockOf, ControlType, relocateFails, Goto, Take,
     CatalogHeld, FromHeld, ToHeld, NothingHeld, Waiting, PurgeLabels, MovePath
<1>28. ASSUME NEW t \in Tasks, relocateBack(t) PROVE OthersKeep(t) /\ LockOf(t)'
  BY <1>28, <1>0, <1>l, <1>r DEF OthersKeep, LockOf, ControlType, relocateBack, Goto, Take,
     CatalogHeld, FromHeld, ToHeld, NothingHeld, Waiting, PurgeLabels, MovePath
<1>29. ASSUME NEW t \in Tasks, relocateUndone(t) PROVE OthersKeep(t) /\ LockOf(t)'
  BY <1>29, <1>0, <1>l, <1>r DEF OthersKeep, LockOf, ControlType, relocateUndone, Goto, Take,
     CatalogHeld, FromHeld, ToHeld, NothingHeld, Waiting, PurgeLabels, MovePath
<1>30. ASSUME NEW t \in Tasks, relocateUndoFails(t) PROVE OthersKeep(t) /\ LockOf(t)'
  BY <1>30, <1>0, <1>l, <1>r DEF OthersKeep, LockOf, ControlType, relocateUndoFails, Goto, Take,
     CatalogHeld, FromHeld, ToHeld, NothingHeld, Waiting, PurgeLabels, MovePath
<1>31. ASSUME NEW t \in Tasks, relocateEnd(t) PROVE OthersKeep(t) /\ LockOf(t)'
  BY <1>31, <1>d DEF relocateEnd, Return
<1>32. ASSUME NEW t \in Tasks, recoverStart(t) PROVE OthersKeep(t) /\ LockOf(t)'
  <2>1. pc[t] = "idle" /\ \A l \in Locks : lock[l] # t
    BY <1>32, <1>l DEF recoverStart, LockOf, NothingHeld
  <2>2. CASE journal.owner = "dead"
    <3>1. /\ lock[Catalog] = NoTask /\ lock' = [lock EXCEPT ![Catalog] = t]
          /\ from' = [from EXCEPT ![t] = journal.from] /\ to' = [to EXCEPT ![t] = journal.to]
          /\ pc' = [pc EXCEPT ![t] = "recoverLock"]
      BY <1>32, <2>2 DEF recoverStart, Take, Goto
    <3>2. OthersKeep(t)
      BY <3>1, <1>0 DEF OthersKeep, ControlType
    <3>3. pc'[t] = "recoverLock" /\ lock'[Catalog] = t
      BY <3>1, <1>0 DEF ControlType
    <3>4. journal.from \in Paths /\ from'[t] = journal.from
      BY <3>1, <1>0 DEF TypeInv, DataType, ControlType
    <3>5. lock'[from'[t]] # t
      BY <3>1, <3>4, <2>1, <1>0 DEF ControlType
    <3> QED
      BY <3>2, <3>3, <3>5 DEF LockOf, Wanted, CatalogHeld, FromHeld, ToHeld,
         NothingHeld, Waiting, PurgeLabels, MovePath
  <2>3. CASE journal.owner # "dead"
    <3>1. lock' = lock /\ from' = from /\ to' = to /\ pc' = pc
      BY <1>32, <2>3 DEF recoverStart
    <3>2. OthersKeep(t)
      BY <3>1 DEF OthersKeep
    <3>3. LockOf(t) /\ Wanted(t)' = Wanted(t)
      BY <3>1, <1>l DEF Wanted
    <3>4. LockOf(t)'
      BY <3>1, <3>3 DEF LockOf
    <3> QED
      BY <3>2, <3>4
  <2> QED
    BY <2>2, <2>3
<1>33. ASSUME NEW t \in Tasks, recoverLock(t) PROVE OthersKeep(t) /\ LockOf(t)'
  <2>1. "recoverLock" \in Waiting /\ "recoverSettle" \in ToHeld /\ "recoverSettle" \in CatalogHeld
    BY DEF Waiting, ToHeld, CatalogHeld, MovePath
  <2> QED
    BY <2>1, <1>33, <1>l, MarkersStep DEF recoverLock
<1>34. ASSUME NEW t \in Tasks, recoverBusy(t) PROVE OthersKeep(t) /\ LockOf(t)'
  BY <1>34, <1>d DEF recoverBusy, Return, Fail
<1>35. ASSUME NEW t \in Tasks, recoverSettle(t) PROVE OthersKeep(t) /\ LockOf(t)'
  BY <1>35, <1>0, <1>l DEF OthersKeep, LockOf, ControlType, recoverSettle, Goto,
     CatalogHeld, FromHeld, ToHeld, NothingHeld, Waiting, PurgeLabels, MovePath
<1>36. ASSUME NEW t \in Tasks, recoverGivesUp(t) PROVE OthersKeep(t) /\ LockOf(t)'
  BY <1>36, <1>d DEF recoverGivesUp, Return
<1>37. ASSUME NEW t \in Tasks, openRead(t) PROVE OthersKeep(t) /\ LockOf(t)'
  BY <1>37, <1>0, <1>l, <1>r DEF OthersKeep, LockOf, ControlType, openRead, Goto, Take,
     CatalogHeld, FromHeld, ToHeld, NothingHeld, Waiting, PurgeLabels, MovePath
<1>38. ASSUME NEW t \in Tasks, closeHandle(t) PROVE OthersKeep(t) /\ LockOf(t)'
  BY <1>38, <1>0, <1>l, <1>r DEF OthersKeep, LockOf, ControlType, closeHandle, Goto, Take,
     CatalogHeld, FromHeld, ToHeld, NothingHeld, Waiting, PurgeLabels, MovePath
<1>39. ASSUME NEW t \in Tasks, markWorkspaceRemoved(t) PROVE OthersKeep(t) /\ LockOf(t)'
  BY <1>39, <1>0, <1>l, <1>r DEF OthersKeep, LockOf, ControlType, markWorkspaceRemoved, Goto, Take,
     CatalogHeld, FromHeld, ToHeld, NothingHeld, Waiting, PurgeLabels, MovePath
<1>40. ASSUME NEW t \in Tasks, purgeStart(t) PROVE OthersKeep(t) /\ LockOf(t)'
  BY <1>40, <1>0, <1>l, <1>r DEF OthersKeep, LockOf, ControlType, purgeStart, Goto, Take,
     CatalogHeld, FromHeld, ToHeld, NothingHeld, Waiting, PurgeLabels, MovePath
<1>41. ASSUME NEW t \in Tasks, NEW path \in Paths, relocateStart(t, path) PROVE OthersKeep(t) /\ LockOf(t)'
  <2>1. OthersKeep(t)
    BY <1>41, <1>0, <1>l, <1>r DEF OthersKeep, ControlType, relocateStart, Goto, Take
  <2>2. pc[t] = "idle" /\ \A l \in Locks : lock[l] # t
    BY <1>41, <1>l DEF relocateStart, LockOf, NothingHeld
  <2>3. /\ lock' = [lock EXCEPT ![Catalog] = t] /\ pc' = [pc EXCEPT ![t] = "moveLock"]
        /\ from' = [from EXCEPT ![t] = row.path]
    BY <1>41 DEF relocateStart, Take, Goto
  <2>4. pc'[t] = "moveLock" /\ lock'[Catalog] = t /\ from'[t] = row.path
    BY <2>3, <1>0 DEF ControlType
  <2>5. lock'[from'[t]] # t
    BY <2>2, <2>3, <2>4, <1>0, <1>r DEF ControlType
  <2> QED
    BY <2>1, <2>4, <2>5 DEF LockOf, Wanted, CatalogHeld, FromHeld, ToHeld,
       NothingHeld, Waiting, PurgeLabels, MovePath
<1>42. ASSUME NEW p \in Processes, crash(p) PROVE LockInv'
  <2> SUFFICES ASSUME NEW t \in Tasks PROVE LockOf(t)'
    BY DEF LockInv
  <2>1. CASE Home[t] = p
    BY <2>1, <1>42, <1>0 DEF crash, LockOf, ControlType, CatalogHeld, FromHeld, ToHeld,
       NothingHeld, Waiting, PurgeLabels, MovePath
  <2>2. CASE Home[t] # p
    <3>1. /\ pc'[t] = pc[t] /\ from'[t] = from[t] /\ to'[t] = to[t]
          /\ \A l \in Locks : lock'[l] = t <=> lock[l] = t
      BY <2>2, <1>42, <1>0 DEF crash, ControlType
    <3>2. Wanted(t)' = Wanted(t) /\ from[t] \in Locks /\ to[t] \in Locks
      BY <3>1, <1>0 DEF Wanted, ControlType
    <3> QED
      BY <3>1, <3>2, <1>0, <1>l DEF LockOf
  <2> QED
    BY <2>1, <2>2
<1>43. CASE UNCHANGED vars
  BY <1>43, <1>l DEF LockInv, LockOf, Wanted, vars
<1>44. ASSUME NEW t \in Tasks, OthersKeep(t) /\ LockOf(t)' PROVE LockInv'
  BY <1>44, LockFrame
<1>45. ASSUME NEW t \in Tasks, viewRead(t) PROVE OthersKeep(t) /\ LockOf(t)'
  BY <1>45, <1>0, <1>l, <1>r DEF OthersKeep, LockOf, ControlType, viewRead, Goto,
     CatalogHeld, FromHeld, ToHeld, NothingHeld, Waiting, PurgeLabels, MovePath
<1>46. ASSUME NEW t \in Tasks, viewOpen(t) PROVE OthersKeep(t) /\ LockOf(t)'
  BY <1>46, <1>d DEF viewOpen
<1>47. ASSUME NEW t \in Tasks, viewFails(t) PROVE OthersKeep(t) /\ LockOf(t)'
  BY <1>47, <1>d DEF viewFails, Return
<1>48. ASSUME NEW t \in Tasks, viewCount(t) PROVE OthersKeep(t) /\ LockOf(t)'
  BY <1>48, <1>0, <1>l DEF OthersKeep, LockOf, ControlType, viewCount, Goto,
     CatalogHeld, FromHeld, ToHeld, NothingHeld, Waiting, PurgeLabels, MovePath
<1>49. ASSUME NEW t \in Tasks, closeView(t) PROVE OthersKeep(t) /\ LockOf(t)'
  BY <1>49, <1>0, <1>l DEF OthersKeep, LockOf, ControlType, closeView, Goto,
     CatalogHeld, FromHeld, ToHeld, NothingHeld, Waiting, PurgeLabels, MovePath
<1>50. ASSUME NEW t \in Tasks, recoverClear(t) PROVE OthersKeep(t) /\ LockOf(t)'
  BY <1>50, <1>d DEF recoverClear
<1>51. ASSUME NEW t \in Tasks, recoverFails(t) PROVE OthersKeep(t) /\ LockOf(t)'
  BY <1>51, <1>d DEF recoverFails
<1> QED
  BY <1>1, <1>2, <1>3, <1>4, <1>5, <1>6, <1>7, <1>8, <1>9, <1>10, <1>11, <1>12, <1>13,
     <1>14, <1>15, <1>16, <1>17, <1>18, <1>19, <1>20, <1>21, <1>22, <1>23, <1>24, <1>25,
     <1>26, <1>27, <1>28, <1>29, <1>30, <1>31, <1>32, <1>33, <1>34, <1>35, <1>36, <1>37,
     <1>38, <1>39, <1>40, <1>41, <1>42, <1>43, <1>44, <1>45, <1>46, <1>47, <1>48, <1>49,
     <1>50, <1>51
     DEF Next, Step, Call, Open, Close, View, Purge, Move, Recover

-----------------------------------------------------------------------------
(* Leases and handles.                                                     *)

\* A step that opens or closes no handle and changes no lease.
Elsewhere(t) ==
    /\ \A u \in Tasks \ {t} : pc'[u] = pc[u]
    /\ pc[t] \notin {"using", "closeLease"}
    /\ pc'[t] \notin {"using", "closeLease"}
    /\ pc'[t] \in {"viewCount", "viewing"} <=> pc[t] \in {"viewCount", "viewing"}
    /\ leases' = leases
    /\ handle' = handle
    /\ incidents \subseteq incidents' /\ incidents' \subseteq incidents \cup Incidents
    /\ faults' = faults \/ (faults < MaxFaults /\ faults' = faults + 1)
    /\ crashes' = crashes

\* A step that opens or closes a handle or changes a lease.
LeaseChange(t) == \/ openLease(t) \/ closeLease(t) \/ closeLeaseBusy(t)
                  \/ closeHandle(t) \/ openUndo(t) \/ purgeForget(t)
                  \/ viewOpen(t) \/ closeView(t)

LEMMA CountedFinite == \A p \in Processes : IsFiniteSet(Counted(p))
  BY FS_Subset DEF Counted

LEMMA ElsewhereStep ==
    ASSUME TypeInv, LeaseInv, HandleInv, NEW t \in Tasks, Elsewhere(t)
    PROVE  LeaseInv' /\ HandleInv'
<1>1. \A p \in Processes : Counted(p)' = Counted(p)
  BY DEF Counted, Elsewhere
<1>2. LeaseInv'
  BY <1>1 DEF LeaseInv, Elsewhere
<1>3. HandleInv'
  BY DEF HandleInv, Elsewhere, Opened
<1> QED
  BY <1>2, <1>3

\* Every step either leaves handles and leases alone or is one that does not.
LEMMA StepSorted ==
    ASSUME TypeInv, [Next]_vars
    PROVE  \/ \E t \in Tasks : Elsewhere(t) \/ LeaseChange(t)
           \/ \E p \in Processes : crash(p)
           \/ UNCHANGED vars
<1>p. pc \in [Tasks -> Labels]
  BY DEF TypeInv, ControlType
<1>1. ASSUME NEW t \in Tasks, openLock(t) PROVE Elsewhere(t)
  BY <1>1, <1>p DEF Elsewhere, openLock, Goto, Done, Return, Fault, Note, Incidents, Use, Env
<1>2. ASSUME NEW t \in Tasks, openBusy(t) PROVE Elsewhere(t)
  BY <1>2, <1>p DEF Elsewhere, openBusy, Goto, Done, Return, Fault, Note, Incidents, Use, Env
<1>3. ASSUME NEW t \in Tasks, openDatabase(t) PROVE Elsewhere(t)
  BY <1>3, <1>p DEF Elsewhere, openDatabase, Goto, Done, Return, Fault, Note, Incidents, Use, Env
<1>4. ASSUME NEW t \in Tasks, openDatabaseFails(t) PROVE Elsewhere(t)
  BY <1>4, <1>p DEF Elsewhere, openDatabaseFails, Goto, Done, Return, Fault, Note, Incidents, Use, Env
<1>5. ASSUME NEW t \in Tasks, openRefused(t) PROVE Elsewhere(t)
  BY <1>5, <1>p DEF Elsewhere, openRefused, Goto, Done, Return, Fault, Note, Incidents, Use, Env
<1>6. ASSUME NEW t \in Tasks, openUndoBusy(t) PROVE Elsewhere(t)
  BY <1>6, <1>p DEF Elsewhere, openUndoBusy, Goto, Done, Return, Fault, Note, Incidents, Use, Env
<1>7. ASSUME NEW t \in Tasks, purgeLock(t) PROVE Elsewhere(t)
  BY <1>7, <1>p DEF Elsewhere, purgeLock, Goto, Done, Return, Fault, Note, Incidents, Use, Env
<1>8. ASSUME NEW t \in Tasks, purgeBusy(t) PROVE Elsewhere(t)
  BY <1>8, <1>p DEF Elsewhere, purgeBusy, Goto, Done, Return, Fault, Note, Incidents, Use, Env
<1>9. ASSUME NEW t \in Tasks, purgeCheck(t) PROVE Elsewhere(t)
  BY <1>9, <1>p DEF Elsewhere, purgeCheck, Goto, Done, Return, Fault, Note, Incidents, Use, Env
<1>10. ASSUME NEW t \in Tasks, purgeRefused(t) PROVE Elsewhere(t)
  BY <1>10, <1>p DEF Elsewhere, purgeRefused, Goto, Done, Return, Fault, Note, Incidents, Use, Env
<1>11. ASSUME NEW t \in Tasks, purgeDelete(t) PROVE Elsewhere(t)
  BY <1>11, <1>p DEF Elsewhere, purgeDelete, Foreign, Goto, Note, Incidents, Use, Env
<1>12. ASSUME NEW t \in Tasks, purgeFails(t) PROVE Elsewhere(t)
  BY <1>12, <1>p DEF Elsewhere, purgeFails, Goto, Done, Return, Fault, Note, Incidents, Use, Env
<1>13. ASSUME NEW t \in Tasks, relocateLock(t) PROVE Elsewhere(t)
  BY <1>13, <1>p DEF Elsewhere, relocateLock, takeMarkers, Goto, Done, Return, Fault, Note, Incidents, Use, Env
<1>14. ASSUME NEW t \in Tasks, relocateBusy(t) PROVE Elsewhere(t)
  BY <1>14, <1>p DEF Elsewhere, relocateBusy, Goto, Done, Return, Fault, Note, Incidents, Use, Env
<1>15. ASSUME NEW t \in Tasks, relocateBegin(t) PROVE Elsewhere(t)
  BY <1>15, <1>p DEF Elsewhere, relocateBegin, Goto, Done, Return, Fault, Note, Incidents, Use, Env
<1>16. ASSUME NEW t \in Tasks, relocateRefused(t) PROVE Elsewhere(t)
  BY <1>16, <1>p DEF Elsewhere, relocateRefused, Goto, Done, Return, Fault, Note, Incidents, Use, Env
<1>17. ASSUME NEW t \in Tasks, relocateJournal(t) PROVE Elsewhere(t)
  BY <1>17, <1>p DEF Elsewhere, relocateJournal, Goto, Done, Return, Fault, Note, Incidents, Use, Env
<1>18. ASSUME NEW t \in Tasks, relocateRename(t) PROVE Elsewhere(t)
  BY <1>18, <1>p DEF Elsewhere, relocateRename, Foreign, Goto, Note, Incidents, Use, Env
<1>19. ASSUME NEW t \in Tasks, relocateRenameFails(t) PROVE Elsewhere(t)
  BY <1>19, <1>p DEF Elsewhere, relocateRenameFails, Goto, Done, Return, Fault, Note, Incidents, Use, Env
<1>20. ASSUME NEW t \in Tasks, relocateUpdate(t) PROVE Elsewhere(t)
  BY <1>20, <1>p DEF Elsewhere, relocateUpdate, Goto, Done, Return, Fault, Note, Incidents, Use, Env
<1>21. ASSUME NEW t \in Tasks, relocateClear(t) PROVE Elsewhere(t)
  BY <1>21, <1>p DEF Elsewhere, relocateClear, Goto, Done, Return, Fault, Note, Incidents, Use, Env
<1>22. ASSUME NEW t \in Tasks, relocateFails(t) PROVE Elsewhere(t)
  BY <1>22, <1>p DEF Elsewhere, relocateFails, Goto, Done, Return, Fault, Note, Incidents, Use, Env
<1>23. ASSUME NEW t \in Tasks, relocateBack(t) PROVE Elsewhere(t)
  BY <1>23, <1>p DEF Elsewhere, relocateBack, Foreign, Goto, Note, Incidents, Use, Env
<1>24. ASSUME NEW t \in Tasks, relocateUndone(t) PROVE Elsewhere(t)
  BY <1>24, <1>p DEF Elsewhere, relocateUndone, Goto, Done, Return, Fault, Note, Incidents, Use, Env
<1>25. ASSUME NEW t \in Tasks, relocateUndoFails(t) PROVE Elsewhere(t)
  BY <1>25, <1>p DEF Elsewhere, relocateUndoFails, Goto, Done, Return, Fault, Note, Incidents, Use, Env
<1>26. ASSUME NEW t \in Tasks, relocateEnd(t) PROVE Elsewhere(t)
  BY <1>26, <1>p DEF Elsewhere, relocateEnd, Goto, Done, Return, Fault, Note, Incidents, Use, Env
<1>27. ASSUME NEW t \in Tasks, recoverStart(t) PROVE Elsewhere(t)
  BY <1>27, <1>p DEF Elsewhere, recoverStart, Goto, Done, Return, Fault, Note, Incidents, Use, Env
<1>28. ASSUME NEW t \in Tasks, recoverLock(t) PROVE Elsewhere(t)
  BY <1>28, <1>p DEF Elsewhere, recoverLock, takeMarkers, Goto, Done, Return, Fault, Note, Incidents, Use, Env
<1>29. ASSUME NEW t \in Tasks, recoverBusy(t) PROVE Elsewhere(t)
  BY <1>29, <1>p DEF Elsewhere, recoverBusy, Fail, Goto, Done, Return, Fault, Note, Incidents, Use, Env
<1>30. ASSUME NEW t \in Tasks, recoverSettle(t) PROVE Elsewhere(t)
  BY <1>30, <1>p DEF Elsewhere, recoverSettle, Goto, Done, Return, Fault, Note, Incidents, Use, Env
<1>31. ASSUME NEW t \in Tasks, recoverGivesUp(t) PROVE Elsewhere(t)
  BY <1>31, <1>p DEF Elsewhere, recoverGivesUp, Goto, Done, Return, Fault, Note, Incidents, Use, Env
<1>32. ASSUME NEW t \in Tasks, openRead(t) PROVE Elsewhere(t)
  BY <1>32, <1>p DEF Elsewhere, openRead, Goto, Done, Return, Fault, Note, Incidents, Use, Env
<1>33. ASSUME NEW t \in Tasks, markWorkspaceRemoved(t) PROVE Elsewhere(t)
  BY <1>33, <1>p DEF Elsewhere, markWorkspaceRemoved, Goto, Done, Return, Fault, Note, Incidents, Use, Env
<1>34. ASSUME NEW t \in Tasks, purgeStart(t) PROVE Elsewhere(t)
  BY <1>34, <1>p DEF Elsewhere, purgeStart, Goto, Done, Return, Fault, Note, Incidents, Use, Env
<1>35. ASSUME NEW t \in Tasks, NEW path \in Paths, relocateStart(t, path) PROVE Elsewhere(t)
  BY <1>35, <1>p DEF Elsewhere, relocateStart, Goto, Done, Return, Fault, Note, Incidents, Use, Env
<1>36. ASSUME NEW t \in Tasks, viewRead(t) PROVE Elsewhere(t)
  BY <1>36, <1>p DEF Elsewhere, viewRead, Goto, Use, Env
<1>37. ASSUME NEW t \in Tasks, viewFails(t) PROVE Elsewhere(t)
  BY <1>37, <1>p DEF Elsewhere, viewFails, Goto, Done, Return, Use, Env
<1>38. ASSUME NEW t \in Tasks, viewCount(t) PROVE Elsewhere(t)
  BY <1>38, <1>p DEF Elsewhere, viewCount, Goto, Note, Incidents, Use
<1>39. ASSUME NEW t \in Tasks, recoverClear(t) PROVE Elsewhere(t)
  BY <1>39, <1>p DEF Elsewhere, recoverClear, Goto, Done, Use
<1>40. ASSUME NEW t \in Tasks, recoverFails(t) PROVE Elsewhere(t)
  BY <1>40, <1>p DEF Elsewhere, recoverFails, Goto, Done, Fault, Use
<1> QED
  BY <1>1, <1>2, <1>3, <1>4, <1>5, <1>6, <1>7, <1>8, <1>9, <1>10, <1>11, <1>12, <1>13,
     <1>14, <1>15, <1>16, <1>17, <1>18, <1>19, <1>20, <1>21, <1>22, <1>23, <1>24, <1>25,
     <1>26, <1>27, <1>28, <1>29, <1>30, <1>31, <1>32, <1>33, <1>34, <1>35, <1>36, <1>37,
     <1>38, <1>39, <1>40
     DEF Next, Step, Call, Open, Close, View, Purge, Move, Recover, LeaseChange

LEMMA LeaseStep == TypeInv /\ LeaseInv /\ HandleInv /\ QuietInv /\ [Next]_vars => LeaseInv' /\ HandleInv'
<1> SUFFICES ASSUME TypeInv, LeaseInv, HandleInv, QuietInv, [Next]_vars PROVE LeaseInv' /\ HandleInv'
  OBVIOUS
<1>0. TypeInv /\ DataType /\ ControlType
  BY DEF TypeInv
<1>1. ASSUME NEW t \in Tasks, openLease(t) PROVE LeaseInv' /\ HandleInv'
  <2>1. HandleInv'
    <3>1. from[t] \in Paths /\ NoPath \notin Paths
      BY <1>0 DEF ControlType, Paths, NoPath
    <3> QED
      BY <1>1, <1>0, <3>1 DEF HandleInv, Opened, ControlType, DataType, openLease, Done, Goto
  <2>2. t \notin Counted(Home[t]) /\ incidents' = incidents
    BY <1>1 DEF Counted, openLease, Env
  <2>3. Counted(Home[t])' = Counted(Home[t]) \cup {t}
    BY <1>1, <1>0 DEF Counted, ControlType, DataType, openLease, Done, Goto
  <2>4. \A p \in Processes \ {Home[t]} : Counted(p)' = Counted(p) /\ leases'[p] = leases[p]
    BY <1>1, <1>0 DEF Counted, ControlType, DataType, openLease, Done, Goto
  <2>5. leases'[Home[t]] = leases[Home[t]] + 1
    BY <1>1, <1>0 DEF ControlType, DataType, openLease
  <2>6. Cardinality(Counted(Home[t])') = Cardinality(Counted(Home[t])) + 1
    BY <2>2, <2>3, CountedFinite, FS_AddElement
  <2>7. Cardinality(Counted(Home[t])) \in Nat /\ leases[Home[t]] \in Nat
    BY <1>0, CountedFinite, FS_CardinalityType DEF DataType
  <2> QED
    BY SMTT(20), <2>1, <2>2, <2>4, <2>5, <2>6, <2>7 DEF LeaseInv
<1>2. ASSUME NEW t \in Tasks, closeLease(t) PROVE LeaseInv' /\ HandleInv'
  <2>1. HandleInv'
    BY <1>2, <1>0 DEF HandleInv, Opened, ControlType, DataType, closeLease, Done, Goto
  <2>2. t \in Counted(Home[t]) /\ incidents' = incidents
    BY <1>2 DEF Counted, closeLease, Env
  <2>3. Counted(Home[t])' = Counted(Home[t]) \ {t}
    BY <1>2, <1>0 DEF Counted, ControlType, DataType, closeLease, Done, Goto
  <2>4. \A p \in Processes \ {Home[t]} : Counted(p)' = Counted(p) /\ leases'[p] = leases[p]
    BY <1>2, <1>0 DEF Counted, ControlType, DataType, closeLease, Unleased, Done, Goto
  <2>5. leases'[Home[t]] = IF leases[Home[t]] > 0 THEN leases[Home[t]] - 1 ELSE leases[Home[t]]
    BY <1>2, <1>0 DEF ControlType, DataType, closeLease, Unleased
  <2>6. Cardinality(Counted(Home[t])') = Cardinality(Counted(Home[t])) - 1
    BY <2>2, <2>3, CountedFinite, FS_RemoveElement
  <2>7. /\ Cardinality(Counted(Home[t])) \in Nat /\ Cardinality(Counted(Home[t])) # 0
        /\ leases[Home[t]] \in Nat
    BY <1>0, <2>2, CountedFinite, FS_CardinalityType, FS_EmptySet DEF DataType
  <2> QED
    BY <2>1, <2>2, <2>4, <2>5, <2>6, <2>7 DEF LeaseInv
<1>3. ASSUME NEW t \in Tasks, closeLeaseBusy(t) PROVE LeaseInv' /\ HandleInv'
  <2>1. HandleInv'
    BY <1>3, <1>0 DEF HandleInv, Opened, ControlType, DataType, closeLeaseBusy, Done, Goto, Use
  <2>2. leases' = leases /\ incidents' = incidents
    BY <1>3 DEF closeLeaseBusy, Fault, Use
  <2>3. \A p \in Processes : Counted(p)' \subseteq Counted(p)
    BY <1>3, <1>0 DEF Counted, ControlType, DataType, closeLeaseBusy, Done, Goto
  <2>4. \A p \in Processes : /\ Cardinality(Counted(p)') <= Cardinality(Counted(p))
                             /\ Cardinality(Counted(p)') \in Nat /\ Cardinality(Counted(p)) \in Nat
    BY <2>3, CountedFinite, FS_Subset, FS_CardinalityType
  <2> QED
    BY <2>1, <2>2, <2>4, <1>0 DEF LeaseInv, DataType
<1>4. ASSUME NEW t \in Tasks, closeHandle(t) PROVE LeaseInv' /\ HandleInv'
  <2>1. HandleInv'
    BY <1>4, <1>0 DEF HandleInv, Opened, ControlType, DataType, closeHandle, Goto
  <2>2. \A p \in Processes : Counted(p)' = Counted(p)
    BY <1>4, <1>0 DEF Counted, ControlType, DataType, closeHandle, Goto
  <2> QED
    BY <2>1, <2>2, <1>4 DEF LeaseInv, closeHandle, Env
<1>5. ASSUME NEW t \in Tasks, openUndo(t) PROVE LeaseInv' /\ HandleInv'
  <2>1. HandleInv'
    BY <1>5, <1>0 DEF HandleInv, Opened, ControlType, DataType, openUndo, Done, Goto
  <2>2. \A p \in Processes : Counted(p)' = Counted(p)
    BY <1>5, <1>0 DEF Counted, ControlType, DataType, openUndo, Done, Goto
  <2>3. CASE leases[Home[t]] > 0
    BY <2>1, <2>3, <1>5 DEF LeaseInv, openUndo, Note
  <2>4. CASE ~(leases[Home[t]] > 0)
    BY <2>1, <2>2, <2>4, <1>5, <1>0 DEF LeaseInv, openUndo, Note, Unleased, DataType
  <2> QED
    BY <2>3, <2>4
<1>6. ASSUME NEW t \in Tasks, purgeForget(t) PROVE LeaseInv' /\ HandleInv'
  <2>1. HandleInv'
    BY <1>6, <1>0 DEF HandleInv, Opened, ControlType, DataType, purgeForget, Done, Goto
  <2>2. \A p \in Processes : Counted(p)' = Counted(p)
    BY <1>6, <1>0 DEF Counted, ControlType, DataType, purgeForget, Done, Goto
  <2>3. "undercounted" \in incidents \/ \A p \in Processes : leases[p] = 0
    BY <1>6 DEF QuietInv, Quiet, purgeForget
  <2> QED
    BY <2>1, <2>2, <2>3, <1>6 DEF LeaseInv, purgeForget, Env
<1>7. ASSUME NEW q \in Processes, crash(q) PROVE LeaseInv' /\ HandleInv'
  <2>1. HandleInv'
    BY <1>7, <1>0 DEF HandleInv, Opened, ControlType, DataType, crash
  <2>2. Counted(q)' = {} /\ leases'[q] = 0 /\ incidents' = incidents
    BY <1>7, <1>0 DEF Counted, ControlType, DataType, crash
  <2>3. \A p \in Processes \ {q} : Counted(p)' = Counted(p) /\ leases'[p] = leases[p]
    BY <1>7, <1>0 DEF Counted, ControlType, DataType, crash
  <2>4. Cardinality(Counted(q)') <= leases'[q]
    BY <2>2, FS_EmptySet
  <2>5. ASSUME "undercounted" \notin incidents, NEW p \in Processes
        PROVE  Cardinality(Counted(p)') <= leases'[p]
    <3>1. CASE p = q
      BY <3>1, <2>4
    <3>2. CASE p # q
      <4>1. Counted(p)' = Counted(p) /\ leases'[p] = leases[p]
        BY <3>2, <2>3
      <4>2. Cardinality(Counted(p)) <= leases[p]
        BY <2>5 DEF LeaseInv
      <4> QED
        BY <4>1, <4>2
    <3> QED
      BY <3>1, <3>2
  <2>6. LeaseInv'
    BY <2>2, <2>5 DEF LeaseInv
  <2> QED
    BY <2>1, <2>6
<1>8. CASE UNCHANGED vars
  BY <1>8 DEF LeaseInv, HandleInv, Counted, vars
<1>v. ASSUME NEW t \in Tasks, viewOpen(t) \/ closeView(t) PROVE LeaseInv' /\ HandleInv'
  <2>1. HandleInv'
    <3>1. from[t] \in Paths /\ NoPath \notin Paths
      BY <1>0 DEF ControlType, Paths, NoPath
    <3> QED
      BY <1>v, <1>0, <3>1 DEF HandleInv, Opened, ControlType, DataType, viewOpen, closeView, Done, Goto
  <2>2. \A p \in Processes : Counted(p)' = Counted(p)
    BY <1>v, <1>0 DEF Counted, ControlType, viewOpen, closeView, Done, Goto
  <2> QED
    BY <2>1, <2>2, <1>v DEF LeaseInv, viewOpen, closeView, Env
<1>9. ASSUME NEW t \in Tasks, Elsewhere(t) PROVE LeaseInv' /\ HandleInv'
  BY <1>9, <1>0, ElsewhereStep
<1> QED
  BY <1>1, <1>2, <1>3, <1>4, <1>5, <1>6, <1>7, <1>8, <1>9, <1>v, StepSorted DEF LeaseChange

LEMMA BudgetInit == Init => BudgetInv
<1> SUFFICES ASSUME Init PROVE BudgetInv
  OBVIOUS
<1>1. \A p \in Processes : Counted(p) = {} /\ leases[p] = 0 /\ faults = 0
  BY DEF Init, Counted
<1>2. \A p \in Processes : leases[p] <= Cardinality(Counted(p)) + faults
  BY <1>1, FS_EmptySet
<1> QED
  BY <1>2 DEF Init, BudgetInv

\* The rows of the other processes are left alone.
LEMMA BudgetFrame ==
    ASSUME TypeInv, BudgetInv, NEW q \in Processes,
           faults' \in Nat, faults <= faults',
           \A p \in Processes \ {q} : Counted(p)' = Counted(p) /\ leases'[p] = leases[p],
           leases'[q] <= Cardinality(Counted(q)') + faults'
    PROVE  \A p \in Processes : leases'[p] <= Cardinality(Counted(p)') + faults'
<1> SUFFICES ASSUME NEW p \in Processes, p # q
             PROVE  leases'[p] <= Cardinality(Counted(p)') + faults'
  OBVIOUS
<1>1. leases[p] \in Nat /\ leases[p] <= Cardinality(Counted(p)) + faults /\ faults \in Nat
  BY DEF TypeInv, DataType, BudgetInv
<1>2. Cardinality(Counted(p)) \in Nat
  BY CountedFinite, FS_CardinalityType
<1>3. Counted(p)' = Counted(p) /\ leases'[p] = leases[p]
  OBVIOUS
<1> DEFINE held == Cardinality(Counted(p))
           heldThen == Cardinality(Counted(p)')
<1>4. heldThen = held
  BY <1>3, Zenon
<1>5. held \in Nat /\ leases[p] <= held + faults
  BY <1>1, <1>2
<1> HIDE DEF held, heldThen
<1>6. leases'[p] <= heldThen + faults'
  BY <1>1, <1>3, <1>4, <1>5
<1> QED
  BY <1>6 DEF heldThen

LEMMA BudgetStep == TypeInv /\ BudgetInv /\ [Next]_vars => BudgetInv'
<1> SUFFICES ASSUME TypeInv, BudgetInv, [Next]_vars PROVE BudgetInv'
  OBVIOUS
<1>0. TypeInv /\ DataType /\ ControlType /\ pc \in [Tasks -> Labels] /\ leases \in [Processes -> Nat]
  BY DEF TypeInv, DataType, ControlType
<1>h. \A t \in Tasks : Home[t] \in Processes
  OBVIOUS
<1>n. /\ faults \in Nat /\ crashes \in Nat
      /\ \A p \in Processes : /\ leases[p] \in Nat /\ Cardinality(Counted(p)) \in Nat
                              /\ leases[p] <= Cardinality(Counted(p)) + faults
  BY <1>0, CountedFinite, FS_CardinalityType DEF BudgetInv
<1>1. ASSUME NEW t \in Tasks, Elsewhere(t) PROVE BudgetInv'
  <2>1. \A p \in Processes : Counted(p)' = Counted(p) /\ leases'[p] = leases[p]
    BY <1>1 DEF Counted, Elsewhere
  <2>2. faults' \in 0 .. MaxFaults /\ faults <= faults'
    BY <1>1 DEF Elsewhere, BudgetInv
  <2>3. crashes' \in 0 .. MaxCrashes /\ incidents' \subseteq Incidents
    BY <1>1 DEF Elsewhere, BudgetInv
  <2>4. \A p \in Processes : leases'[p] <= Cardinality(Counted(p)') + faults'
    BY <2>1, <2>2, <1>n
  <2> QED
    BY <2>2, <2>3, <2>4 DEF BudgetInv
<1>2. ASSUME NEW t \in Tasks, openLease(t) PROVE BudgetInv'
  <2>1. UNCHANGED <<faults, crashes, incidents>>
    BY <1>2 DEF openLease, Env
  <2>2. t \notin Counted(Home[t]) /\ Counted(Home[t])' = Counted(Home[t]) \cup {t}
    BY <1>2, <1>0 DEF Counted, openLease, Done, Goto
  <2>3. \A p \in Processes \ {Home[t]} : Counted(p)' = Counted(p) /\ leases'[p] = leases[p]
    BY <1>2, <1>0 DEF Counted, openLease, Done, Goto
  <2>4. leases'[Home[t]] = leases[Home[t]] + 1
    BY <1>2, <1>0 DEF openLease
  <2>5. Cardinality(Counted(Home[t])') = Cardinality(Counted(Home[t])) + 1
    BY <2>2, <1>h, CountedFinite, FS_AddElement
  <2>6. leases'[Home[t]] <= Cardinality(Counted(Home[t])') + faults'
    BY <2>1, <2>4, <2>5, <1>n, <1>h
  <2>7. faults' \in Nat /\ faults <= faults'
    BY <2>1, <1>n
  <2> QED
    BY <2>1, <2>3, <2>6, <2>7, <1>h, BudgetFrame DEF BudgetInv
<1>3. ASSUME NEW t \in Tasks, closeLease(t) \/ closeLeaseBusy(t) PROVE BudgetInv'
  <2>1. t \in Counted(Home[t]) /\ Counted(Home[t])' = Counted(Home[t]) \ {t}
    BY <1>3, <1>0 DEF Counted, closeLease, closeLeaseBusy, Done, Goto
  <2>2. \A p \in Processes \ {Home[t]} : Counted(p)' = Counted(p) /\ leases'[p] = leases[p]
    BY <1>3, <1>0 DEF Counted, closeLease, closeLeaseBusy, Unleased, Done, Goto, Use
  <2>3. Cardinality(Counted(Home[t])') = Cardinality(Counted(Home[t])) - 1
    BY <2>1, <1>h, CountedFinite, FS_RemoveElement
  <2>4. Cardinality(Counted(Home[t])) # 0
    BY <2>1, <1>h, CountedFinite, FS_EmptySet
  <2>5. CASE closeLease(t)
    <3>1. UNCHANGED <<faults, crashes, incidents>>
      BY <2>5 DEF closeLease, Env
    <3>2. leases'[Home[t]] = IF leases[Home[t]] > 0 THEN leases[Home[t]] - 1 ELSE leases[Home[t]]
      BY <2>5, <1>0 DEF closeLease, Unleased
    <3>3. leases'[Home[t]] <= Cardinality(Counted(Home[t])') + faults'
      BY SMTT(20), <3>1, <3>2, <2>3, <2>4, <1>n, <1>h
    <3>4. faults' \in Nat /\ faults <= faults'
      BY <3>1, <1>n
    <3> QED
      BY <3>1, <3>3, <3>4, <2>2, <1>h, BudgetFrame DEF BudgetInv
  <2>6. CASE closeLeaseBusy(t)
    <3>1. UNCHANGED <<leases, crashes, incidents>> /\ faults < MaxFaults /\ faults' = faults + 1
      BY <2>6 DEF closeLeaseBusy, Fault, Use
    <3>2. leases'[Home[t]] <= Cardinality(Counted(Home[t])') + faults'
      BY <3>1, <2>3, <2>4, <1>n, <1>h
    <3>3. faults' \in 0 .. MaxFaults /\ faults <= faults'
      BY <3>1, <1>n
    <3> QED
      BY <3>1, <3>2, <3>3, <2>2, <1>h, BudgetFrame DEF BudgetInv
  <2> QED
    BY <2>5, <2>6, <1>3
<1>4. ASSUME NEW t \in Tasks, closeHandle(t) PROVE BudgetInv'
  <2>1. \A p \in Processes : Counted(p)' = Counted(p) /\ leases'[p] = leases[p]
    BY <1>4, <1>0 DEF Counted, closeHandle, Goto
  <2> QED
    BY <2>1, <1>4 DEF BudgetInv, closeHandle, Env
<1>5. ASSUME NEW t \in Tasks, openUndo(t) PROVE BudgetInv'
  <2>1. \A p \in Processes : Counted(p)' = Counted(p)
    BY <1>5, <1>0 DEF Counted, openUndo, Done, Goto
  <2>2. \A p \in Processes : leases'[p] \in Nat /\ leases'[p] <= leases[p]
    BY <1>5, <1>0 DEF openUndo, Unleased
  <2>3. faults' = faults /\ crashes' = crashes /\ incidents' \subseteq incidents \cup Incidents
    BY <1>5 DEF openUndo, Note, Incidents
  <2>4. \A p \in Processes : leases'[p] <= Cardinality(Counted(p)') + faults'
    BY <2>1, <2>2, <2>3, <1>n
  <2> QED
    BY <2>3, <2>4 DEF BudgetInv
<1>6. ASSUME NEW t \in Tasks, purgeForget(t) PROVE BudgetInv'
  <2>1. \A p \in Processes : Counted(p)' = Counted(p) /\ leases'[p] = 0
    BY <1>6, <1>0 DEF Counted, purgeForget, Done, Goto
  <2>2. UNCHANGED <<faults, crashes, incidents>>
    BY <1>6 DEF purgeForget, Env
  <2>3. \A p \in Processes : leases'[p] <= Cardinality(Counted(p)') + faults'
    BY <2>1, <2>2, <1>n
  <2> QED
    BY <2>2, <2>3 DEF BudgetInv
<1>7. ASSUME NEW q \in Processes, crash(q) PROVE BudgetInv'
  <2>1. Counted(q)' = {} /\ leases'[q] = 0 /\ UNCHANGED <<faults, incidents>>
    BY <1>7, <1>0 DEF Counted, crash
  <2>2. \A p \in Processes \ {q} : Counted(p)' = Counted(p) /\ leases'[p] = leases[p]
    BY <1>7, <1>0 DEF Counted, crash
  <2>3. leases'[q] <= Cardinality(Counted(q)') + faults' /\ faults' \in Nat /\ faults <= faults'
    BY <2>1, <1>n, FS_EmptySet
  <2>4. crashes' \in 0 .. MaxCrashes
    BY <1>7, <1>n DEF crash
  <2> QED
    BY <2>1, <2>2, <2>3, <2>4, BudgetFrame DEF BudgetInv
<1>8. CASE UNCHANGED vars
  BY <1>8 DEF BudgetInv, Counted, vars
<1>9. ASSUME NEW t \in Tasks, viewOpen(t) \/ closeView(t) PROVE BudgetInv'
  <2>1. \A p \in Processes : Counted(p)' = Counted(p) /\ leases'[p] = leases[p]
    BY <1>9, <1>0 DEF Counted, viewOpen, closeView, Done, Goto
  <2> QED
    BY <2>1, <1>9 DEF BudgetInv, viewOpen, closeView, Env
<1> QED
  BY <1>1, <1>2, <1>3, <1>4, <1>5, <1>6, <1>7, <1>8, <1>9, StepSorted DEF LeaseChange

-----------------------------------------------------------------------------
(* A purge or relocation past its checks.                                  *)

\* A step that changes no lease and does not pass such a check.
Calm(t) ==
    /\ \A u \in Tasks \ {t} : pc'[u] = pc[u]
    /\ pc'[t] \in Quiet => pc[t] \in Quiet
    /\ leases' = leases
    /\ incidents \subseteq incidents'

LEMMA QuietStep == TypeInv /\ LockInv /\ QuietInv /\ [Next]_vars => QuietInv'
<1> SUFFICES ASSUME TypeInv, LockInv, QuietInv, [Next]_vars PROVE QuietInv'
  OBVIOUS
<1>0. TypeInv /\ DataType /\ ControlType
  BY DEF TypeInv
<1>p. pc \in [Tasks -> Labels] /\ from \in [Tasks -> Paths] /\ handle \in [Tasks -> Paths \cup {NoPath}]
  BY DEF TypeInv, ControlType, DataType
<1>c. lock[Catalog] = NoTask => \A t \in Tasks : pc[t] \notin Quiet
  BY DEF LockInv, LockOf, Quiet, CatalogHeld, PurgeLabels, MovePath
<1>1. ASSUME NEW t \in Tasks, openLock(t) PROVE Calm(t)
  BY <1>1, <1>p DEF Calm, openLock, Goto, Done, Return, Fault, Note, Disk, Use, Env, Quiet, MovePath
<1>2. ASSUME NEW t \in Tasks, openBusy(t) PROVE Calm(t)
  BY <1>2, <1>p DEF Calm, openBusy, Goto, Done, Return, Fault, Note, Disk, Use, Env, Quiet, MovePath
<1>3. ASSUME NEW t \in Tasks, openDatabase(t) PROVE Calm(t)
  BY <1>3, <1>p DEF Calm, openDatabase, Goto, Done, Return, Fault, Note, Disk, Use, Env,
     Quiet, MovePath
<1>4. ASSUME NEW t \in Tasks, openDatabaseFails(t) PROVE Calm(t)
  BY <1>4, <1>p DEF Calm, openDatabaseFails, Goto, Done, Return, Fault, Note, Disk, Use,
     Env, Quiet, MovePath
<1>5. ASSUME NEW t \in Tasks, openRefused(t) PROVE Calm(t)
  BY <1>5, <1>p DEF Calm, openRefused, Goto, Done, Return, Fault, Note, Disk, Use, Env,
     Quiet, MovePath
<1>6. ASSUME NEW t \in Tasks, openUndoBusy(t) PROVE Calm(t)
  BY <1>6, <1>p DEF Calm, openUndoBusy, Goto, Done, Return, Fault, Note, Disk, Use, Env,
     Quiet, MovePath
<1>7. ASSUME NEW t \in Tasks, closeLeaseBusy(t) PROVE Calm(t)
  BY <1>7, <1>p DEF Calm, closeLeaseBusy, Goto, Done, Return, Fault, Note, Disk, Use, Env,
     Quiet, MovePath
<1>8. ASSUME NEW t \in Tasks, purgeLock(t) PROVE Calm(t)
  BY <1>8, <1>p DEF Calm, purgeLock, Goto, Done, Return, Fault, Note, Disk, Use, Env,
     Quiet, MovePath
<1>9. ASSUME NEW t \in Tasks, purgeBusy(t) PROVE Calm(t)
  BY <1>9, <1>p DEF Calm, purgeBusy, Goto, Done, Return, Fault, Note, Disk, Use, Env,
     Quiet, MovePath
<1>10. ASSUME NEW t \in Tasks, purgeRefused(t) PROVE Calm(t)
  BY <1>10, <1>p DEF Calm, purgeRefused, Goto, Done, Return, Fault, Note, Disk, Use, Env,
     Quiet, MovePath
<1>11. ASSUME NEW t \in Tasks, purgeDelete(t) PROVE Calm(t)
  BY <1>11, <1>p DEF Calm, purgeDelete, Goto, Done, Return, Fault, Note, Disk, Use, Env,
     Quiet, MovePath
<1>12. ASSUME NEW t \in Tasks, purgeFails(t) PROVE Calm(t)
  BY <1>12, <1>p DEF Calm, purgeFails, Goto, Done, Return, Fault, Note, Disk, Use, Env,
     Quiet, MovePath
<1>13. ASSUME NEW t \in Tasks, relocateLock(t) PROVE Calm(t)
  BY <1>13, <1>p DEF Calm, relocateLock, takeMarkers, Goto, Done, Return, Fault, Note,
     Disk, Use, Env, Quiet, MovePath
<1>14. ASSUME NEW t \in Tasks, relocateBusy(t) PROVE Calm(t)
  BY <1>14, <1>p DEF Calm, relocateBusy, Goto, Done, Return, Fault, Note, Disk, Use, Env,
     Quiet, MovePath
<1>15. ASSUME NEW t \in Tasks, relocateRefused(t) PROVE Calm(t)
  BY <1>15, <1>p DEF Calm, relocateRefused, Goto, Done, Return, Fault, Note, Disk, Use,
     Env, Quiet, MovePath
<1>16. ASSUME NEW t \in Tasks, relocateJournal(t) PROVE Calm(t)
  BY <1>16, <1>p DEF Calm, relocateJournal, Goto, Done, Return, Fault, Note, Disk, Use,
     Env, Quiet, MovePath
<1>17. ASSUME NEW t \in Tasks, relocateRename(t) PROVE Calm(t)
  BY <1>17, <1>p DEF Calm, relocateRename, Goto, Done, Return, Fault, Note, Disk, Use,
     Env, Quiet, MovePath
<1>18. ASSUME NEW t \in Tasks, relocateRenameFails(t) PROVE Calm(t)
  BY <1>18, <1>p DEF Calm, relocateRenameFails, Goto, Done, Return, Fault, Note, Disk,
     Use, Env, Quiet, MovePath
<1>19. ASSUME NEW t \in Tasks, relocateUpdate(t) PROVE Calm(t)
  BY <1>19, <1>p DEF Calm, relocateUpdate, Goto, Done, Return, Fault, Note, Disk, Use,
     Env, Quiet, MovePath
<1>20. ASSUME NEW t \in Tasks, relocateClear(t) PROVE Calm(t)
  BY <1>20, <1>p DEF Calm, relocateClear, Goto, Done, Return, Fault, Note, Disk, Use, Env,
     Quiet, MovePath
<1>21. ASSUME NEW t \in Tasks, relocateFails(t) PROVE Calm(t)
  BY <1>21, <1>p DEF Calm, relocateFails, Goto, Done, Return, Fault, Note, Disk, Use, Env,
     Quiet, MovePath
<1>22. ASSUME NEW t \in Tasks, relocateBack(t) PROVE Calm(t)
  BY <1>22, <1>p DEF Calm, relocateBack, Goto, Done, Return, Fault, Note, Disk, Use, Env,
     Quiet, MovePath
<1>23. ASSUME NEW t \in Tasks, relocateUndone(t) PROVE Calm(t)
  BY <1>23, <1>p DEF Calm, relocateUndone, Goto, Done, Return, Fault, Note, Disk, Use,
     Env, Quiet, MovePath
<1>24. ASSUME NEW t \in Tasks, relocateUndoFails(t) PROVE Calm(t)
  BY <1>24, <1>p DEF Calm, relocateUndoFails, Goto, Done, Return, Fault, Note, Disk, Use,
     Env, Quiet, MovePath
<1>25. ASSUME NEW t \in Tasks, relocateEnd(t) PROVE Calm(t)
  BY <1>25, <1>p DEF Calm, relocateEnd, Goto, Done, Return, Fault, Note, Disk, Use, Env,
     Quiet, MovePath
<1>26. ASSUME NEW t \in Tasks, recoverStart(t) PROVE Calm(t)
  BY <1>26, <1>p DEF Calm, recoverStart, Goto, Done, Return, Fault, Note, Disk, Use, Env,
     Quiet, MovePath
<1>27. ASSUME NEW t \in Tasks, recoverLock(t) PROVE Calm(t)
  BY <1>27, <1>p DEF Calm, recoverLock, takeMarkers, Goto, Done, Return, Fault, Note,
     Disk, Use, Env, Quiet, MovePath
<1>28. ASSUME NEW t \in Tasks, recoverBusy(t) PROVE Calm(t)
  BY <1>28, <1>p DEF Calm, recoverBusy, Fail, Goto, Done, Return, Fault, Note, Disk, Use,
     Env, Quiet, MovePath
<1>29. ASSUME NEW t \in Tasks, recoverSettle(t) PROVE Calm(t)
  BY <1>29, <1>p DEF Calm, recoverSettle, Goto, Done, Return, Fault, Note, Disk, Use, Env,
     Quiet, MovePath
<1>30. ASSUME NEW t \in Tasks, recoverGivesUp(t) PROVE Calm(t)
  BY <1>30, <1>p DEF Calm, recoverGivesUp, Goto, Done, Return, Fault, Note, Disk, Use,
     Env, Quiet, MovePath
<1>31. ASSUME NEW t \in Tasks, openRead(t) PROVE Calm(t)
  BY <1>31, <1>p DEF Calm, openRead, Goto, Done, Return, Fault, Note, Disk, Use, Env,
     Quiet, MovePath
<1>32. ASSUME NEW t \in Tasks, closeHandle(t) PROVE Calm(t)
  BY <1>32, <1>p DEF Calm, closeHandle, Goto, Done, Return, Fault, Note, Disk, Use, Env,
     Quiet, MovePath
<1>33. ASSUME NEW t \in Tasks, markWorkspaceRemoved(t) PROVE Calm(t)
  BY <1>33, <1>p DEF Calm, markWorkspaceRemoved, Goto, Done, Return, Fault, Note, Disk,
     Use, Env, Quiet, MovePath
<1>34. ASSUME NEW t \in Tasks, purgeStart(t) PROVE Calm(t)
  BY <1>34, <1>p DEF Calm, purgeStart, Goto, Done, Return, Fault, Note, Disk, Use, Env,
     Quiet, MovePath
<1>35. ASSUME NEW t \in Tasks, NEW path \in Paths, relocateStart(t, path) PROVE Calm(t)
  BY <1>35, <1>p DEF Calm, relocateStart, Goto, Done, Return, Fault, Note, Disk, Use, Env,
     Quiet, MovePath
<1>36. ASSUME NEW t \in Tasks, openLease(t) \/ closeLease(t) \/ openUndo(t) PROVE QuietInv'
  <2>1. lock[Catalog] = NoTask
    BY <1>36 DEF openLease, closeLease, openUndo
  <2>2. pc'[t] \notin Quiet /\ \A u \in Tasks \ {t} : pc'[u] = pc[u]
    BY <1>36, <1>0 DEF openLease, closeLease, openUndo, Done, Goto, ControlType, Quiet, MovePath
  <2> QED
    BY <2>1, <2>2, <1>c DEF QuietInv
<1>37. ASSUME NEW t \in Tasks, purgeCheck(t) \/ relocateBegin(t) PROVE QuietInv'
  <2>0. ~Leased
    BY <1>37 DEF purgeCheck, MayPurge, relocateBegin, MayMove
  <2>t. \A p \in Processes : leases[p] \in Nat
    BY <1>0 DEF DataType
  <2>1. \A p \in Processes : leases[p] = 0
    BY <2>0, <2>t DEF Leased
  <2>2. leases' = leases
    BY <1>37 DEF purgeCheck, relocateBegin, Use
  <2> QED
    BY <2>1, <2>2 DEF QuietInv
<1>38. ASSUME NEW t \in Tasks, purgeForget(t) PROVE QuietInv'
  BY <1>38 DEF QuietInv, purgeForget
<1>39. ASSUME NEW q \in Processes, crash(q) PROVE QuietInv'
  <2>1. \A t \in Tasks : pc'[t] \in Quiet => pc[t] \in Quiet
    BY <1>39, <1>0 DEF crash, ControlType, Quiet, MovePath
  <2>2. \A p \in Processes : leases[p] = 0 => leases'[p] = 0
    BY <1>39, <1>0 DEF crash, ControlType, DataType
  <2> QED
    BY <2>1, <2>2, <1>39 DEF QuietInv, crash
<1>40. CASE UNCHANGED vars
  BY <1>40 DEF QuietInv, vars
<1>41. ASSUME NEW t \in Tasks, Calm(t) PROVE QuietInv'
  BY <1>41 DEF QuietInv, Calm
<1>42. ASSUME NEW t \in Tasks, viewRead(t) PROVE Calm(t)
  BY <1>42, <1>p DEF Calm, viewRead, Goto, Use, Env, Quiet, MovePath
<1>43. ASSUME NEW t \in Tasks, viewOpen(t) PROVE Calm(t)
  BY <1>43, <1>p DEF Calm, viewOpen, Goto, Done, Env, Quiet, MovePath
<1>44. ASSUME NEW t \in Tasks, viewFails(t) PROVE Calm(t)
  BY <1>44, <1>p DEF Calm, viewFails, Goto, Done, Return, Use, Env, Quiet, MovePath
<1>45. ASSUME NEW t \in Tasks, viewCount(t) PROVE Calm(t)
  BY <1>45, <1>p DEF Calm, viewCount, Goto, Note, Use, Quiet, MovePath
<1>46. ASSUME NEW t \in Tasks, closeView(t) PROVE Calm(t)
  BY <1>46, <1>p DEF Calm, closeView, Goto, Env, Quiet, MovePath
<1>47. ASSUME NEW t \in Tasks, recoverClear(t) PROVE Calm(t)
  BY <1>47, <1>p DEF Calm, recoverClear, Goto, Done, Use, Quiet, MovePath
<1>48. ASSUME NEW t \in Tasks, recoverFails(t) PROVE Calm(t)
  BY <1>48, <1>p DEF Calm, recoverFails, Goto, Done, Fault, Use, Quiet, MovePath
<1> QED
  BY <1>1, <1>2, <1>3, <1>4, <1>5, <1>6, <1>7, <1>8, <1>9, <1>10, <1>11, <1>12, <1>13,
     <1>14, <1>15, <1>16, <1>17, <1>18, <1>19, <1>20, <1>21, <1>22, <1>23, <1>24, <1>25,
     <1>26, <1>27, <1>28, <1>29, <1>30, <1>31, <1>32, <1>33, <1>34, <1>35, <1>36, <1>37,
     <1>38, <1>39, <1>40, <1>41, <1>42, <1>43, <1>44, <1>45, <1>46, <1>47, <1>48
     DEF Next, Step, Call, Open, Close, View, Purge, Move, Recover

-----------------------------------------------------------------------------
(* An open database stays.                                                 *)

\* A step that changes no file, has no handle when it is over, or not a new
\* one, and puts no path at risk.
SameFile(t) ==
    /\ \A u \in Tasks \ {t} : /\ pc'[u] = pc[u] /\ handle'[u] = handle[u]
                             /\ from'[u] = from[u] /\ to'[u] = to[u]
    /\ pc'[t] \notin {"openLease", "using", "viewing"}
    /\ AtRisk(t)' \subseteq AtRisk(t)
    /\ file' = file
    /\ incidents \subseteq incidents'

\* The steps that are not so.
FileChange(t) == \/ openDatabase(t) \/ openDatabaseFails(t) \/ openLease(t) \/ viewCount(t)
                 \/ purgeCheck(t) \/ purgeDelete(t)
                 \/ relocateBegin(t) \/ relocateRename(t) \/ relocateBack(t)

\* Every step is of one of the two kinds, a crash, or nothing.
LEMMA FileSorted ==
    ASSUME TypeInv, [Next]_vars
    PROVE  \/ \E t \in Tasks : SameFile(t) \/ FileChange(t)
           \/ \E p \in Processes : crash(p)
           \/ UNCHANGED vars
<1>p. /\ pc \in [Tasks -> Labels] /\ from \in [Tasks -> Paths] /\ to \in [Tasks -> Paths]
      /\ handle \in [Tasks -> Paths \cup {NoPath}]
  BY DEF TypeInv, ControlType, DataType
<1>1. ASSUME NEW t \in Tasks, openLock(t) PROVE SameFile(t)
  BY <1>1, <1>p DEF SameFile, AtRisk, openLock, Goto, Done, Return, Fault, Note, Disk,
     Use, Env
<1>2. ASSUME NEW t \in Tasks, openBusy(t) PROVE SameFile(t)
  BY <1>2, <1>p DEF SameFile, AtRisk, openBusy, Goto, Done, Return, Fault, Note, Disk,
     Use, Env
<1>3. ASSUME NEW t \in Tasks, openRefused(t) PROVE SameFile(t)
  BY <1>3, <1>p DEF SameFile, AtRisk, openRefused, Goto, Done, Return, Fault, Note, Disk,
     Use, Env
<1>4. ASSUME NEW t \in Tasks, openUndo(t) PROVE SameFile(t)
  BY <1>4, <1>p DEF SameFile, AtRisk, openUndo, Goto, Done, Return, Fault, Note, Disk,
     Use, Env
<1>5. ASSUME NEW t \in Tasks, openUndoBusy(t) PROVE SameFile(t)
  BY <1>5, <1>p DEF SameFile, AtRisk, openUndoBusy, Goto, Done, Return, Fault, Note, Disk,
     Use, Env
<1>6. ASSUME NEW t \in Tasks, closeLease(t) PROVE SameFile(t)
  BY <1>6, <1>p DEF SameFile, AtRisk, closeLease, Goto, Done, Return, Fault, Note, Disk,
     Use, Env
<1>7. ASSUME NEW t \in Tasks, closeLeaseBusy(t) PROVE SameFile(t)
  BY <1>7, <1>p DEF SameFile, AtRisk, closeLeaseBusy, Goto, Done, Return, Fault, Note, Disk,
     Use, Env
<1>8. ASSUME NEW t \in Tasks, purgeLock(t) PROVE SameFile(t)
  BY <1>8, <1>p DEF SameFile, AtRisk, purgeLock, Goto, Done, Return, Fault, Note, Disk,
     Use, Env
<1>9. ASSUME NEW t \in Tasks, purgeBusy(t) PROVE SameFile(t)
  BY <1>9, <1>p DEF SameFile, AtRisk, purgeBusy, Goto, Done, Return, Fault, Note, Disk,
     Use, Env
<1>10. ASSUME NEW t \in Tasks, purgeRefused(t) PROVE SameFile(t)
  BY <1>10, <1>p DEF SameFile, AtRisk, purgeRefused, Goto, Done, Return, Fault, Note, Disk,
     Use, Env
<1>11. ASSUME NEW t \in Tasks, purgeForget(t) PROVE SameFile(t)
  BY <1>11, <1>p DEF SameFile, AtRisk, purgeForget, Goto, Done, Return, Fault, Note, Disk,
     Use, Env
<1>12. ASSUME NEW t \in Tasks, purgeFails(t) PROVE SameFile(t)
  BY <1>12, <1>p DEF SameFile, AtRisk, purgeFails, Goto, Done, Return, Fault, Note, Disk,
     Use, Env
<1>13. ASSUME NEW t \in Tasks, relocateLock(t) PROVE SameFile(t)
  BY <1>13, <1>p DEF SameFile, AtRisk, relocateLock, takeMarkers, Goto, Done, Return, Fault, Note, Disk,
     Use, Env
<1>14. ASSUME NEW t \in Tasks, relocateBusy(t) PROVE SameFile(t)
  BY <1>14, <1>p DEF SameFile, AtRisk, relocateBusy, Goto, Done, Return, Fault, Note, Disk,
     Use, Env
<1>15. ASSUME NEW t \in Tasks, relocateRefused(t) PROVE SameFile(t)
  BY <1>15, <1>p DEF SameFile, AtRisk, relocateRefused, Goto, Done, Return, Fault, Note, Disk,
     Use, Env
<1>16. ASSUME NEW t \in Tasks, relocateJournal(t) PROVE SameFile(t)
  BY <1>16, <1>p DEF SameFile, AtRisk, relocateJournal, Goto, Done, Return, Fault, Note, Disk,
     Use, Env
<1>17. ASSUME NEW t \in Tasks, relocateRenameFails(t) PROVE SameFile(t)
  BY <1>17, <1>p DEF SameFile, AtRisk, relocateRenameFails, Goto, Done, Return, Fault, Note, Disk,
     Use, Env
<1>18. ASSUME NEW t \in Tasks, relocateUpdate(t) PROVE SameFile(t)
  BY <1>18, <1>p DEF SameFile, AtRisk, relocateUpdate, Goto, Done, Return, Fault, Note, Disk,
     Use, Env
<1>19. ASSUME NEW t \in Tasks, relocateClear(t) PROVE SameFile(t)
  BY <1>19, <1>p DEF SameFile, AtRisk, relocateClear, Goto, Done, Return, Fault, Note, Disk,
     Use, Env
<1>20. ASSUME NEW t \in Tasks, relocateFails(t) PROVE SameFile(t)
  BY <1>20, <1>p DEF SameFile, AtRisk, relocateFails, Goto, Done, Return, Fault, Note, Disk,
     Use, Env
<1>21. ASSUME NEW t \in Tasks, relocateUndone(t) PROVE SameFile(t)
  BY <1>21, <1>p DEF SameFile, AtRisk, relocateUndone, Goto, Done, Return, Fault, Note, Disk,
     Use, Env
<1>22. ASSUME NEW t \in Tasks, relocateUndoFails(t) PROVE SameFile(t)
  BY <1>22, <1>p DEF SameFile, AtRisk, relocateUndoFails, Goto, Done, Return, Fault, Note, Disk,
     Use, Env
<1>23. ASSUME NEW t \in Tasks, relocateEnd(t) PROVE SameFile(t)
  BY <1>23, <1>p DEF SameFile, AtRisk, relocateEnd, Goto, Done, Return, Fault, Note, Disk,
     Use, Env
<1>24. ASSUME NEW t \in Tasks, recoverStart(t) PROVE SameFile(t)
  BY <1>24, <1>p DEF SameFile, AtRisk, recoverStart, Goto, Done, Return, Fault, Note, Disk,
     Use, Env
<1>25. ASSUME NEW t \in Tasks, recoverLock(t) PROVE SameFile(t)
  BY <1>25, <1>p DEF SameFile, AtRisk, recoverLock, takeMarkers, Goto, Done, Return, Fault, Note, Disk,
     Use, Env
<1>26. ASSUME NEW t \in Tasks, recoverBusy(t) PROVE SameFile(t)
  BY <1>26, <1>p DEF SameFile, AtRisk, recoverBusy, Fail, Goto, Done, Return, Fault, Note, Disk,
     Use, Env
<1>27. ASSUME NEW t \in Tasks, recoverSettle(t) PROVE SameFile(t)
  BY <1>27, <1>p DEF SameFile, AtRisk, recoverSettle, Goto, Done, Return, Fault, Note, Disk,
     Use, Env
<1>28. ASSUME NEW t \in Tasks, recoverGivesUp(t) PROVE SameFile(t)
  BY <1>28, <1>p DEF SameFile, AtRisk, recoverGivesUp, Goto, Done, Return, Fault, Note, Disk,
     Use, Env
<1>29. ASSUME NEW t \in Tasks, openRead(t) PROVE SameFile(t)
  BY <1>29, <1>p DEF SameFile, AtRisk, openRead, Goto, Done, Return, Fault, Note, Disk,
     Use, Env
<1>30. ASSUME NEW t \in Tasks, closeHandle(t) PROVE SameFile(t)
  BY <1>30, <1>p DEF SameFile, AtRisk, closeHandle, Goto, Done, Return, Fault, Note, Disk,
     Use, Env
<1>31. ASSUME NEW t \in Tasks, markWorkspaceRemoved(t) PROVE SameFile(t)
  BY <1>31, <1>p DEF SameFile, AtRisk, markWorkspaceRemoved, Goto, Done, Return, Fault, Note, Disk,
     Use, Env
<1>32. ASSUME NEW t \in Tasks, purgeStart(t) PROVE SameFile(t)
  BY <1>32, <1>p DEF SameFile, AtRisk, purgeStart, Goto, Done, Return, Fault, Note, Disk,
     Use, Env
<1>33. ASSUME NEW t \in Tasks, NEW path \in Paths, relocateStart(t, path) PROVE SameFile(t)
  BY <1>33, <1>p DEF SameFile, AtRisk, relocateStart, Goto, Done, Return, Fault, Note, Disk,
     Use, Env
<1>34. ASSUME NEW t \in Tasks, viewRead(t) PROVE SameFile(t)
  BY <1>34, <1>p DEF SameFile, AtRisk, viewRead, Goto, Done, Return, Fault, Note, Disk,
     Use, Env
<1>35. ASSUME NEW t \in Tasks, viewOpen(t) PROVE SameFile(t)
  BY <1>35, <1>p DEF SameFile, AtRisk, viewOpen, Goto, Done, Return, Fault, Note, Disk,
     Use, Env
<1>36. ASSUME NEW t \in Tasks, viewFails(t) PROVE SameFile(t)
  BY <1>36, <1>p DEF SameFile, AtRisk, viewFails, Goto, Done, Return, Fault, Note, Disk,
     Use, Env
<1>37. ASSUME NEW t \in Tasks, closeView(t) PROVE SameFile(t)
  BY <1>37, <1>p DEF SameFile, AtRisk, closeView, Goto, Done, Return, Fault, Note, Disk,
     Use, Env
<1>38. ASSUME NEW t \in Tasks, recoverClear(t) PROVE SameFile(t)
  BY <1>38, <1>p DEF SameFile, AtRisk, recoverClear, Goto, Done, Return, Fault, Note, Disk,
     Use, Env
<1>39. ASSUME NEW t \in Tasks, recoverFails(t) PROVE SameFile(t)
  BY <1>39, <1>p DEF SameFile, AtRisk, recoverFails, Goto, Done, Return, Fault, Note, Disk,
     Use, Env
<1> QED
  BY <1>1, <1>2, <1>3, <1>4, <1>5, <1>6, <1>7, <1>8, <1>9, <1>10, <1>11, <1>12, <1>13,
     <1>14, <1>15, <1>16, <1>17, <1>18, <1>19, <1>20, <1>21, <1>22, <1>23, <1>24,
     <1>25, <1>26, <1>27, <1>28, <1>29, <1>30, <1>31, <1>32, <1>33, <1>34, <1>35,
     <1>36, <1>37, <1>38, <1>39
     DEF Next, Step, Call, Open, Close, View, Purge, Move, Recover, FileChange

LEMMA SameFileStep ==
    ASSUME OpenInv, OpenDatabaseStays, NEW t \in Tasks, SameFile(t)
    PROVE  OpenInv' /\ OpenDatabaseStays'
<1>1. OpenInv'
  BY DEF OpenInv, SameFile
<1>2. OpenDatabaseStays'
  BY DEF OpenDatabaseStays, SameFile
<1> QED
  BY <1>1, <1>2

\* Past the checks nobody has a leased handle.
LEMMA QuietNoHandle ==
    ASSUME TypeInv, LeaseInv, QuietInv, NEW t \in Tasks, pc[t] \in Quiet,
           "undercounted" \notin incidents
    PROVE  \A u \in Tasks : pc[u] # "using"
<1> SUFFICES ASSUME NEW u \in Tasks, pc[u] = "using" PROVE FALSE
  OBVIOUS
<1>1. u \in Counted(Home[u]) /\ Home[u] \in Processes
  BY DEF Counted
<1>2. Cardinality(Counted(Home[u])) \in Nat /\ Cardinality(Counted(Home[u])) # 0
  BY <1>1, CountedFinite, FS_CardinalityType, FS_EmptySet
<1>3. leases[Home[u]] = 0
  BY <1>1 DEF QuietInv
<1> QED
  BY <1>1, <1>2, <1>3 DEF LeaseInv

\* The file of a path whose marker the task holds goes: no open is waiting
\* for its lease there, and no handle is leased anywhere.
LEMMA TakenAway ==
    ASSUME TypeInv, LockInv, LeaseInv, QuietInv, OpenInv,
           NEW t \in Tasks, pc[t] \in Quiet, pc'[t] \notin {"openLease", "using"},
           \A u \in Tasks \ {t} : pc'[u] = pc[u] /\ from'[u] = from[u],
           \A p \in Paths : lock[p] # t => file'[p] = file[p],
           incidents \subseteq incidents'
    PROVE  OpenInv' /\ OpenDatabaseStays'
<1>1. OpenInv'
  <2> SUFFICES ASSUME NEW u \in Tasks \ {t}, pc[u] = "openLease" PROVE file'[from[u]] # "none"
    BY DEF OpenInv
  <2>1. lock[from[u]] = u /\ from[u] \in Paths
    BY DEF LockInv, LockOf, FromHeld, TypeInv, ControlType
  <2> QED
    BY <2>1 DEF OpenInv
<1>2. OpenDatabaseStays'
  BY QuietNoHandle DEF OpenDatabaseStays
<1> QED
  BY <1>1, <1>2

\* An open that creates a database, or fails having created one, takes none away.
LEMMA OpensAdd ==
    ASSUME TypeInv, NEW t \in Tasks, openDatabase(t) \/ openDatabaseFails(t)
    PROVE  /\ \A p \in Paths : file[p] # "none" => file'[p] # "none"
           /\ openDatabase(t) => file'[from[t]] # "none"
           /\ from' = from /\ to' = to /\ handle' = handle /\ incidents \subseteq incidents'
           /\ pc'[t] \in {"openLease", "openUndo"} /\ pc[t] = "openDatabase"
           /\ openDatabaseFails(t) => pc'[t] = "openUndo"
           /\ \A u \in Tasks \ {t} : pc'[u] = pc[u]
<1>0. file \in [Paths -> {"none", "data", "fresh"}] /\ from[t] \in Paths /\ pc \in [Tasks -> Labels]
  BY DEF TypeInv, DataType, ControlType
<1>1. CASE openDatabase(t)
  BY <1>0, <1>1 DEF openDatabase, openDatabaseFails, Goto, Note, Use
<1>2. CASE openDatabaseFails(t)
  <2>1. \A p \in Paths : file[p] # "none" => file'[p] # "none"
    BY <1>0, <1>2 DEF openDatabaseFails
  <2>2. pc' = [pc EXCEPT ![t] = "openUndo"] /\ incidents \subseteq incidents'
        /\ from' = from /\ to' = to /\ handle' = handle /\ pc[t] = "openDatabase"
    BY <1>2 DEF openDatabaseFails, Goto, Note, Use
  <2>3. ~openDatabase(t)
    BY <1>0, <2>2 DEF openDatabase, Goto
  <2> QED
    BY <1>0, <2>1, <2>2, <2>3
<1> QED
  BY <1>1, <1>2

LEMMA StaysStep ==
    TypeInv /\ LockInv /\ LeaseInv /\ QuietInv /\ HandleInv /\ OpenInv /\ OpenDatabaseStays
      /\ [Next]_vars => OpenInv' /\ OpenDatabaseStays'
<1> SUFFICES ASSUME TypeInv, LockInv, LeaseInv, QuietInv, HandleInv, OpenInv, OpenDatabaseStays,
                    [Next]_vars
             PROVE  OpenInv' /\ OpenDatabaseStays'
  OBVIOUS
<1>0. TypeInv /\ DataType /\ ControlType
  BY DEF TypeInv
<1>h. \A u \in Tasks : pc[u] = "using" => handle[u] \in Paths
  BY <1>0 DEF HandleInv, Opened, DataType
<1>1. ASSUME NEW t \in Tasks, SameFile(t) PROVE OpenInv' /\ OpenDatabaseStays'
  BY <1>1, SameFileStep
<1>2. ASSUME NEW t \in Tasks, openLease(t) PROVE OpenInv' /\ OpenDatabaseStays'
  <2>1. file[from[t]] # "none" /\ file' = file /\ incidents' = incidents
    BY <1>2 DEF openLease, OpenInv, Disk, Env
  <2>2. /\ pc'[t] # "openLease" /\ handle'[t] = from[t]
        /\ \A u \in Tasks \ {t} : pc'[u] = pc[u] /\ from'[u] = from[u] /\ handle'[u] = handle[u]
    BY <1>2, <1>0 DEF openLease, Done, Goto, ControlType, DataType
  <2> QED
    BY <2>1, <2>2 DEF OpenInv, OpenDatabaseStays
<1>3. ASSUME NEW t \in Tasks, openDatabase(t) \/ openDatabaseFails(t)
      PROVE  OpenInv' /\ OpenDatabaseStays'
  <2>1. /\ \A p \in Paths : file[p] # "none" => file'[p] # "none"
        /\ openDatabase(t) => file'[from[t]] # "none"
        /\ from' = from /\ handle' = handle /\ incidents \subseteq incidents'
        /\ pc'[t] \in {"openLease", "openUndo"}
        /\ openDatabaseFails(t) => pc'[t] = "openUndo"
        /\ \A u \in Tasks \ {t} : pc'[u] = pc[u]
    BY <1>3, OpensAdd
  <2>2. OpenInv'
    BY <1>3, <2>1, <1>0 DEF OpenInv, ControlType
  <2>3. OpenDatabaseStays'
    BY <2>1, <1>h DEF OpenDatabaseStays
  <2> QED
    BY <2>2, <2>3
<1>4. ASSUME NEW t \in Tasks, viewCount(t) \/ purgeCheck(t) \/ relocateBegin(t)
      PROVE  OpenInv' /\ OpenDatabaseStays'
  <2>1. /\ file' = file /\ handle' = handle /\ from' = from /\ incidents \subseteq incidents'
        /\ pc'[t] \notin {"openLease", "using"} /\ \A u \in Tasks \ {t} : pc'[u] = pc[u]
    BY <1>4, <1>0 DEF viewCount, purgeCheck, relocateBegin, Goto, Note, Disk, Use, Env, ControlType
  <2> QED
    BY <2>1 DEF OpenInv, OpenDatabaseStays
<1>5. ASSUME NEW t \in Tasks, purgeDelete(t) PROVE OpenInv' /\ OpenDatabaseStays'
  <2>1. pc[t] \in Quiet /\ lock[from[t]] = t
    BY <1>5 DEF purgeDelete, Quiet, LockInv, LockOf, FromHeld, ToHeld, MovePath
  <2>2. \A p \in Paths : lock[p] # t => file'[p] = file[p]
    BY <1>5, <1>0, <2>1 DEF purgeDelete, ControlType, DataType
  <2>3. /\ pc'[t] \notin {"openLease", "using"} /\ incidents \subseteq incidents'
        /\ \A u \in Tasks \ {t} : pc'[u] = pc[u] /\ from'[u] = from[u]
    BY <1>5, <1>0 DEF purgeDelete, ControlType, DataType, Goto, Note, Use
  <2> QED
    BY <1>0, <2>1, <2>2, <2>3, TakenAway
<1>6. ASSUME NEW t \in Tasks, relocateRename(t) PROVE OpenInv' /\ OpenDatabaseStays'
  <2>1. pc[t] \in Quiet /\ lock[from[t]] = t /\ lock[to[t]] = t
    BY <1>6 DEF relocateRename, Quiet, LockInv, LockOf, FromHeld, ToHeld, MovePath
  <2>2. \A p \in Paths : lock[p] # t => file'[p] = file[p]
    BY <1>6, <1>0, <2>1 DEF relocateRename, ControlType, DataType, Renamed
  <2>3. /\ pc'[t] \notin {"openLease", "using"} /\ incidents \subseteq incidents'
        /\ \A u \in Tasks \ {t} : pc'[u] = pc[u] /\ from'[u] = from[u]
    BY <1>6, <1>0 DEF relocateRename, ControlType, DataType, Goto, Note, Use
  <2> QED
    BY <1>0, <2>1, <2>2, <2>3, TakenAway
<1>7. ASSUME NEW t \in Tasks, relocateBack(t) PROVE OpenInv' /\ OpenDatabaseStays'
  <2>1. pc[t] \in Quiet /\ lock[from[t]] = t /\ lock[to[t]] = t
    BY <1>7 DEF relocateBack, Quiet, LockInv, LockOf, FromHeld, ToHeld, MovePath
  <2>2. \A p \in Paths : lock[p] # t => file'[p] = file[p]
    BY <1>7, <1>0, <2>1 DEF relocateBack, ControlType, DataType, Renamed
  <2>3. /\ pc'[t] \notin {"openLease", "using"} /\ incidents \subseteq incidents'
        /\ \A u \in Tasks \ {t} : pc'[u] = pc[u] /\ from'[u] = from[u]
    BY <1>7, <1>0 DEF relocateBack, ControlType, DataType, Goto, Note, Use
  <2> QED
    BY <1>0, <2>1, <2>2, <2>3, TakenAway
<1>8. ASSUME NEW q \in Processes, crash(q) PROVE OpenInv' /\ OpenDatabaseStays'
  <2>1. /\ file' = file /\ incidents' = incidents
        /\ \A u \in Tasks : pc'[u] = "using" => pc[u] = "using" /\ handle'[u] = handle[u]
    BY <1>8 DEF crash
  <2>2. \A u \in Tasks : pc'[u] = "openLease" => pc[u] = "openLease" /\ from'[u] = from[u]
    BY <1>8 DEF crash
  <2> QED
    BY <2>1, <2>2 DEF OpenInv, OpenDatabaseStays
<1>9. CASE UNCHANGED vars
  BY <1>9 DEF OpenInv, OpenDatabaseStays, vars
<1> QED
  BY <1>1, <1>2, <1>3, <1>4, <1>5, <1>6, <1>7, <1>8, <1>9, FileSorted DEF FileChange

LEMMA UseInit == Init => LeaseInv /\ QuietInv /\ HandleInv /\ OpenInv /\ OpenDatabaseStays
<1> SUFFICES ASSUME Init PROVE LeaseInv /\ QuietInv /\ HandleInv /\ OpenInv /\ OpenDatabaseStays
  OBVIOUS
<1>1. \A p \in Processes : Counted(p) = {} /\ leases[p] = 0
  BY DEF Init, Counted
<1>2. LeaseInv
  BY <1>1, FS_EmptySet DEF LeaseInv
<1> QED
  BY <1>2 DEF Init, QuietInv, HandleInv, Opened, OpenInv, OpenDatabaseStays

\* No purge deletes and no relocation moves a database some process has open,
\* whatever the number of tasks and processes, unless a failed open gave back
\* another handle's lease (purgeWorkspace, relocateWorkspace, openWorkspace).
THEOREM OpenDatabasesStay == Spec => []OpenDatabaseStays
<1>1. Init => IInv
  BY TypeInit, LockInit, UseInit DEF IInv
<1>2. IInv /\ [Next]_vars => IInv'
  BY TypeStep, LockStep, LeaseStep, QuietStep, StaysStep DEF IInv
<1>3. IInv => OpenDatabaseStays
  BY DEF IInv
<1> QED
  BY <1>1, <1>2, <1>3, PTL DEF Spec

\* Every variable keeps its type, and the lease row of a process, which keeps
\* the workspace from being purged or moved, never counts more than one handle
\* per call and one per release that timed out (acquireWorkspaceLease,
\* releaseWorkspaceLease).
THEOREM CatalogTypes == Spec => []TypeOK
<1>1. Init => TypeInv /\ BudgetInv
  BY TypeInit, BudgetInit
<1>2. TypeInv /\ BudgetInv /\ [Next]_vars => (TypeInv /\ BudgetInv)'
  BY TypeStep, BudgetStep
<1>3. TypeInv /\ BudgetInv => TypeOK
  <2> SUFFICES ASSUME TypeInv, BudgetInv PROVE TypeOK
    OBVIOUS
  <2>1. ASSUME NEW p \in Processes PROVE leases[p] \in 0 .. (Cardinality(Tasks) + MaxFaults)
    <3>1. Cardinality(Counted(p)) \in Nat /\ Cardinality(Counted(p)) <= Cardinality(Tasks)
      <4>1. Counted(p) \subseteq Tasks
        BY DEF Counted
      <4> QED
        BY <4>1, FS_Subset, FS_CardinalityType
    <3>2. Cardinality(Tasks) \in Nat
      BY FS_CardinalityType
    <3>3. leases[p] \in Nat /\ leases[p] <= Cardinality(Counted(p)) + faults
      BY DEF TypeInv, DataType, BudgetInv
    <3>4. faults \in Nat /\ faults <= MaxFaults
      BY DEF BudgetInv
    <3> QED
      BY <3>1, <3>2, <3>3, <3>4
  <2>2. leases \in [Processes -> 0 .. (Cardinality(Tasks) + MaxFaults)]
    BY <2>1 DEF TypeInv, DataType
  <2> QED
    BY <2>2 DEF TypeOK, TypeInv, DataType, ControlType, BudgetInv
<1> QED
  BY <1>1, <1>2, <1>3, PTL DEF Spec

\* Calls never all wait for each other (openWorkspace holds a marker and waits
\* for the catalog, purgeWorkspace and relocateWorkspace hold the catalog and
\* wait for the marker): whoever holds the catalog has a next step, because
\* the wait for a marker ends, and when nobody holds it every call has one.
THEOREM SomeCallAlwaysAdvances == Spec => []SomeCallAdvances
<1>1. TypeInv /\ LockInv => SomeCallAdvances
  <2> SUFFICES ASSUME TypeInv, LockInv, NEW t \in Tasks,
                      pc[t] \notin {"idle", "using", "viewing"}
               PROVE  \E u \in Tasks : Ready(u)
    BY DEF SomeCallAdvances
  <2>0. \A u \in Tasks : LockOf(u) /\ from[u] \in Paths /\ from[u] \in Locks /\ pc[u] \in Labels
    BY DEF LockInv, TypeInv, ControlType, Locks
  <2>1. CASE lock[Catalog] = NoTask
    <3>1. pc[t] \notin CatalogHeld
      BY <2>0, <2>1 DEF LockOf
    <3>2. pc[t] \in {"openLock", "openDatabase", "openLease", "openUndo", "closeLease",
                    "viewOpen", "viewCount"}
      BY <2>0, <3>1 DEF Labels, CatalogHeld, PurgeLabels, MovePath
    <3>3. pc[t] = "openLock" => MayTake(t, from[t])
      BY <2>0 DEF LockOf, NothingHeld, MayTake, MarkerBusy
    <3> QED
      BY <2>1, <3>2, <3>3 DEF Ready
  <2>2. CASE lock[Catalog] # NoTask
    <3>1. PICK u \in Tasks : lock[Catalog] = u
      BY <2>2 DEF TypeInv, ControlType, Locks
    <3>2. pc[u] \in CatalogHeld
      BY <2>0, <3>1 DEF LockOf
    <3>3. CASE pc[u] = "purgeLock"
      BY <2>0, <3>3 DEF LockOf, MayTake, MarkerBusy, Ready
    <3>4. CASE pc[u] \in Waiting
      <4>1. Wanted(u) # {}
        BY <2>0, <3>4 DEF LockOf
      <4>2. NextWanted(u) \in Wanted(u)
        BY <4>1, NextIsWanted
      <4>3. MayTake(u, NextWanted(u))
        BY <4>2 DEF Wanted, MayTake, MarkerBusy
      <4> QED
        BY <3>4, <4>3 DEF Waiting, Ready
    <3>5. CASE pc[u] \notin Waiting \cup {"purgeLock"}
      BY <3>2, <3>5 DEF CatalogHeld, PurgeLabels, MovePath, Waiting, Ready
    <3> QED
      BY <3>3, <3>4, <3>5
  <2> QED
    BY <2>1, <2>2
<1> QED
  BY <1>1, TypeInit, LockInit, TypeStep, LockStep, PTL DEF Spec

=============================================================================
