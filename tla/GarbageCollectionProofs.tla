----------------------- MODULE GarbageCollectionProofs -----------------------
(***************************************************************************)
(* Proofs about GarbageCollection, for any number of objects, executions,  *)
(* epochs, faults and crashes and any batch size.  The inductive invariant *)
(* comes in parts: each one needs only the typing and itself, so that each *)
(* has its own step lemma and its own theorem.                             *)
(***************************************************************************)
EXTENDS GarbageCollection, TLAPS

\* Typing, with what the steps that use an object rely on.
TypeInv ==
    /\ TypeOK
    /\ \A x \in Executions : appendPc[x] # "idle" => appending[x] \in Objects
    /\ \A e \in Epochs : pc[e] \in {"fresh", "unlink", "deleted"} => object[e] \in Objects

\* The rows and variables no step of the collector or of a writer touches.
USE DEF rows, collector, writers, history

LEMMA TypeInit == Init => TypeInv
<1> SUFFICES ASSUME Init
             PROVE  TypeInv
  OBVIOUS
<1>1. [o \in Objects |-> "none"] \in [Objects -> {"none", "pending", "deleted", "retained"}]
  OBVIOUS
<1>2. candidate \in [Epochs -> [Objects -> {"none", "pending", "deleted", "retained"}]]
  BY <1>1 DEF Init
<1>3. 0 \in 0..MaxFaults /\ 0 \in 0..MaxCrashes
  BY CollectAssumption
<1>4. TypeOK
  BY <1>2, <1>3 DEF Init, TypeOK, CollectPcs
<1> QED
  BY <1>4 DEF Init, TypeInv

LEMMA TypeCollect ==
  ASSUME TypeInv, NEW e \in Epochs, Collect(e)
  PROVE  TypeInv'
<1> USE CollectAssumption DEF TypeInv, TypeOK, CollectPcs, Goto
<1>1. ASSUME collect(e) PROVE TypeInv'
  BY <1>1 DEF collect
<1>2. ASSUME raiseBarrier(e) PROVE TypeInv'
  BY <1>2 DEF raiseBarrier
<1>3. ASSUME insertEpoch(e) PROVE TypeInv'
  BY <1>3 DEF insertEpoch
<1>4. ASSUME readRoots(e) PROVE TypeInv'
  <2>1. Reachable \in SUBSET Objects
    BY DEF Reachable
  <2> QED
    BY <1>4, <2>1 DEF readRoots
<1>5. ASSUME listCandidates(e) PROVE TypeInv'
  <2>1. [o \in Objects |-> IF o \in cas \ roots[e] THEN "pending" ELSE "none"]
          \in [Objects -> {"none", "pending", "deleted", "retained"}]
    OBVIOUS
  <2> QED
    BY <1>5, <2>1 DEF listCandidates
<1>6. ASSUME startSweep(e) PROVE TypeInv'
  BY <1>6 DEF startSweep
<1>7. ASSUME sweepBarrier(e) PROVE TypeInv'
  BY <1>7 DEF sweepBarrier
<1>8. ASSUME selectBatch(e) PROVE TypeInv'
  <2>1. Pending(e) \in SUBSET Objects
    BY DEF Pending
  <2>2. PICK b \in SUBSET Pending(e) : batch' = [batch EXCEPT ![e] = b]
    BY <1>8 DEF selectBatch
  <2> QED
    BY <1>8, <2>1, <2>2 DEF selectBatch
<1>9. ASSUME checkBackup(e) PROVE TypeInv'
  <2>1. CASE hasActiveBackupBarrier
    BY <1>9, <2>1 DEF checkBackup
  <2>2. CASE ~hasActiveBackupBarrier
    <3>1. PICK o \in batch[e] : /\ batch' = [batch EXCEPT ![e] = @ \ {o}]
                                /\ object' = [object EXCEPT ![e] = o]
      BY <1>9, <2>2 DEF checkBackup
    <3> QED
      BY <1>9, <2>2, <3>1 DEF checkBackup
  <2> QED
    BY <2>1, <2>2
<1>10. ASSUME freshRoots(e) PROVE TypeInv'
  <2>1. object[e] \in Objects
    BY <1>10 DEF freshRoots
  <2> QED
    BY <1>10, <2>1 DEF freshRoots
<1>11. ASSUME unlink(e) PROVE TypeInv'
  BY <1>11 DEF unlink
<1>12. ASSUME markDeleted(e) PROVE TypeInv'
  BY <1>12 DEF markDeleted
<1>13. ASSUME finishBatch(e) PROVE TypeInv'
  BY <1>13 DEF finishBatch
<1>14. ASSUME lowerBarrier(e) PROVE TypeInv'
  BY <1>14 DEF lowerBarrier
<1>15. ASSUME collectThrows(e) PROVE TypeInv'
  BY <1>15 DEF collectThrows
<1>16. ASSUME NEW failing \in BOOLEAN, markEpochFailed(e, failing) PROVE TypeInv'
  BY <1>16 DEF markEpochFailed, Cleanup
<1>17. ASSUME NEW failing \in BOOLEAN, releaseBarrier(e, failing) PROVE TypeInv'
  BY <1>17 DEF releaseBarrier, Cleanup
<1> QED
  BY <1>1, <1>2, <1>3, <1>4, <1>5, <1>6, <1>7, <1>8, <1>9, <1>10, <1>11, <1>12,
     <1>13, <1>14, <1>15, <1>16, <1>17 DEF Collect

LEMMA TypeStep == TypeInv /\ [Next]_vars => TypeInv'
<1> SUFFICES ASSUME TypeInv, [Next]_vars
             PROVE  TypeInv'
  OBVIOUS
<1>a. ASSUME NEW e \in Epochs, Collect(e) PROVE TypeInv'
  BY <1>a, TypeCollect
<1> USE CollectAssumption DEF TypeInv, TypeOK, CollectPcs
<1>1. ASSUME NEW x \in Executions, createExecutionCheck(x) PROVE TypeInv'
  BY <1>1 DEF createExecutionCheck
<1>2. ASSUME NEW x \in Executions, createExecutionInsert(x) PROVE TypeInv'
  BY <1>2 DEF createExecutionInsert
<1>2f. ASSUME NEW x \in Executions, createExecutionFails(x) PROVE TypeInv'
  BY <1>2f DEF createExecutionFails
<1>3. ASSUME NEW x \in Executions, expireExecutions(x) PROVE TypeInv'
  BY <1>3 DEF expireExecutions
<1>4. ASSUME NEW x \in Executions, NEW o \in Objects, appendCheck(x, o) PROVE TypeInv'
  BY <1>4 DEF appendCheck
<1>5. ASSUME NEW x \in Executions, appendPut(x) PROVE TypeInv'
  BY <1>5 DEF appendPut
<1>6. ASSUME NEW x \in Executions, appendInsert(x) PROVE TypeInv'
  BY <1>6 DEF appendInsert, Refer
<1>6f. ASSUME NEW x \in Executions, appendFails(x) PROVE TypeInv'
  BY <1>6f DEF appendFails
<1>7. ASSUME NEW o \in Objects, pinCheck(o) PROVE TypeInv'
  BY <1>7 DEF pinCheck
<1>8. ASSUME NEW o \in Objects, pinInsert(o) PROVE TypeInv'
  BY <1>8 DEF pinInsert, Refer
<1>8f. ASSUME NEW o \in Objects, pinFails(o) PROVE TypeInv'
  BY <1>8f DEF pinFails
<1>9. ASSUME backupCheck PROVE TypeInv'
  BY <1>9 DEF backupCheck
<1>9b. ASSUME backupBegin PROVE TypeInv'
  BY <1>9b DEF backupBegin
<1>9e. ASSUME backupEnd PROVE TypeInv'
  <2>1. abandoned' \in BOOLEAN
    BY <1>9e, Zenon DEF backupEnd
  <2>2. faults' \in 0..MaxFaults
    BY <1>9e DEF backupEnd
  <2> QED
    BY <1>9e, <2>1, <2>2 DEF backupEnd
<1>10. ASSUME crash PROVE TypeInv'
  <2>1. /\ execution' \in [Executions -> {"none", "checked", "ready", "expired"}]
        /\ pin' \in [Objects -> {"none", "checked", "pinned"}]
    BY <1>10 DEF crash
  <2>2. abandoned' \in BOOLEAN
    BY <1>10 DEF crash
  <2>3. crashes' \in 0..MaxCrashes
    BY <1>10 DEF crash
  <2> QED
    BY <1>10, <2>1, <2>2, <2>3 DEF crash
<1>11. ASSUME recoverGcBarriers PROVE TypeInv'
  BY <1>11 DEF recoverGcBarriers
<1>12. ASSUME recoverWorkspaceGcEpochs PROVE TypeInv'
  BY <1>12 DEF recoverWorkspaceGcEpochs
<1>13. ASSUME UNCHANGED vars PROVE TypeInv'
  BY <1>13 DEF vars
<1> QED
  BY <1>a, <1>1, <1>2, <1>2f, <1>3, <1>4, <1>5, <1>6, <1>6f, <1>7, <1>8, <1>8f, <1>9, <1>9b,
     <1>9e, <1>10, <1>11, <1>12, <1>13 DEF Next, Use

\* Type correctness: every step of collect, of the writers, of a backup and of
\* the recovery leaves the rows and the operations under way well formed.
THEOREM TypeCorrect == Spec => []TypeOK
<1>1. TypeInv => TypeOK
  BY DEF TypeInv
<1> QED
  BY <1>1, TypeInit, TypeStep, PTL DEF Spec

-----------------------------------------------------------------------------
(* What rows refer to is kept.                                              *)

\* An object decided on for deletion is not referred to, unless it has been
\* noted as exposed: the fact ReferencedKept rests on when the deletion comes.
KeptInv ==
    /\ ReferencedKept
    /\ \A e \in Epochs : pc[e] = "unlink" /\ object[e] \in Reachable => object[e] \in exposed

LEMMA KeptQuiet ==
  ASSUME KeptInv, cas \subseteq cas', exposed' = exposed, Reachable' \subseteq Reachable,
         \A e \in Epochs : pc'[e] = "unlink" => pc[e] = "unlink" /\ object'[e] = object[e]
  PROVE  KeptInv'
  BY DEF KeptInv, ReferencedKept

LEMMA KeptCollect ==
  ASSUME TypeInv, KeptInv, NEW e \in Epochs, Collect(e)
  PROVE  KeptInv'
<1> USE DEF TypeInv, TypeOK, Goto
<1>1. ASSUME collect(e) \/ raiseBarrier(e) \/ insertEpoch(e) \/ readRoots(e)
             \/ listCandidates(e) \/ startSweep(e) \/ sweepBarrier(e)
      PROVE  KeptInv'
  <2>1. cas \subseteq cas' /\ exposed' = exposed /\ Reachable' \subseteq Reachable
    BY <1>1 DEF collect, raiseBarrier, insertEpoch, readRoots, listCandidates, startSweep,
                sweepBarrier, Reachable
  <2>2. \A f \in Epochs : pc'[f] = "unlink" => pc[f] = "unlink" /\ object'[f] = object[f]
    BY <1>1 DEF collect, raiseBarrier, insertEpoch, readRoots, listCandidates, startSweep,
                sweepBarrier
  <2> QED
    BY <2>1, <2>2, KeptQuiet
<1>2. ASSUME selectBatch(e) \/ checkBackup(e) \/ markDeleted(e) \/ finishBatch(e)
             \/ lowerBarrier(e) \/ collectThrows(e)
      PROVE  KeptInv'
  <2>1. cas \subseteq cas' /\ exposed' = exposed /\ Reachable' \subseteq Reachable
    BY <1>2 DEF selectBatch, checkBackup, markDeleted, finishBatch, lowerBarrier,
                collectThrows, Reachable
  <2>2. \A f \in Epochs : pc'[f] = "unlink" => pc[f] = "unlink" /\ object'[f] = object[f]
    BY <1>2 DEF selectBatch, checkBackup, markDeleted, finishBatch, lowerBarrier,
                collectThrows
  <2> QED
    BY <2>1, <2>2, KeptQuiet
<1>3. ASSUME freshRoots(e)
      PROVE  KeptInv'
  <2>1. cas' = cas /\ exposed' = exposed /\ Reachable' = Reachable
    BY <1>3 DEF freshRoots, Reachable
  <2>2. \A f \in Epochs : pc'[f] = "unlink" =>
          \/ pc[f] = "unlink" /\ object'[f] = object[f]
          \/ object'[f] \notin Reachable
    BY <1>3 DEF freshRoots
  <2> QED
    BY <2>1, <2>2 DEF KeptInv, ReferencedKept
<1>4. ASSUME unlink(e)
      PROVE  KeptInv'
  <2>1. /\ cas' = cas \ {object[e]} /\ exposed' = exposed /\ Reachable' = Reachable
        /\ pc[e] = "unlink"
    BY <1>4 DEF unlink, Reachable
  <2>2. \A f \in Epochs : pc'[f] = "unlink" => pc[f] = "unlink" /\ object'[f] = object[f]
    BY <1>4 DEF unlink
  <2> QED
    BY <2>1, <2>2 DEF KeptInv, ReferencedKept
<1>5. ASSUME NEW failing \in BOOLEAN,
             markEpochFailed(e, failing) \/ releaseBarrier(e, failing)
      PROVE  KeptInv'
  <2>1. cas \subseteq cas' /\ exposed' = exposed /\ Reachable' \subseteq Reachable
    BY <1>5 DEF markEpochFailed, releaseBarrier, Reachable
  <2>2. \A f \in Epochs : pc'[f] = "unlink" => pc[f] = "unlink" /\ object'[f] = object[f]
    BY <1>5 DEF markEpochFailed, releaseBarrier
  <2> QED
    BY <2>1, <2>2, KeptQuiet
<1> QED
  BY <1>1, <1>2, <1>3, <1>4, <1>5 DEF Collect

LEMMA KeptStep == TypeInv /\ KeptInv /\ [Next]_vars => KeptInv'
<1> SUFFICES ASSUME TypeInv, KeptInv, [Next]_vars
             PROVE  KeptInv'
  OBVIOUS
<1>a. ASSUME NEW e \in Epochs, Collect(e) PROVE KeptInv'
  BY <1>a, KeptCollect
<1> USE DEF TypeInv, TypeOK
<1>1. ASSUME NEW x \in Executions,
             \/ createExecutionCheck(x) \/ createExecutionInsert(x)
             \/ createExecutionFails(x) \/ expireExecutions(x) \/ appendFails(x)
             \/ \E o \in Objects : appendCheck(x, o)
      PROVE  KeptInv'
  <2>1. cas \subseteq cas' /\ exposed' = exposed /\ Reachable' \subseteq Reachable
    BY <1>1 DEF createExecutionCheck, createExecutionInsert, createExecutionFails,
                expireExecutions, appendCheck, appendFails, Reachable
  <2>2. pc' = pc /\ object' = object
    BY <1>1 DEF createExecutionCheck, createExecutionInsert, createExecutionFails,
                expireExecutions, appendCheck, appendFails
  <2> QED
    BY <2>1, <2>2, KeptQuiet
<1>2. ASSUME NEW x \in Executions, appendPut(x)
      PROVE  KeptInv'
  <2>1. /\ cas' = cas \cup {appending[x]} /\ Reachable' = Reachable
        /\ pc' = pc /\ object' = object
    BY <1>2 DEF appendPut, Reachable
  <2>2. CASE \E e \in Epochs : pc[e] = "unlink" /\ object[e] = appending[x]
    BY <1>2, <2>1, <2>2 DEF appendPut, KeptInv, ReferencedKept
  <2>3. CASE ~ \E e \in Epochs : pc[e] = "unlink" /\ object[e] = appending[x]
    BY <1>2, <2>1, <2>3 DEF appendPut, KeptInv, ReferencedKept
  <2> QED
    BY <2>2, <2>3
<1>3. ASSUME NEW o \in Objects, Refer(o), cas' = cas, pc' = pc, object' = object,
             Reachable' = Reachable \cup {o}
      PROVE  KeptInv'
  BY <1>3 DEF Refer, GivenUp, KeptInv, ReferencedKept
<1>4. ASSUME NEW x \in Executions, appendInsert(x)
      PROVE  KeptInv'
  <2>1. appending[x] \in Objects
    BY <1>4 DEF appendInsert
  <2>2. Reachable' = Reachable \cup {appending[x]}
    BY <1>4, <2>1 DEF appendInsert, Reachable
  <2> QED
    BY <1>3, <1>4, <2>1, <2>2 DEF appendInsert
<1>5. ASSUME NEW o \in Objects, pinInsert(o)
      PROVE  KeptInv'
  <2>1. Reachable' = Reachable \cup {o}
    BY <1>5 DEF pinInsert, Reachable
  <2> QED
    BY <1>3, <1>5, <2>1 DEF pinInsert
<1>6. ASSUME \/ \E o \in Objects : pinCheck(o) \/ pinFails(o)
             \/ backupCheck \/ backupBegin \/ backupEnd
             \/ recoverGcBarriers \/ recoverWorkspaceGcEpochs
             \/ UNCHANGED vars
      PROVE  KeptInv'
  <2>1. cas \subseteq cas' /\ exposed' = exposed /\ Reachable' \subseteq Reachable
    BY <1>6 DEF pinCheck, pinFails, backupCheck, backupBegin, backupEnd, recoverGcBarriers,
                recoverWorkspaceGcEpochs, Reachable, vars
  <2>2. pc' = pc /\ object' = object
    BY <1>6 DEF pinCheck, pinFails, backupCheck, backupBegin, backupEnd, recoverGcBarriers,
                recoverWorkspaceGcEpochs, vars
  <2> QED
    BY <2>1, <2>2, KeptQuiet
<1>7. ASSUME crash
      PROVE  KeptInv'
  <2>1. cas \subseteq cas' /\ exposed' = exposed /\ Reachable' \subseteq Reachable
    BY <1>7 DEF crash, Reachable
  <2>2. \A e \in Epochs : pc'[e] # "unlink"
    BY <1>7 DEF crash
  <2> QED
    BY <2>1, <2>2, KeptQuiet
<1> QED
  BY <1>a, <1>1, <1>2, <1>4, <1>5, <1>6, <1>7 DEF Next, Use

\* What a manifest segment or a pin refers to is in the store, unless the row
\* was written after a collect had given the object up.
THEOREM ReferencesKept == Spec => []ReferencedKept
<1>1. Init => KeptInv
  BY DEF Init, KeptInv, ReferencedKept, Reachable
<1>2. KeptInv => ReferencedKept
  BY DEF KeptInv
<1> QED
  BY <1>1, <1>2, TypeInit, TypeStep, KeptStep, PTL DEF Spec

-----------------------------------------------------------------------------
(* Steps of the others, and of a daemon that is down.                       *)

\* The steps of the others: writers, backup, crash and recovery.
Other ==
    \/ \E x \in Executions : Use(x)
    \/ \E o \in Objects : pinCheck(o) \/ pinInsert(o) \/ pinFails(o)
    \/ backupCheck \/ backupBegin \/ backupEnd
    \/ UNCHANGED vars

LEMMA OtherLeaves ==
  ASSUME Other
  PROVE  UNCHANGED <<pc, batch, object, roots, epoch, candidate, barrier, process, unreleased>>
<1>1. ASSUME NEW x \in Executions, Use(x)
      PROVE  UNCHANGED <<pc, batch, object, roots, epoch, candidate, barrier, process, unreleased>>
  BY <1>1 DEF Use, createExecutionCheck, createExecutionInsert, createExecutionFails,
              expireExecutions, appendCheck, appendPut, appendInsert, appendFails
<1>2. ASSUME NEW o \in Objects, pinCheck(o) \/ pinInsert(o) \/ pinFails(o)
      PROVE  UNCHANGED <<pc, batch, object, roots, epoch, candidate, barrier, process, unreleased>>
  BY <1>2 DEF pinCheck, pinInsert, pinFails
<1>3. ASSUME backupCheck \/ backupBegin \/ backupEnd \/ UNCHANGED vars
      PROVE  UNCHANGED <<pc, batch, object, roots, epoch, candidate, barrier, process, unreleased>>
  BY <1>3 DEF backupCheck, backupBegin, backupEnd, vars
<1> QED
  BY <1>1, <1>2, <1>3 DEF Other

LEMMA NextParts ==
  [Next]_vars => \/ \E e \in Epochs : Collect(e)
                 \/ Other
                 \/ crash \/ recoverGcBarriers \/ recoverWorkspaceGcEpochs
  BY DEF Next, Other

\* No collect is under way before the recovery is over.
DownInv == ~Up => \A e \in Epochs : pc[e] = "idle"

LEMMA DownStep == TypeInv /\ DownInv /\ [Next]_vars => DownInv'
<1> SUFFICES ASSUME TypeInv, DownInv, [Next]_vars
             PROVE  DownInv'
  OBVIOUS
<1> USE DEF TypeInv, TypeOK, DownInv, Up
<1>1. ASSUME NEW e \in Epochs, Collect(e) PROVE DownInv'
  <2>1. process' = process
    BY <1>1 DEF Collect, collect, raiseBarrier, insertEpoch, readRoots, listCandidates,
       startSweep, sweepBarrier, selectBatch, checkBackup, freshRoots, unlink, markDeleted,
       finishBatch, lowerBarrier, collectThrows, markEpochFailed, releaseBarrier
  <2>2. Up \/ pc[e] # "idle"
    BY <1>1 DEF Collect, collect, raiseBarrier, insertEpoch, readRoots, listCandidates,
       startSweep, sweepBarrier, selectBatch, checkBackup, freshRoots, unlink, markDeleted,
       finishBatch, lowerBarrier, collectThrows, markEpochFailed, releaseBarrier, Goto
  <2> QED
    BY <2>1, <2>2
<1>2. ASSUME Other PROVE DownInv'
  BY <1>2, OtherLeaves
<1>3. ASSUME crash PROVE DownInv'
  BY <1>3 DEF crash
<1>4. ASSUME recoverGcBarriers \/ recoverWorkspaceGcEpochs PROVE DownInv'
  BY <1>4 DEF recoverGcBarriers, recoverWorkspaceGcEpochs
<1> QED
  BY <1>1, <1>2, <1>3, <1>4, NextParts

-----------------------------------------------------------------------------
(* A sweep holds readers off.                                               *)

Marking == {"marking", "insert", "roots", "list", "marked", "barrier"}

\* A completed epoch may be taken up again without a barrier: it has no
\* candidate left, so that the call finds nothing to decide on.
SweepInv ==
    \A e \in Epochs :
      /\ pc[e] \in {"fresh", "unlink", "deleted"} => barrier[e] = "sweeping"
      /\ pc[e] = "select" => barrier[e] = "sweeping" \/ Pending(e) = {}
      /\ pc[e] = "check" => barrier[e] = "sweeping" \/ batch[e] = {}
      /\ epoch[e] = "completed" => Pending(e) = {}
      /\ pc[e] \in Marking => epoch[e] # "completed"

LEMMA SweepCollect ==
  ASSUME TypeInv, SweepInv, NEW e \in Epochs, Collect(e)
  PROVE  SweepInv'
<1> USE DEF TypeInv, TypeOK, Goto, SweepInv, Pending, Marking
<1>1. ASSUME collect(e) PROVE SweepInv'
  BY <1>1 DEF collect
<1>2. ASSUME raiseBarrier(e) \/ insertEpoch(e) \/ readRoots(e) PROVE SweepInv'
  BY <1>2 DEF raiseBarrier, insertEpoch, readRoots
<1>3. ASSUME listCandidates(e) PROVE SweepInv'
  BY <1>3 DEF listCandidates
<1>4. ASSUME startSweep(e) \/ sweepBarrier(e) PROVE SweepInv'
  BY <1>4 DEF startSweep, sweepBarrier
<1>5. ASSUME selectBatch(e) PROVE SweepInv'
  <2>1. PICK b \in SUBSET Pending(e) : batch' = [batch EXCEPT ![e] = b]
    BY <1>5 DEF selectBatch
  <2> QED
    BY <1>5, <2>1 DEF selectBatch
<1>6. ASSUME checkBackup(e) PROVE SweepInv'
  <2>1. \A f \in Epochs \ {e} : batch'[f] = batch[f]
    BY <1>6 DEF checkBackup
  <2>2. pc[e] = "check" /\ barrier[e] = "sweeping"
    BY <1>6 DEF checkBackup
  <2> QED
    BY <1>6, <2>1, <2>2 DEF checkBackup
<1>7. ASSUME freshRoots(e) PROVE SweepInv'
  <2>1. object[e] \in Objects
    BY <1>7 DEF freshRoots
  <2>2. \A f \in Epochs : Pending(f)' \subseteq Pending(f)
    BY <1>7, <2>1 DEF freshRoots
  <2> QED
    BY <1>7, <2>2 DEF freshRoots
<1>8. ASSUME unlink(e) PROVE SweepInv'
  BY <1>8 DEF unlink
<1>9. ASSUME markDeleted(e) PROVE SweepInv'
  <2>1. object[e] \in Objects
    BY <1>9 DEF markDeleted
  <2>2. \A f \in Epochs : Pending(f)' \subseteq Pending(f)
    BY <1>9, <2>1 DEF markDeleted
  <2> QED
    BY <1>9, <2>2 DEF markDeleted
<1>10. ASSUME finishBatch(e) PROVE SweepInv'
  BY <1>10 DEF finishBatch
<1>11. ASSUME lowerBarrier(e) \/ collectThrows(e) PROVE SweepInv'
  BY <1>11 DEF lowerBarrier, collectThrows
<1>12. ASSUME NEW failing \in BOOLEAN, markEpochFailed(e, failing)
       PROVE  SweepInv'
  <2>1. epoch' = epoch \/ epoch' = [epoch EXCEPT ![e] = "failed"]
    BY <1>12 DEF markEpochFailed
  <2> QED
    BY <1>12, <2>1 DEF markEpochFailed
<1>13. ASSUME NEW failing \in BOOLEAN, releaseBarrier(e, failing)
       PROVE  SweepInv'
  <2>1. barrier' = barrier \/ barrier' = [barrier EXCEPT ![e] = "completed"]
    BY <1>13 DEF releaseBarrier
  <2> QED
    BY <1>13, <2>1 DEF releaseBarrier
<1> QED
  BY <1>1, <1>2, <1>3, <1>4, <1>5, <1>6, <1>7, <1>8, <1>9, <1>10, <1>11, <1>12, <1>13
  DEF Collect

LEMMA SweepStep == TypeInv /\ DownInv /\ SweepInv /\ [Next]_vars => SweepInv'
<1> SUFFICES ASSUME TypeInv, DownInv, SweepInv, [Next]_vars
             PROVE  SweepInv'
  OBVIOUS
<1>1. ASSUME NEW e \in Epochs, Collect(e) PROVE SweepInv'
  BY <1>1, SweepCollect
<1> USE DEF TypeInv, TypeOK, SweepInv, Pending, Marking
<1>2. ASSUME Other PROVE SweepInv'
  BY <1>2, OtherLeaves
<1>3. ASSUME crash PROVE SweepInv'
  BY <1>3 DEF crash
<1>4. ASSUME recoverGcBarriers PROVE SweepInv'
  BY <1>4 DEF recoverGcBarriers, DownInv, Up
<1>5. ASSUME recoverWorkspaceGcEpochs PROVE SweepInv'
  BY <1>5 DEF recoverWorkspaceGcEpochs
<1> QED
  BY <1>1, <1>2, <1>3, <1>4, <1>5, NextParts

\* Readers are held off whenever an object is being decided on and deleted.
THEOREM ReadersHeldOff == Spec => []SweepHoldsReadersOff
<1>1. Init => SweepInv /\ DownInv
  BY DEF Init, SweepInv, Pending, Marking, DownInv
<1>2. SweepInv => SweepHoldsReadersOff
  BY DEF SweepInv, SweepHoldsReadersOff
<1> QED
  BY <1>1, <1>2, TypeInit, TypeStep, DownStep, SweepStep, PTL DEF Spec

-----------------------------------------------------------------------------
(* Readers are held off only with reason.                                   *)

Standing == {"marking", "sweeping"}

\* Between the two clean-up statements the epoch has been closed already, and
\* between the two recovery steps no barrier of the installation stands.
ReasonInv ==
    /\ BarrierHasReason
    /\ process = "barriers" => \A e \in Epochs : barrier[e] \notin Standing
    /\ \A e \in Epochs :
         /\ pc[e] = "release" => epoch[e] \notin Standing \/ e \in unreleased
         /\ pc[e] = "complete" => epoch[e] = "completed"

LEMMA ReasonCollect ==
  ASSUME TypeInv, DownInv, ReasonInv, NEW e \in Epochs, Collect(e)
  PROVE  ReasonInv'
<1> USE DEF TypeInv, TypeOK, DownInv, Up, Goto, ReasonInv, BarrierHasReason, BarrierRows,
        Standing, Pending
<1>1. ASSUME collect(e) PROVE ReasonInv'
  BY <1>1 DEF collect
<1>2. ASSUME raiseBarrier(e) PROVE ReasonInv'
  BY <1>2 DEF raiseBarrier
<1>3. ASSUME insertEpoch(e) PROVE ReasonInv'
  BY <1>3 DEF insertEpoch
<1>4. ASSUME readRoots(e) PROVE ReasonInv'
  BY <1>4 DEF readRoots
<1>4s. ASSUME selectBatch(e) PROVE ReasonInv'
  BY <1>4s DEF selectBatch
<1>4u. ASSUME unlink(e) PROVE ReasonInv'
  BY <1>4u DEF unlink
<1>4b. ASSUME checkBackup(e) PROVE ReasonInv'
  BY <1>4b DEF checkBackup
<1>4t. ASSUME collectThrows(e) PROVE ReasonInv'
  BY <1>4t DEF collectThrows
<1>5. ASSUME listCandidates(e) PROVE ReasonInv'
  BY <1>5 DEF listCandidates
<1>6. ASSUME startSweep(e) PROVE ReasonInv'
  BY <1>6 DEF startSweep
<1>7. ASSUME sweepBarrier(e) PROVE ReasonInv'
  BY <1>7 DEF sweepBarrier
<1>8. ASSUME freshRoots(e) PROVE ReasonInv'
  <2>1. \A f \in Epochs \ {e} : candidate'[f] = candidate[f]
    BY <1>8 DEF freshRoots
  <2> QED
    BY <1>8, <2>1 DEF freshRoots
<1>9. ASSUME markDeleted(e) PROVE ReasonInv'
  BY <1>9 DEF markDeleted
<1>10. ASSUME finishBatch(e) PROVE ReasonInv'
  BY <1>10 DEF finishBatch
<1>11. ASSUME lowerBarrier(e) PROVE ReasonInv'
  BY <1>11 DEF lowerBarrier
<1>12. ASSUME NEW failing \in BOOLEAN, markEpochFailed(e, failing)
       PROVE  ReasonInv'
  <2>1. \/ epoch' = epoch /\ (epoch[e] \notin Standing \/ e \in unreleased')
        \/ epoch' = [epoch EXCEPT ![e] = "failed"]
    BY <1>12 DEF markEpochFailed, Cleanup
  <2>2. unreleased \subseteq unreleased'
    BY <1>12 DEF markEpochFailed, Cleanup
  <2> QED
    BY <1>12, <2>1, <2>2 DEF markEpochFailed
<1>13. ASSUME NEW failing \in BOOLEAN, releaseBarrier(e, failing)
       PROVE  ReasonInv'
  <2>1. \/ barrier' = barrier /\ e \in unreleased'
        \/ barrier' = [barrier EXCEPT ![e] = "completed"]
    BY <1>13 DEF releaseBarrier, Cleanup
  <2>2. unreleased \subseteq unreleased'
    BY <1>13 DEF releaseBarrier, Cleanup
  <2> QED
    BY <1>13, <2>1, <2>2 DEF releaseBarrier
<1> QED
  BY <1>1, <1>2, <1>3, <1>4, <1>4s, <1>4u, <1>4b, <1>4t, <1>5, <1>6, <1>7, <1>8,
     <1>9, <1>10, <1>11, <1>12, <1>13 DEF Collect

LEMMA ReasonStep == TypeInv /\ DownInv /\ ReasonInv /\ [Next]_vars => ReasonInv'
<1> SUFFICES ASSUME TypeInv, DownInv, ReasonInv, [Next]_vars
             PROVE  ReasonInv'
  OBVIOUS
<1>1. ASSUME NEW e \in Epochs, Collect(e) PROVE ReasonInv'
  BY <1>1, ReasonCollect
<1> USE DEF TypeInv, TypeOK, DownInv, Up, ReasonInv, BarrierHasReason, BarrierRows,
        Standing, Pending
<1>2. ASSUME Other PROVE ReasonInv'
  BY <1>2, OtherLeaves
<1>3. ASSUME crash PROVE ReasonInv'
  BY <1>3 DEF crash
<1>4. ASSUME recoverGcBarriers PROVE ReasonInv'
  BY <1>4 DEF recoverGcBarriers
<1>5. ASSUME recoverWorkspaceGcEpochs PROVE ReasonInv'
  BY <1>5 DEF recoverWorkspaceGcEpochs
<1> QED
  BY <1>1, <1>2, <1>3, <1>4, <1>5, NextParts

\* A barrier row never outlives its reason, over errors, unfinished batches,
\* crashes and recoveries.
THEOREM BarriersHaveReason == Spec => []BarrierHasReason
<1>1. Init => ReasonInv /\ DownInv
  BY DEF Init, ReasonInv, BarrierHasReason, BarrierRows, Standing, DownInv
<1>2. ReasonInv => BarrierHasReason
  BY DEF ReasonInv
<1> QED
  BY <1>1, <1>2, TypeInit, TypeStep, DownStep, ReasonStep, PTL DEF Spec

-----------------------------------------------------------------------------
(* A backup stops the sweep.                                                *)

\* While a backup row is active, only a collect that had passed its check when
\* the last backup began is past it.
GraceInv ==
    /\ backupPc = "copying" => backup
    /\ hasActiveBackupBarrier => \A e \in Epochs : pc[e] \in PastCheck => e \in grace

LEMMA GraceStep == TypeInv /\ GraceInv /\ [Next]_vars => GraceInv'
<1> SUFFICES ASSUME TypeInv, GraceInv, [Next]_vars
             PROVE  GraceInv'
  OBVIOUS
<1>0. pc \in [Epochs -> CollectPcs] /\ grace \in SUBSET Epochs
  BY DEF TypeInv, TypeOK
<1>q. ASSUME UNCHANGED <<pc, grace, backup, abandoned, backupPc>> PROVE GraceInv'
  BY <1>q DEF GraceInv, hasActiveBackupBarrier
<1> USE <1>0 DEF GraceInv, hasActiveBackupBarrier, PastCheck
<1>1. ASSUME NEW e \in Epochs, Collect(e)
      PROVE  GraceInv'
  <2> USE DEF Goto
  <2>1. ASSUME collect(e) \/ raiseBarrier(e) \/ insertEpoch(e) \/ readRoots(e)
               \/ listCandidates(e) \/ startSweep(e) \/ sweepBarrier(e) \/ selectBatch(e)
        PROVE  GraceInv'
    BY <2>1 DEF collect, raiseBarrier, insertEpoch, readRoots, listCandidates, startSweep,
                sweepBarrier, selectBatch
  <2>2. ASSUME checkBackup(e) PROVE GraceInv'
    BY <2>2 DEF checkBackup
  <2>3. ASSUME freshRoots(e) PROVE GraceInv'
    BY <2>3 DEF freshRoots
  <2>4. ASSUME unlink(e) PROVE GraceInv'
    BY <2>4 DEF unlink
  <2>5. ASSUME markDeleted(e) \/ finishBatch(e) \/ lowerBarrier(e)
        PROVE  GraceInv'
    BY <2>5 DEF markDeleted, finishBatch, lowerBarrier
  <2>5t. ASSUME collectThrows(e) PROVE GraceInv'
    BY <2>5t DEF collectThrows
  <2>6. ASSUME NEW failing \in BOOLEAN, markEpochFailed(e, failing) PROVE GraceInv'
    BY <2>6 DEF markEpochFailed
  <2>7. ASSUME NEW failing \in BOOLEAN, releaseBarrier(e, failing) PROVE GraceInv'
    BY <2>7 DEF releaseBarrier
  <2> QED
    BY <1>1, <2>1, <2>2, <2>3, <2>4, <2>5, <2>5t, <2>6, <2>7 DEF Collect
<1>2. ASSUME NEW x \in Executions, Use(x) PROVE GraceInv'
  <2>1. UNCHANGED <<pc, grace, backup, abandoned, backupPc>>
    BY <1>2 DEF Use, createExecutionCheck, createExecutionInsert, createExecutionFails,
                expireExecutions, appendCheck, appendPut, appendInsert, appendFails, rows,
                collector, history
  <2> QED
    BY <2>1, <1>q
<1>3. ASSUME NEW o \in Objects, pinCheck(o) \/ pinInsert(o) \/ pinFails(o) PROVE GraceInv'
  <2>1. UNCHANGED <<pc, grace, backup, abandoned, backupPc>>
    BY <1>3 DEF pinCheck, pinInsert, pinFails, collector, history
  <2> QED
    BY <2>1, <1>q
<1>4. ASSUME backupCheck PROVE GraceInv'
  BY <1>4 DEF backupCheck
<1>5. ASSUME backupBegin PROVE GraceInv'
  BY <1>5 DEF backupBegin
<1>6. ASSUME backupEnd PROVE GraceInv'
  BY <1>6 DEF backupEnd
<1>7. ASSUME crash PROVE GraceInv'
  BY <1>7 DEF crash
<1>8. ASSUME recoverGcBarriers \/ recoverWorkspaceGcEpochs \/ UNCHANGED vars
      PROVE  GraceInv'
  <2>1. UNCHANGED <<pc, grace, backup, abandoned, backupPc>>
    BY <1>8 DEF recoverGcBarriers, recoverWorkspaceGcEpochs, vars, rows, collector, history
  <2> QED
    BY <2>1, <1>q
<1> QED
  BY <1>1, <1>2, <1>3, <1>4, <1>5, <1>6, <1>7, <1>8 DEF Next

\* Only a deletion takes an object out of the store.
LEMMA Shrinks ==
  ASSUME [Next]_vars, cas' # cas, cas' \subseteq cas
  PROVE  \E e \in Epochs : unlink(e)
<1>1. ASSUME NEW e \in Epochs, Collect(e) PROVE unlink(e) \/ cas' = cas
  BY <1>1 DEF Collect, collect, raiseBarrier, insertEpoch, readRoots, listCandidates,
     startSweep, sweepBarrier, selectBatch, checkBackup, freshRoots, markDeleted,
     finishBatch, lowerBarrier, collectThrows, markEpochFailed, releaseBarrier
<1>2. ASSUME NEW x \in Executions, Use(x) PROVE cas \subseteq cas'
  BY <1>2 DEF Use, createExecutionCheck, createExecutionInsert, createExecutionFails,
              expireExecutions, appendCheck, appendPut, appendInsert, appendFails
<1>3. ASSUME NEW o \in Objects, pinCheck(o) \/ pinInsert(o) \/ pinFails(o) PROVE cas' = cas
  BY <1>3 DEF pinCheck, pinInsert, pinFails
<1>4. ASSUME \/ backupCheck \/ backupBegin \/ backupEnd \/ crash \/ recoverGcBarriers
             \/ recoverWorkspaceGcEpochs \/ UNCHANGED vars
      PROVE  cas' = cas
  BY <1>4 DEF backupCheck, backupBegin, backupEnd, crash, recoverGcBarriers,
              recoverWorkspaceGcEpochs, vars
<1> QED
  BY <1>1, <1>2, <1>3, <1>4 DEF Next

\* While a backup row is active an epoch deletes no more than the one object it
\* had passed the check with when the backup began.
THEOREM BackupsStopSweep == Spec => BackupStopsSweep
<1>1. Init => GraceInv
  BY DEF Init, GraceInv, PastCheck
<1>2. GraceInv /\ [Next]_vars =>
        [hasActiveBackupBarrier /\ cas' # cas /\ cas' \subseteq cas
           => \E e \in grace : pc[e] = "unlink" /\ e \notin grace']_vars
  <2> SUFFICES ASSUME GraceInv, [Next]_vars, hasActiveBackupBarrier, cas' # cas,
                      cas' \subseteq cas
               PROVE  \E e \in grace : pc[e] = "unlink" /\ e \notin grace'
    OBVIOUS
  <2>1. PICK e \in Epochs : unlink(e)
    BY Shrinks
  <2> QED
    BY <2>1 DEF unlink, Goto, GraceInv, PastCheck
<1> QED
  BY <1>1, <1>2, TypeInit, TypeStep, GraceStep, PTL DEF Spec, BackupStopsSweep

-----------------------------------------------------------------------------
(* Rows are kept for readers.                                               *)

\* An append under way belongs to an execution that was ready when it began.
ReaderInv ==
    /\ RootsHaveReader
    /\ \A x \in Executions : appendPc[x] # "idle" => execution[x] = "ready" \/ x \in straddled

LEMMA ReaderStep == TypeInv /\ ReaderInv /\ [Next]_vars => ReaderInv'
<1> SUFFICES ASSUME TypeInv, ReaderInv, [Next]_vars
             PROVE  ReaderInv'
  OBVIOUS
<1> USE DEF TypeInv, TypeOK, ReaderInv, RootsHaveReader
<1>1. ASSUME NEW e \in Epochs, Collect(e) PROVE ReaderInv'
  BY <1>1 DEF Collect, collect, raiseBarrier, insertEpoch, readRoots, listCandidates,
     startSweep, sweepBarrier, selectBatch, checkBackup, freshRoots, unlink, markDeleted,
     finishBatch, lowerBarrier, collectThrows, markEpochFailed, releaseBarrier
<1>2. ASSUME NEW x \in Executions,
             createExecutionCheck(x) \/ createExecutionInsert(x) \/ createExecutionFails(x)
      PROVE  ReaderInv'
  BY <1>2 DEF createExecutionCheck, createExecutionInsert, createExecutionFails
<1>3. ASSUME NEW x \in Executions, expireExecutions(x) PROVE ReaderInv'
  BY <1>3 DEF expireExecutions
<1>4. ASSUME NEW x \in Executions, NEW o \in Objects, appendCheck(x, o) PROVE ReaderInv'
  BY <1>4 DEF appendCheck
<1>5. ASSUME NEW x \in Executions, appendPut(x) PROVE ReaderInv'
  BY <1>5 DEF appendPut
<1>6. ASSUME NEW x \in Executions, appendInsert(x) \/ appendFails(x) PROVE ReaderInv'
  BY <1>6 DEF appendInsert, appendFails
<1>7. ASSUME NEW o \in Objects, pinCheck(o) \/ pinInsert(o) \/ pinFails(o) PROVE ReaderInv'
  BY <1>7 DEF pinCheck, pinInsert, pinFails
<1>8. ASSUME crash PROVE ReaderInv'
  BY <1>8 DEF crash
<1>9. ASSUME \/ backupCheck \/ backupBegin \/ backupEnd
             \/ recoverGcBarriers \/ recoverWorkspaceGcEpochs \/ UNCHANGED vars
      PROVE  ReaderInv'
  BY <1>9 DEF backupCheck, backupBegin, backupEnd, recoverGcBarriers,
              recoverWorkspaceGcEpochs, vars
<1> QED
  BY <1>1, <1>2, <1>3, <1>4, <1>5, <1>6, <1>7, <1>8, <1>9 DEF Next, Use

\* An expired execution keeps no object alive, unless an append straddled its
\* expiry.
THEOREM RootsHaveReaders == Spec => []RootsHaveReader
<1>1. Init => ReaderInv
  BY DEF Init, ReaderInv, RootsHaveReader
<1>2. ReaderInv => RootsHaveReader
  BY DEF ReaderInv
<1> QED
  BY <1>1, <1>2, TypeInit, TypeStep, ReaderStep, PTL DEF Spec

=============================================================================
