-------------------------- MODULE WriterMarkerProofs --------------------------
(***************************************************************************)
(* Proofs about WriterMarker, for any writers and processes and any number *)
(* of attempts, faults and crashes: the marker implements WriterLock, and  *)
(* a marker that is there can go away.                                     *)
(***************************************************************************)
EXTENDS WriterMarker, TLAPS

USE DEF file, thread, Using, Goto

TypeInv == TypeOK /\ (marker = "absent" <=> by = NoWriter)

LEMMA TypeInit == Init => TypeInv
<1> SUFFICES ASSUME Init
             PROVE  TypeInv
  OBVIOUS
<1>1. 0 \in 0..MaxTries /\ 0 \in 0..MaxSweeps /\ 0 \in 0..MaxFaults /\ 0 \in 0..MaxCrashes
  BY MarkerAssumption
<1>2. tries \in [Writers -> 0..MaxTries]
  BY <1>1 DEF Init
<1> QED
  BY <1>1, <1>2 DEF Init, TypeInv, TypeOK

LEMMA TypeStep == TypeInv /\ [Next]_vars => TypeInv'
<1> SUFFICES ASSUME TypeInv, [Next]_vars
             PROVE  TypeInv'
  OBVIOUS
<1> USE MarkerAssumption DEF TypeInv, TypeOK, Unlink, Note
<1>1. ASSUME NEW w \in Writers, start(w) PROVE TypeInv'
  BY <1>1 DEF start
<1>2. ASSUME NEW w \in Writers, create(w) PROVE TypeInv'
  BY <1>2 DEF create
<1>3. ASSUME NEW w \in Writers, contend(w) PROVE TypeInv'
  BY <1>3 DEF contend
<1>4. ASSUME NEW w \in Writers, giveUp(w) PROVE TypeInv'
  BY <1>4 DEF giveUp
<1>5. ASSUME NEW w \in Writers, judge(w) PROVE TypeInv'
  BY <1>5 DEF judge
<1>6. ASSUME NEW w \in Writers, removeStale(w) PROVE TypeInv'
  BY <1>6 DEF removeStale
<1>7. ASSUME NEW w \in Writers, writeOwner(w) PROVE TypeInv'
  BY <1>7 DEF writeOwner
<1>8. ASSUME NEW w \in Writers, writeFails(w) PROVE TypeInv'
  <2>1. faults' \in 0..MaxFaults
    BY <1>8 DEF writeFails
  <2>2. CASE w \in Native
    BY <1>8, <2>1, <2>2 DEF writeFails
  <2>3. CASE w \notin Native
    BY <1>8, <2>1, <2>3 DEF writeFails
  <2> QED
    BY <2>2, <2>3
<1>9. ASSUME NEW w \in Writers, finish(w) PROVE TypeInv'
  BY <1>9 DEF finish
<1>10. ASSUME NEW w \in Writers, release(w) PROVE TypeInv'
  BY <1>10 DEF release
<1>11. ASSUME runLexicalReconcileInThread \/ abort \/ reply \/ terminate PROVE TypeInv'
  <2>1. CASE runLexicalReconcileInThread
    BY <2>1 DEF runLexicalReconcileInThread
  <2>2. CASE abort
    BY <2>2 DEF abort
  <2>3. CASE reply
    BY <2>3 DEF reply
  <2>4. CASE terminate
    BY <2>4 DEF terminate
  <2> QED
    BY <1>11, <2>1, <2>2, <2>3, <2>4
<1>12. ASSUME settle \/ sweep PROVE TypeInv'
  <2>1. sweeps' \in 0..MaxSweeps
    BY <1>12 DEF settle, sweep
  <2>2. CASE settle
    BY <2>1, <2>2 DEF settle
  <2>3. CASE sweep
    BY <2>1, <2>3 DEF sweep
  <2> QED
    BY <1>12, <2>2, <2>3
<1>13. ASSUME workerDies PROVE TypeInv'
  BY <1>13 DEF workerDies
<1>14. ASSUME NEW p \in Processes, crash(p) PROVE TypeInv'
  <2>1. /\ pc' \in [Writers -> {"idle", "try", "judge", "stale", "write", "hold", "release"}]
        /\ tries' \in [Writers -> 0..MaxTries]
    BY <1>14 DEF crash
  <2>2. crashes' \in 0..MaxCrashes
    BY <1>14 DEF crash
  <2>3. /\ session' \in {"off", "running", "replied", "exited"}
        /\ aborted' \in BOOLEAN /\ sweeps' \in 0..MaxSweeps
    <3>1. CASE Home[Worker] = p
      <4>1. session' = "off" /\ aborted' = FALSE /\ sweeps' = 0
        BY <1>14, <3>1 DEF crash
      <4>2. 0 \in 0..MaxSweeps
        OBVIOUS
      <4> HIDE DEF TypeInv, TypeOK
      <4> QED
        BY <4>1, <4>2
    <3>2. CASE Home[Worker] # p
      BY <1>14, <3>2 DEF crash
    <3> QED
      BY <3>1, <3>2
  <2>4. /\ marker' \in {"absent", "empty", "alive", "dead"} /\ by' = by
        /\ (marker' = "absent" <=> marker = "absent")
    BY <1>14 DEF crash
  <2>5. slot' \in SUBSET Processes /\ faults' = faults
    BY <1>14 DEF crash
  <2>6. incidents' \in SUBSET {"stolen", "swept", "unwritten", "orphaned"}
    BY <1>14 DEF crash
  <2> QED
    BY <2>1, <2>2, <2>3, <2>4, <2>5, <2>6
<1>15. ASSUME UNCHANGED vars PROVE TypeInv'
  BY <1>15 DEF vars
<1> QED
  BY <1>1, <1>2, <1>3, <1>4, <1>5, <1>6, <1>7, <1>8, <1>9, <1>10, <1>11, <1>12, <1>13,
     <1>14, <1>15 DEF Next, Step, Daemon

\* Type correctness of the marker, the writers and the worker thread.
THEOREM TypeCorrect == Spec => []TypeOK
<1>1. TypeInv => TypeOK
  BY DEF TypeInv
<1> QED
  BY <1>1, TypeInit, TypeStep, PTL DEF Spec

-----------------------------------------------------------------------------
(* The marker belongs to the writer that uses it.                           *)

\* A marker once taken from its writer stays so.
LEMMA BrokenStays == TypeInv /\ [Next]_vars /\ Broken => Broken'
  BY DEF Broken, Next, Step, Daemon, Note, start, create, contend, giveUp, judge,
     removeStale, writeOwner, writeFails, finish, release, runLexicalReconcileInThread,
     abort, reply, terminate, settle, sweep, workerDies, crash, vars

LEMMA HolderStep == TypeInv /\ MarkerIsHolders /\ [Next]_vars => MarkerIsHolders'
<1> SUFFICES ASSUME TypeInv, MarkerIsHolders, [Next]_vars, ~Broken'
             PROVE  \A w \in Writers : Using(w)' => by' = w /\ marker' \in {"empty", "alive"}
  BY DEF MarkerIsHolders
<1> DEFINE Goal == \A v \in Writers : Using(v)' => by' = v /\ marker' \in {"empty", "alive"}
<1>0. /\ ~Broken
      /\ \A w \in Writers : Using(w) => by = w /\ marker \in {"empty", "alive"}
  BY BrokenStays DEF MarkerIsHolders
<1> USE MarkerAssumption DEF TypeInv, TypeOK
<1>1. ASSUME NEW w \in Writers, start(w) \/ contend(w) \/ giveUp(w) \/ judge(w) \/ finish(w)
      PROVE  Goal
  BY <1>0, <1>1 DEF start, contend, giveUp, judge, finish
<1>2. ASSUME NEW w \in Writers, create(w) PROVE Goal
  BY <1>0, <1>2 DEF create
<1>3. ASSUME NEW w \in Writers, removeStale(w) PROVE Goal
  <2>1. ~InUse(w)
    BY <1>3 DEF removeStale, Note, Broken
  <2>2. \A v \in Writers : ~Using(v)
    BY <1>0, <1>3, <2>1 DEF removeStale, InUse
  <2> QED
    BY <1>3, <2>2 DEF removeStale
<1>4. ASSUME NEW w \in Writers, writeOwner(w) PROVE Goal
  BY <1>0, <1>4 DEF writeOwner
<1>5. ASSUME NEW w \in Writers, writeFails(w) PROVE Goal
  BY <1>0, <1>5 DEF writeFails
<1>6. ASSUME NEW w \in Writers, release(w) PROVE Goal
  BY <1>0, <1>6 DEF release
<1>7. ASSUME runLexicalReconcileInThread \/ abort \/ reply \/ terminate \/ workerDies
      PROVE  Goal
  BY <1>0, <1>7 DEF runLexicalReconcileInThread, abort, reply, terminate, workerDies
<1>8. ASSUME settle \/ sweep PROVE Goal
  <2>1. ~(marker # "absent" /\ Using(by))
    BY <1>8 DEF settle, sweep, Note, Broken
  <2>2. \A v \in Writers : ~Using(v)
    BY <1>0, <2>1
  <2> QED
    BY <1>8, <2>2 DEF settle, sweep
<1>9. ASSUME NEW p \in Processes, crash(p) PROVE Goal
  BY <1>0, <1>9 DEF crash
<1>10. ASSUME UNCHANGED vars PROVE Goal
  BY <1>0, <1>10 DEF vars
<1> QED
  BY <1>1, <1>2, <1>3, <1>4, <1>5, <1>6, <1>7, <1>8, <1>9, <1>10 DEF Next, Step, Daemon

LEMMA HolderInit == Init => MarkerIsHolders
  BY DEF Init, MarkerIsHolders

\* The writer that mutates the database is the one that created the marker,
\* until the marker is taken from it.
THEOREM MarkerIsTheHolders == Spec => []MarkerIsHolders
  BY TypeInit, TypeStep, HolderInit, HolderStep, PTL DEF Spec

-----------------------------------------------------------------------------
(* The marker implements the lock.                                          *)

LEMMA LockStep ==
  ASSUME TypeInv, MarkerIsHolders, [Next]_vars
  PROVE  [Lock!LockNext]_<<Holders, Broken>>
<1> USE DEF TypeInv, TypeOK
<1>1. ASSUME NEW w \in Writers, writeOwner(w) \/ (writeFails(w) /\ w \in Native)
      PROVE  Lock!LockNext
  <2>1. pc[w] = "write" /\ pc' = [pc EXCEPT ![w] = "hold"] /\ incidents' = incidents
    BY <1>1 DEF writeOwner, writeFails
  <2>2. Holders' = Holders \cup {w} /\ Broken' = Broken
    BY <2>1 DEF Holders, Broken
  <2>3. Holders = {} \/ Broken
    BY <2>1 DEF Holders, MarkerIsHolders
  <2> QED
    BY <2>2, <2>3 DEF Lock!LockNext, Lock!Acquire
<1>2. ASSUME Holders' \in SUBSET Holders
      PROVE  Lock!LockNext
  <2>1. Broken' = Broken \/ Broken' = TRUE
    BY BrokenStays DEF Broken
  <2> QED
    BY <1>2, <2>1 DEF Lock!LockNext, Lock!Leave, Lock!Break
<1>3. ASSUME NEW w \in Writers,
             \/ start(w) \/ create(w) \/ contend(w) \/ giveUp(w) \/ judge(w)
             \/ removeStale(w) \/ finish(w) \/ release(w) \/ (writeFails(w) /\ w \notin Native)
      PROVE  Holders' \in SUBSET Holders
  BY <1>3 DEF Holders, start, create, contend, giveUp, judge, removeStale, finish, release,
              writeFails
<1>4. ASSUME Daemon \/ workerDies
      PROVE  Holders' \in SUBSET Holders
  BY <1>4 DEF Holders, Daemon, runLexicalReconcileInThread, abort, reply, terminate,
              settle, sweep, workerDies
<1>5. ASSUME NEW p \in Processes, crash(p)
      PROVE  Holders' \in SUBSET Holders
  BY <1>5 DEF Holders, crash
<1>6. ASSUME UNCHANGED vars
      PROVE  UNCHANGED <<Holders, Broken>>
  BY <1>6 DEF vars, Holders, Broken
<1> QED
  BY <1>1, <1>2, <1>3, <1>4, <1>5, <1>6 DEF Next, Step

\* The marker of the code, with its crashes, stale owners and aborted workers,
\* implements the lock its users rely on.
THEOREM MarkerImplementsLock == Spec => ImplementsLock
<1>1. Init => Lock!LockInit
  BY DEF Init, Lock!LockInit, Holders, Broken
<1>2. TypeInv /\ MarkerIsHolders /\ [Next]_vars => [Lock!LockNext]_<<Holders, Broken>>
  BY LockStep
<1> QED
  BY <1>1, <1>2, TypeInit, TypeStep, HolderInit, HolderStep, PTL
  DEF Spec, ImplementsLock, Lock!LockSpec

\* One writer at a time mutates the database, until the marker is taken from one.
THEOREM OneWriter == Spec => []Lock!Exclusive
<1>1. MarkerIsHolders => Lock!Exclusive
  BY DEF MarkerIsHolders, Lock!Exclusive, Holders
<1> QED
  BY <1>1, TypeInit, TypeStep, HolderInit, HolderStep, PTL DEF Spec

-----------------------------------------------------------------------------
(* A marker that is there can go away.                                      *)

LEMMA ReasonStep == TypeInv /\ MarkerHasReason /\ [Next]_vars => MarkerHasReason'
<1> SUFFICES ASSUME TypeInv, MarkerHasReason, [Next]_vars
             PROVE  MarkerHasReason'
  OBVIOUS
<1> USE MarkerAssumption DEF TypeInv, TypeOK, MarkerHasReason, Note
<1>1. ASSUME NEW w \in Writers, start(w) \/ contend(w) \/ giveUp(w) \/ judge(w) \/ finish(w)
      PROVE  MarkerHasReason'
  BY <1>1 DEF start, contend, giveUp, judge, finish
<1>2. ASSUME NEW w \in Writers, create(w) PROVE MarkerHasReason'
  BY <1>2 DEF create
<1>3. ASSUME NEW w \in Writers, removeStale(w) \/ release(w) PROVE MarkerHasReason'
  BY <1>3 DEF removeStale, release, Unlink
<1>4. ASSUME NEW w \in Writers, writeOwner(w) PROVE MarkerHasReason'
  BY <1>4 DEF writeOwner
<1>5. ASSUME NEW w \in Writers, writeFails(w) PROVE MarkerHasReason'
  BY <1>5 DEF writeFails, Unlink
<1>6. ASSUME settle \/ sweep PROVE MarkerHasReason'
  BY <1>6 DEF settle, sweep, Unlink
<1>7. ASSUME runLexicalReconcileInThread \/ abort \/ reply \/ terminate
      PROVE  MarkerHasReason'
  BY <1>7 DEF runLexicalReconcileInThread, abort, reply, terminate
<1>8. ASSUME workerDies PROVE MarkerHasReason'
  BY <1>8 DEF workerDies
<1>9. ASSUME NEW p \in Processes, crash(p) PROVE MarkerHasReason'
  <2>1. CASE marker = "absent"
    BY <1>9, <2>1 DEF crash
  <2>2. CASE marker # "absent" /\ Home[by] = p
    BY <1>9, <2>2 DEF crash
  <2>3. CASE marker # "absent" /\ Home[by] # p
    BY <1>9, <2>3 DEF crash
  <2> QED
    BY <2>1, <2>2, <2>3
<1>10. ASSUME UNCHANGED vars PROVE MarkerHasReason'
  BY <1>10 DEF vars
<1> QED
  BY <1>1, <1>2, <1>3, <1>4, <1>5, <1>6, <1>7, <1>8, <1>9, <1>10 DEF Next, Step, Daemon

\* A marker is left for good only by a writer that died before it wrote its
\* pid, or as a thread of a process that lives on.
THEOREM MarkersHaveReason == Spec => []MarkerHasReason
<1>1. Init => MarkerHasReason
  BY DEF Init, MarkerHasReason
<1> QED
  BY <1>1, TypeInit, TypeStep, ReasonStep, PTL DEF Spec

=============================================================================
