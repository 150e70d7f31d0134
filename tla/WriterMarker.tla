----------------------------- MODULE WriterMarker -----------------------------
(***************************************************************************)
(* The writer marker of one workspace: the file <database>.urdira-writer.  *)
(* lock that serialises the mutations of the database across threads and   *)
(* processes.  Node writers take it in acquireWorkspaceMutationLock        *)
(* (packages/storage/src/storage.ts), which recovers a marker whose owner  *)
(* is dead; native writers in workspace_lease (crates/urdira-indexing-core *)
(* /src/lib.rs), which does not.  The daemon removes the marker after      *)
(* aborting its lexical worker thread (packages/daemon/src/                *)
(* lexical-thread.ts).                                                     *)
(*                                                                         *)
(* Creating the file, writing the owner's pid into it, reading it, judging *)
(* and removing it are steps of their own.  Time is abstract: a waiter     *)
(* gives up after any number of failed attempts up to MaxTries.            *)
(***************************************************************************)
EXTENDS Naturals

CONSTANTS Writers,      \* threads that mutate the database
          Native,       \* those of the indexing core
          Worker,       \* the lexical worker thread of the daemon
          Processes, Home,   \* the process a writer runs in
          NoWriter,
          MaxTries,     \* bound: attempts that fit before the deadline
          MaxSweeps,    \* bound: removals of the daemon outstanding at once
          MaxFaults,    \* bound: failed writes and worker threads that die
          MaxCrashes    \* bound: processes that crash

ASSUME MarkerAssumption ==
    /\ NoWriter \notin Writers
    /\ Native \subseteq Writers /\ Worker \in Writers \ Native
    /\ Home \in [Writers -> Processes]
    /\ MaxTries \in Nat \ {0} /\ MaxSweeps \in Nat \ {0}
    /\ MaxFaults \in Nat /\ MaxCrashes \in Nat

VARIABLES
    marker,     \* the file: absent, without a pid yet, or with one
    by,         \* the writer that created it
    pc,         \* a writer
    tries,      \* its failed attempts
    slot,       \* processes whose native lease slot is taken
    session,    \* the worker thread's run
    aborted,    \* an abort was requested for it
    sweeps,     \* removals of the marker that are still to come
    faults, crashes,
    incidents   \* history

file == <<marker, by>>
thread == <<session, aborted, sweeps>>
vars == <<file, pc, tries, slot, thread, faults, crashes, incidents>>

Waiting(w) == pc[w] \in {"try", "judge", "stale"}
Using(w) == pc[w] \in {"write", "hold", "release"}

TypeOK ==
    /\ marker \in {"absent", "empty", "alive", "dead"}
    /\ by \in Writers \cup {NoWriter}
    /\ pc \in [Writers -> {"idle", "try", "judge", "stale", "write", "hold", "release"}]
    /\ tries \in [Writers -> 0..MaxTries]
    /\ slot \in SUBSET Processes
    /\ session \in {"off", "running", "replied", "exited"}
    /\ aborted \in BOOLEAN
    /\ sweeps \in 0..MaxSweeps
    /\ faults \in 0..MaxFaults
    /\ crashes \in 0..MaxCrashes
    /\ incidents \in SUBSET {"stolen", "swept", "unwritten", "orphaned"}

Init ==
    /\ marker = "absent" /\ by = NoWriter
    /\ pc = [w \in Writers |-> "idle"]
    /\ tries = [w \in Writers |-> 0]
    /\ slot = {}
    /\ session = "off" /\ aborted = FALSE /\ sweeps = 0
    /\ faults = 0 /\ crashes = 0
    /\ incidents = {}

Goto(w, from, to) == pc[w] = from /\ pc' = [pc EXCEPT ![w] = to]

\* rm with force: whatever file is there goes.
Unlink == marker' = "absent" /\ by' = NoWriter
\* Some writer other than w is using the file.
InUse(w) == marker # "absent" /\ by # w /\ Using(by)
Note(condition, what) ==
    incidents' = IF condition THEN incidents \cup {what} ELSE incidents

-----------------------------------------------------------------------------
(* A writer.                                                                *)

start(w) ==
    /\ Goto(w, "idle", "try")
    /\ w = Worker => session = "running"
    /\ UNCHANGED <<file, tries, slot, thread, faults, crashes, incidents>>

\* Mutant: the file is opened without asking that it be new.
createOver(w) ==
    /\ Goto(w, "try", "write")
    /\ w \in Native => Home[w] \notin slot
    /\ marker' = "empty" /\ by' = w
    /\ slot' = IF w \in Native THEN slot \cup {Home[w]} ELSE slot
    /\ tries' = [tries EXCEPT ![w] = 0]
    /\ UNCHANGED <<thread, faults, crashes, incidents>>

\* open(lockPath, "wx"); the slot of the process comes first in the core.
create(w) ==
    /\ Goto(w, "try", "write")
    /\ marker = "absent"
    /\ w \in Native => Home[w] \notin slot
    /\ marker' = "empty" /\ by' = w
    /\ slot' = IF w \in Native THEN slot \cup {Home[w]} ELSE slot
    /\ tries' = [tries EXCEPT ![w] = 0]
    /\ UNCHANGED <<thread, faults, crashes, incidents>>

\* The file is there (or the slot is taken): before the deadline a Node writer
\* looks at the owner, the core sleeps and tries again.
Refused(w) == marker # "absent" \/ (w \in Native /\ Home[w] \in slot)

\* Mutant: the deadline is not looked at.
contendForever(w) ==
    /\ Goto(w, "try", IF w \in Native THEN "try" ELSE "judge")
    /\ Refused(w)
    /\ UNCHANGED <<file, tries, slot, thread, faults, crashes, incidents>>

contend(w) ==
    /\ Goto(w, "try", IF w \in Native THEN "try" ELSE "judge")
    /\ Refused(w)
    /\ tries[w] < MaxTries
    /\ tries' = [tries EXCEPT ![w] = @ + 1]
    /\ UNCHANGED <<file, slot, thread, faults, crashes, incidents>>

\* Past the deadline: storage:workspace_writer_busy, or the error of the core.
giveUp(w) ==
    /\ Goto(w, "try", "idle")
    /\ Refused(w)
    /\ tries[w] > 0
    /\ tries' = [tries EXCEPT ![w] = 0]
    /\ UNCHANGED <<file, slot, thread, faults, crashes, incidents>>

\* workspaceMutationOwnerAlive: only a pid that is gone makes the marker stale;
\* an empty marker counts as live.
judge(w) ==
    /\ Goto(w, "judge", IF marker = "dead" THEN "stale" ELSE "try")
    /\ UNCHANGED <<file, tries, slot, thread, faults, crashes, incidents>>

\* rm after the judgement, whatever has happened to the file since.
removeStale(w) ==
    /\ Goto(w, "stale", "try")
    /\ Unlink
    /\ Note(InUse(w), "stolen")
    /\ UNCHANGED <<tries, slot, thread, faults, crashes>>

\* The pid goes to the file that was created, even if it is unlinked by now.
writeOwner(w) ==
    /\ Goto(w, "write", "hold")
    /\ marker' = IF by = w THEN "alive" ELSE marker
    /\ UNCHANGED <<by, tries, slot, thread, faults, crashes, incidents>>

\* A failed write: Node removes the file and throws, the core carries on.
writeFails(w) ==
    /\ faults < MaxFaults
    /\ faults' = faults + 1
    /\ IF w \in Native
       THEN Goto(w, "write", "hold") /\ UNCHANGED <<file, incidents>>
       ELSE Goto(w, "write", "idle") /\ Unlink /\ Note(InUse(w), "stolen")
    /\ UNCHANGED <<tries, slot, thread, crashes>>

\* Mutant: the file is removed first, and the handle closed after it.
finishUnlinked(w) ==
    /\ Goto(w, "hold", "release")
    /\ slot' = IF w \in Native THEN slot \ {Home[w]} ELSE slot
    /\ Unlink
    /\ UNCHANGED <<tries, thread, faults, crashes, incidents>>

\* The mutation is over; the core frees its slot before it removes the file.
finish(w) ==
    /\ Goto(w, "hold", "release")
    /\ slot' = IF w \in Native THEN slot \ {Home[w]} ELSE slot
    /\ UNCHANGED <<file, tries, thread, faults, crashes, incidents>>

release(w) ==
    /\ Goto(w, "release", "idle")
    /\ Unlink
    /\ Note(InUse(w), "stolen")
    /\ UNCHANGED <<tries, slot, thread, faults, crashes>>

-----------------------------------------------------------------------------
(* The lexical worker thread, seen from the daemon.                         *)

runLexicalReconcileInThread ==
    /\ session = "off"
    /\ session' = "running"
    /\ UNCHANGED <<file, pc, tries, slot, aborted, sweeps, faults, crashes, incidents>>

abort ==
    /\ session = "running" /\ ~aborted
    /\ aborted' = TRUE
    /\ UNCHANGED <<file, pc, tries, slot, session, sweeps, faults, crashes, incidents>>

\* The worker has closed its storage and posts its result.
reply ==
    /\ session = "running" /\ pc[Worker] = "idle"
    /\ session' = IF aborted THEN "replied" ELSE "off"
    /\ UNCHANGED <<file, pc, tries, slot, aborted, sweeps, faults, crashes, incidents>>

\* The grace period is over: the thread is stopped wherever it is.
terminate ==
    /\ session = "running" /\ aborted
    /\ session' = "exited"
    /\ pc' = [pc EXCEPT ![Worker] = "idle"]
    /\ tries' = [tries EXCEPT ![Worker] = 0]
    /\ UNCHANGED <<file, slot, aborted, sweeps, faults, crashes, incidents>>

\* The thread ends by an error nobody asked for; nothing is removed.
workerDies ==
    /\ session = "running" /\ ~aborted
    /\ faults < MaxFaults
    /\ faults' = faults + 1
    /\ session' = "off"
    /\ Note(Using(Worker), "orphaned")
    /\ pc' = [pc EXCEPT ![Worker] = "idle"]
    /\ tries' = [tries EXCEPT ![Worker] = 0]
    /\ UNCHANGED <<file, slot, aborted, sweeps, crashes>>

\* Mutant: the result is delivered and nothing is removed.
settleOnly ==
    /\ session \in {"replied", "exited"}
    /\ session' = "off" /\ aborted' = FALSE
    /\ UNCHANGED <<file, pc, tries, slot, sweeps, faults, crashes, incidents>>

\* The result of an aborted run is delivered once the marker is removed; the
\* exit of a thread that replied, and the end of terminate, remove it again.
settle ==
    /\ session \in {"replied", "exited"}
    /\ sweeps < MaxSweeps
    /\ session' = "off" /\ aborted' = FALSE
    /\ sweeps' = sweeps + 1
    /\ Unlink
    /\ Note(marker # "absent" /\ Using(by), "swept")
    /\ UNCHANGED <<pc, tries, slot, faults, crashes>>

\* Mutant: one removal too many.
sweepAgain ==
    /\ sweeps' = sweeps - 1
    /\ Unlink
    /\ Note(marker # "absent" /\ Using(by), "swept")
    /\ UNCHANGED <<pc, tries, slot, session, aborted, faults, crashes>>

sweep ==
    /\ sweeps > 0
    /\ sweeps' = sweeps - 1
    /\ Unlink
    /\ Note(marker # "absent" /\ Using(by), "swept")
    /\ UNCHANGED <<pc, tries, slot, session, aborted, faults, crashes>>

-----------------------------------------------------------------------------
\* A process dies with its threads; the file stays, its pid is gone.
crash(p) ==
    /\ crashes < MaxCrashes
    /\ crashes' = crashes + 1
    /\ pc' = [w \in Writers |-> IF Home[w] = p THEN "idle" ELSE pc[w]]
    /\ tries' = [w \in Writers |-> IF Home[w] = p THEN 0 ELSE tries[w]]
    /\ slot' = slot \ {p}
    /\ IF Home[Worker] = p
       THEN session' = "off" /\ aborted' = FALSE /\ sweeps' = 0
       ELSE UNCHANGED thread
    /\ marker' = IF marker = "alive" /\ Home[by] = p THEN "dead" ELSE marker
    /\ Note(marker = "empty" /\ Home[by] = p, "unwritten")
    /\ UNCHANGED <<by, faults>>

Step(w) ==
    \/ create(w) \/ contend(w) \/ giveUp(w)
    \/ (w \notin Native /\ (judge(w) \/ removeStale(w)))
    \/ writeOwner(w) \/ finish(w) \/ release(w)

Daemon == runLexicalReconcileInThread \/ abort \/ reply \/ terminate \/ settle \/ sweep

Next ==
    \/ \E w \in Writers : start(w) \/ Step(w) \/ writeFails(w)
    \/ Daemon \/ workerDies
    \/ \E p \in Processes : crash(p)

Spec == Init /\ [][Next]_vars

\* Threads and event loops go on; the daemon is not asked to remove anything.
FairSpec == Spec /\ \A w \in Writers : WF_vars(Step(w))

-----------------------------------------------------------------------------
(* Properties.                                                              *)

\* The two ways a marker is taken from a writer that is using it: a waiter that
\* judged an earlier owner dead removes the marker of the next one, and the
\* daemon removes the marker on behalf of a worker that no longer has it.
Broken == incidents \cap {"stolen", "swept"} # {}
Holders == {w \in Writers : pc[w] = "hold"}

\* The marker keeps the promise of the lock: creating, writing, judging and
\* removing it, over crashes and aborts, let one writer in at a time until the
\* marker is taken from one.
Lock == INSTANCE WriterLock WITH holders <- Holders, broken <- Broken
ImplementsLock == Lock!LockSpec

\* While nothing was taken from it, the writer that mutates the database is the
\* one that created the marker, and the marker is still there.
MarkerIsHolders ==
    ~Broken => \A w \in Writers : Using(w) => by = w /\ marker \in {"empty", "alive"}

\* A marker that is there can go away: its writer is using it, its owner is dead
\* and the next Node writer removes it, or the daemon is about to remove it;
\* unless its writer died before it wrote its pid, or died as a thread of a
\* process that lives on.
MarkerHasReason ==
    marker # "absent" =>
      \/ Using(by) \/ marker = "dead"
      \/ by = Worker /\ (sweeps > 0 \/ session \in {"replied", "exited"})
      \/ incidents \cap {"unwritten", "orphaned"} # {}

\* Nobody waits for ever, not even behind a marker that nothing will remove.
WaitEnds == \A w \in Writers : Waiting(w) ~> ~Waiting(w)

\* One mutation of the database at a time, whatever happens.
MarkerExclusive == \A v, w \in Holders : v = w

=============================================================================
