------------------------ MODULE ScanSchedulingProofs ------------------------
(***************************************************************************)
(* Theorems about ScanScheduling, for every set of files and every bound:  *)
(* types, mutual exclusion of scans, a requested rebuild is not lost, a    *)
(* workspace shown as indexing has a scan ahead of it, and every file that *)
(* is out of date is still to be looked at.                                *)
(***************************************************************************)
EXTENDS ScanScheduling, TLAPS

-----------------------------------------------------------------------------
(***************************************************************************)
(* The operators keep the shape of their arguments                         *)
(***************************************************************************)

\* The requests and buffers the code writes out are requests and buffers.
LEMMA FullTypes ==
    /\ FullRequest \in Request
    /\ FullBuffer \in ScanRequestBuffer
    /\ createScanRequestBuffer \in ScanRequestBuffer
BY DEF FullRequest, Request, FullBuffer, createScanRequestBuffer, ScanRequestBuffer

\* Merging a request into a buffer gives a buffer.
LEMMA MergeType ==
    ASSUME NEW b \in ScanRequestBuffer, NEW r \in Request, NEW d \in BOOLEAN
    PROVE  mergeScanRequestIntoBuffer(b, r, d) \in ScanRequestBuffer
BY FullTypes DEF mergeScanRequestIntoBuffer, ScanRequestBuffer, Request,
                 FullBuffer, createScanRequestBuffer

\* An absent buffer counts as an empty one.
LEMMA BufferOfType ==
    ASSUME NEW e \in ScanRequestBuffer \cup {None}
    PROVE  BufferOf(e) \in ScanRequestBuffer
BY FullTypes DEF BufferOf

\* The job submitted for a request is a job.
LEMMA NewJobType ==
    ASSUME NEW r \in Request
    PROVE  NewJob(r) \in Job
BY DEF NewJob, Job, Phases

\* scheduleWorkspaceScan keeps the shape of the scheduling maps.
LEMMA ScheduleType ==
    ASSUME NEW s \in ScanMaps, NEW r \in Request, NEW a \in BOOLEAN
    PROVE  scheduleWorkspaceScan(s, r, a) \in ScanMaps
<1>1. /\ BufferOf(s.pending) \in ScanRequestBuffer
      /\ BufferOf(s.buffer) \in ScanRequestBuffer
      /\ s.deletePhase \in BOOLEAN
  BY BufferOfType DEF ScanMaps
<1>2. /\ mergeScanRequestIntoBuffer(BufferOf(s.pending), r, s.deletePhase)
           \in ScanRequestBuffer
      /\ mergeScanRequestIntoBuffer(BufferOf(s.buffer), r, s.deletePhase)
           \in ScanRequestBuffer
  BY <1>1, MergeType
<1>3. NewJob(r) \in Job
  BY NewJobType
<1> QED
  BY <1>2, <1>3 DEF scheduleWorkspaceScan, ScanMaps

\* So does the branching of flushScanAggregation and the finally block.
LEMMA DispatchType ==
    ASSUME NEW s \in ScanMaps, NEW b \in ScanRequestBuffer
    PROVE  Dispatch(s, b) \in ScanMaps
<1> DEFINE later == [createScanRequestBuffer EXCEPT !.uris = b.presences]
           parked == IF b.presences = {} THEN s ELSE [s EXCEPT !.pending = later]
           both == [full |-> FALSE, uris |-> b.uris, deletes |-> b.deletes]
           only == [full |-> FALSE, uris |-> b.uris, deletes |-> {}]
<1>1. later \in ScanRequestBuffer
  BY DEF createScanRequestBuffer, ScanRequestBuffer
<1>2. parked \in ScanMaps
  BY <1>1 DEF ScanMaps
<1>3. both \in Request /\ only \in Request
  BY DEF ScanRequestBuffer, Request
<1> HIDE DEF parked, both, only
<1>4. /\ scheduleWorkspaceScan(s, FullRequest, FALSE) \in ScanMaps
      /\ scheduleWorkspaceScan(parked, both, FALSE) \in ScanMaps
      /\ scheduleWorkspaceScan(s, only, FALSE) \in ScanMaps
  BY <1>2, <1>3, FullTypes, ScheduleType
<1> QED
  BY <1>4 DEF Dispatch, parked, both, only

\* The values the initial state and the resets use are in range.
LEMMA Bounds ==
    /\ 0 \in 0 .. MaxRetries /\ 0 \in 0 .. MaxChanges /\ 0 \in 0 .. MaxFaults
    /\ Paths \in SUBSET Paths /\ {} \in SUBSET Paths
    /\ {} \in SUBSET Request /\ {} \in SUBSET Incidents
BY ScanAssumption

\* A job that has left its scan behind is a job.
LEMMA PastType ==
    ASSUME NEW j \in Job, NEW ph \in Phases
    PROVE  Past(j, ph) \in Job
<1>1. NewJob(j.req) \in Job
  BY NewJobType DEF Job
<1> QED
  BY <1>1 DEF Past, Job

\* A job with its scope chosen is a job.
LEMMA WalkingType ==
    ASSUME NEW j \in Job, TypeOK
    PROVE  Walking(j) \in Job
<1>1. RequestPaths(j.req) \in SUBSET Paths
  BY ScanAssumption DEF RequestPaths, Job, Request
<1>2. FullScope \in BOOLEAN
  BY DEF FullScope, TypeOK
<1> QED
  BY <1>1, <1>2 DEF Walking, Job, Phases

\* Replacing one job keeps the shape of the maps.
LEMMA AdvanceType ==
    ASSUME TypeOK, NEW j, NEW k \in Job, Advance(j, k)
    PROVE  scans' \in ScanMaps
BY DEF TypeOK, Advance, ScanMaps

\* A dispatch records known incidents only.
LEMMA IncidentType ==
    ASSUME NEW s, NEW b
    PROVE  DispatchIncident(s, b) \in SUBSET Incidents
BY DEF DispatchIncident, Incidents

\* The finally block keeps the maps, the status and the incidents in shape.
LEMMA FinallyType ==
    ASSUME TypeOK, NEW j, Finally(j)
    PROVE  scans' \in ScanMaps /\ status' \in Statuses /\ incidents' \in SUBSET Incidents
<1> DEFINE free == [scans EXCEPT !.inFlight = FALSE, !.deletePhase = FALSE,
                                 !.pending = None, !.jobs = @ \ {j}]
<1>1. free \in ScanMaps
  BY DEF TypeOK, ScanMaps
<1>2. CASE scans.pending = None
  BY <1>1, <1>2 DEF Finally, TypeOK
<1>3. CASE scans.pending # None
  <2>1. scans.pending \in ScanRequestBuffer
    BY <1>3 DEF TypeOK, ScanMaps
  <2> HIDE DEF free
  <2>2. Dispatch(free, scans.pending) \in ScanMaps
    BY <1>1, <2>1, DispatchType
  <2>3. scans' = Dispatch(free, scans.pending)
    BY <1>3 DEF Finally, free
  <2>4. status' = Reopened /\ incidents' = incidents \cup DispatchIncident(free, scans.pending)
    BY <1>3 DEF Finally, free
  <2> QED
    BY <2>2, <2>3, <2>4, IncidentType DEF Reopened, Statuses, TypeOK
<1> QED
  BY <1>2, <1>3

-----------------------------------------------------------------------------
(***************************************************************************)
(* Type correctness                                                        *)
(***************************************************************************)

\* Every variable has its type in every reachable state: the shapes of the
\* maps of scheduleWorkspaceScan, and the retry budget of a busy writer.
THEOREM TypeCorrect == Spec => []TypeOK
<1>1. Init => TypeOK
  <2> SUFFICES ASSUME Init PROVE TypeOK
    OBVIOUS
  <2>1. NoScans \in ScanMaps
    BY DEF NoScans, ScanMaps
  <2>2. scans \in ScanMaps
    BY <2>1, FullTypes, ScheduleType DEF Init
  <2>3. behind \in SUBSET Paths /\ watch \in Seq(Request)
    BY DEF Init
  <2> QED
    BY <2>2, <2>3, Bounds DEF Init, TypeOK, Statuses
<1>2. TypeOK /\ [Next]_vars => TypeOK'
  <2> SUFFICES ASSUME TypeOK, [Next]_vars PROVE TypeOK'
    OBVIOUS
  <2> USE ScanAssumption, Bounds
  <2>1. ASSUME NEW written \in SUBSET Paths, Write(written)
        PROVE  scans' \in ScanMaps /\ behind' \in SUBSET Paths /\ changes' \in 0 .. MaxChanges
    <3>1. \A j \in scans.jobs : [j EXCEPT !.seen = @ \ written] \in Job
      BY DEF TypeOK, ScanMaps, Job
    <3>2. scans' \in ScanMaps
      BY <2>1, <3>1 DEF Write, TypeOK, ScanMaps
    <3> QED
      BY <2>1, <3>2 DEF Write, TypeOK
  <2>2. ASSUME NEW changed \in SUBSET Paths, NEW deleted \in SUBSET DeletePaths,
               FileChange(changed, deleted)
        PROVE  TypeOK'
    <3>1. changed \cup deleted \in SUBSET Paths
      OBVIOUS
    <3>2. BatchCalls(changed, deleted) \in Seq(Request)
      <4> DEFINE first == [full |-> FALSE, uris |-> changed \ deleted, deletes |-> deleted]
                 again == [full |-> FALSE, uris |-> changed \cap deleted, deletes |-> {}]
      <4>1. first \in Request /\ again \in Request
        BY DEF Request
      <4> HIDE DEF first, again
      <4>2. <<first>> \in Seq(Request) /\ <<again>> \in Seq(Request) /\ << >> \in Seq(Request)
        BY <4>1
      <4>3. /\ <<first>> \o << >> \in Seq(Request)
            /\ <<first>> \o <<again>> \in Seq(Request)
        BY <4>2
      <4> QED
        BY <4>3 DEF BatchCalls, first, again
    <3>3. watch' \in Seq(Request)
      BY <2>2, <3>2 DEF FileChange, TypeOK
    <3> QED
      BY <2>1, <2>2, <3>1, <3>3 DEF FileChange, TypeOK, retries, rebuild, registry
  <2>3. CASE UnsafeChange
    BY <2>1, <2>3, FullTypes DEF UnsafeChange, TypeOK, retries, rebuild, registry
  <2>4. ASSUME NEW p \in Paths, UnreportedChange(p)
        PROVE  TypeOK'
    BY <2>1, <2>4 DEF UnreportedChange, TypeOK, retries, rebuild, registry
  <2>5. CASE OnReconcile
    <3>1. Head(watch) \in Request /\ Tail(watch) \in Seq(Request)
      BY <2>5 DEF OnReconcile, TypeOK
    <3>2. scans' \in ScanMaps
      BY <2>5, <3>1, ScheduleType DEF OnReconcile, TypeOK
    <3> QED
      BY <2>5, <3>1, <3>2 DEF OnReconcile, Reopened, Statuses, TypeOK, retries, rebuild
  <2>6. CASE flushScanAggregation
    <3>1. scans.buffer \in ScanRequestBuffer /\ [scans EXCEPT !.buffer = None] \in ScanMaps
      BY <2>6 DEF flushScanAggregation, TypeOK, ScanMaps
    <3>2. scans' \in ScanMaps
      BY <2>6, <3>1, DispatchType DEF flushScanAggregation
    <3> QED
      BY <2>6, <3>2, IncidentType DEF flushScanAggregation, TypeOK, retries, rebuild, registry
  <2>7. CASE Sweep
    BY <2>7, FullTypes, ScheduleType DEF Sweep, TypeOK, Statuses, retries, rebuild
  <2>8. ASSUME NEW full \in BOOLEAN, Reindex(full)
        PROVE  TypeOK'
    BY <2>8, FullTypes, ScheduleType DEF Reindex, TypeOK, Statuses, retries
  <2>9. CASE Configure
    BY <2>9, FullTypes, ScheduleType DEF Configure, TypeOK, Statuses, retries
  <2>10. ASSUME NEW r \in Request, RetryFires(r)
         PROVE  TypeOK'
    BY <2>10, ScheduleType DEF RetryFires, TypeOK, rebuild, registry
  <2>11. CASE Remove
    BY <2>11 DEF Remove, TypeOK, Statuses, retries, rebuild
  <2>12. ASSUME NEW j \in scans.jobs, JobStep(j)
         PROVE  TypeOK'
    <3>1. j \in Job
      BY DEF TypeOK, ScanMaps
    <3>2. CASE JobSkip(j)
      BY <3>2, FinallyType DEF JobSkip, TypeOK, retries, rebuild
    <3>3. CASE JobStart(j)
      <4>1. [j EXCEPT !.phase = "opening"] \in Job
        BY <3>1 DEF Job, Phases
      <4> QED
        BY <3>3, <4>1, AdvanceType DEF JobStart, TypeOK, retries, rebuild, registry
    <3>4. CASE selectV4ScanScope(j)
      <4>1. Past(j, "settling") \in Job /\ Walking(j) \in Job
        BY <3>1, PastType, WalkingType DEF Phases
      <4>2. scans' \in ScanMaps
        BY <3>4, <4>1, AdvanceType DEF selectV4ScanScope
      <4> QED
        BY <3>4, <4>2 DEF selectV4ScanScope, TypeOK, registry
    <3>5. ASSUME NEW p \in Paths, Observe(j, p)
          PROVE  TypeOK'
      <4>1. [j EXCEPT !.todo = @ \ {p}, !.seen = @ \cup {p}] \in Job
        BY <3>1 DEF Job
      <4> QED
        BY <3>5, <4>1, AdvanceType DEF Observe, TypeOK, retries, rebuild, registry
    <3>6. CASE Publish(j)
      <4>1. Past(j, "published") \in Job
        BY <3>1, PastType DEF Phases
      <4>2. scans' \in ScanMaps
        BY <3>6, <4>1, AdvanceType DEF Publish
      <4>3. behind' \in SUBSET Paths /\ unseen' \in SUBSET Paths
        BY <3>1, <3>6 DEF Publish, TypeOK, Job
      <4> QED
        BY <3>1, <3>6, <4>2, <4>3 DEF Publish, TypeOK, Job, retries, registry
    <3>7. CASE Complete(j)
      <4>1. Past(j, "settling") \in Job
        BY <3>1, PastType DEF Phases
      <4>2. scans' \in ScanMaps
        BY <3>7, <4>1, AdvanceType DEF Complete
      <4> QED
        BY <3>7, <4>2 DEF Complete, TypeOK, Statuses, registry, rebuild
    <3>8. CASE Settle(j)
      BY <3>8, FinallyType DEF Settle, TypeOK, retries, rebuild
    <3> QED
      BY <2>12, <3>2, <3>3, <3>4, <3>5, <3>6, <3>7, <3>8 DEF JobStep
  <2>13. ASSUME NEW j \in scans.jobs, Fails(j)
         PROVE  TypeOK'
    <3>1. Past(j, "settling") \in Job /\ j.req \in Request
      BY PastType DEF TypeOK, ScanMaps, Job, Phases
    <3>2. CASE FailOutdated(j)
      <4>1. scans' \in ScanMaps
        BY <3>1, <3>2, FullTypes DEF FailOutdated, TypeOK, ScanMaps
      <4>2. behind' \in SUBSET Paths
        BY <3>2 DEF FailOutdated
      <4>3. stored' \in BOOLEAN
        BY <3>2 DEF FailOutdated
      <4>4. faults' \in 0 .. MaxFaults
        BY <3>2 DEF FailOutdated, Caught, TypeOK
      <4> QED
        BY <3>2, <4>1, <4>2, <4>3, <4>4 DEF FailOutdated, TypeOK, retries, rebuild, registry
    <3>3. CASE FailBusy(j)
      <4>1. scans' \in ScanMaps
        BY <3>1, <3>3, AdvanceType DEF FailBusy
      <4> QED
        BY <3>1, <3>3, <4>1 DEF FailBusy, Caught, TypeOK, Incidents, rebuild, registry
    <3>4. CASE FailTerminally(j)
      <4>1. scans' \in ScanMaps
        BY <3>1, <3>4, AdvanceType DEF FailTerminally
      <4> QED
        BY <3>4, <4>1 DEF FailTerminally, Caught, TypeOK, Incidents, Statuses, rebuild, registry
    <3> QED
      BY <2>13, <3>2, <3>3, <3>4 DEF Fails
  <2>14. CASE Crash
    <3>1. NoScans \in ScanMaps
      BY DEF NoScans, ScanMaps
    <3>2. watch' \in Seq(Request) /\ faults' \in 0 .. MaxFaults
      BY <2>14 DEF Crash, TypeOK
    <3>3. unseen' \in SUBSET Paths /\ incidents' \in SUBSET Incidents
      BY <2>14 DEF Crash, TypeOK, Incidents
    <3> QED
      BY <2>14, <3>1, <3>2, <3>3 DEF Crash, TypeOK, registry
  <2>15. CASE Restart
    BY <2>15, FullTypes, ScheduleType DEF Restart, TypeOK, retries, rebuild, registry
  <2>16. CASE UNCHANGED vars
    BY <2>16 DEF vars, TypeOK
  <2>17. CASE WorkspaceConfigure
    BY <2>17 DEF WorkspaceConfigure, TypeOK, Statuses, Incidents, retries, rebuild
  <2>18. CASE RestartOutdated
    BY <2>18, FullTypes, ScheduleType DEF RestartOutdated, TypeOK, Statuses, retries
  <2>19. CASE RestartDegrades
    BY <2>19 DEF RestartDegrades, TypeOK, Statuses, Incidents, retries
  <2> QED
    BY <2>2, <2>3, <2>4, <2>5, <2>6, <2>7, <2>8, <2>9, <2>10, <2>11, <2>12,
       <2>13, <2>14, <2>15, <2>16, <2>17, <2>18, <2>19 DEF Next
<1> QED
  BY <1>1, <1>2, PTL DEF Spec

-----------------------------------------------------------------------------
(***************************************************************************)
(* One scan at a time                                                      *)
(***************************************************************************)

\* At most one job, recorded in the set of scans in flight; the delete phase
\* is the phase of its deletes.
JobsCoherent(s) ==
    /\ \A j, k \in s.jobs : j = k
    /\ s.inFlight <=> s.jobs # {}
    /\ s.deletePhase <=> \E j \in s.jobs : j.req.deletes # {}

Coherent(s) == JobsCoherent(s) /\ (s.pending # None => s.inFlight)

\* A request that may not wait in the aggregation buffer always finds or
\* starts a scan.
LEMMA ScheduleNow ==
    ASSUME NEW s \in ScanMaps, NEW r \in Request, JobsCoherent(s)
    PROVE  /\ Coherent(scheduleWorkspaceScan(s, r, FALSE))
           /\ scheduleWorkspaceScan(s, r, FALSE).inFlight
<1> DEFINE t == scheduleWorkspaceScan(s, r, FALSE)
<1>1. CASE s.inFlight
  <2>1. /\ t.inFlight = s.inFlight /\ t.deletePhase = s.deletePhase
        /\ t.jobs = s.jobs
    BY <1>1 DEF scheduleWorkspaceScan, ScanMaps
  <2> QED
    BY <1>1, <2>1 DEF Coherent, JobsCoherent
<1>2. CASE ~s.inFlight
  <2>1. s.jobs = {} /\ ~s.deletePhase
    BY <1>2 DEF JobsCoherent
  <2>2. /\ t.inFlight = TRUE /\ t.deletePhase = (s.deletePhase \/ r.deletes # {})
        /\ t.jobs = s.jobs \cup {NewJob(r)}
    BY <1>2 DEF scheduleWorkspaceScan, ScanMaps
  <2>3. NewJob(r).req = r
    BY DEF NewJob
  <2> QED
    BY <2>1, <2>2, <2>3 DEF Coherent, JobsCoherent
<1> QED
  BY <1>1, <1>2

\* No call of scheduleWorkspaceScan, aggregated or not, admits a second scan.
LEMMA ScheduleCoherent ==
    ASSUME NEW s \in ScanMaps, NEW r \in Request, NEW a \in BOOLEAN, Coherent(s)
    PROVE  Coherent(scheduleWorkspaceScan(s, r, a))
<1>1. CASE s.inFlight \/ ~a
  <2>1. scheduleWorkspaceScan(s, r, a) = scheduleWorkspaceScan(s, r, FALSE)
    BY <1>1 DEF scheduleWorkspaceScan
  <2> QED
    BY <2>1, ScheduleNow DEF Coherent
<1>2. CASE ~s.inFlight /\ a
  <2> DEFINE t == scheduleWorkspaceScan(s, r, a)
  <2>1. /\ t.inFlight = s.inFlight /\ t.deletePhase = s.deletePhase
        /\ t.jobs = s.jobs /\ t.pending = s.pending
    BY <1>2 DEF scheduleWorkspaceScan, ScanMaps
  <2> QED
    BY <2>1 DEF Coherent, JobsCoherent
<1> QED
  BY <1>1, <1>2

\* Whatever it dispatches, Dispatch leaves a scan in flight.
LEMMA DispatchCoherent ==
    ASSUME NEW s \in ScanMaps, NEW b \in ScanRequestBuffer, JobsCoherent(s)
    PROVE  Coherent(Dispatch(s, b)) /\ Dispatch(s, b).inFlight
<1> DEFINE later == [createScanRequestBuffer EXCEPT !.uris = b.presences]
           parked == IF b.presences = {} THEN s ELSE [s EXCEPT !.pending = later]
           both == [full |-> FALSE, uris |-> b.uris, deletes |-> b.deletes]
           only == [full |-> FALSE, uris |-> b.uris, deletes |-> {}]
<1>1. later \in ScanRequestBuffer
  BY DEF createScanRequestBuffer, ScanRequestBuffer
<1>2. parked \in ScanMaps
  BY <1>1 DEF ScanMaps
<1>3. both \in Request /\ only \in Request
  BY DEF ScanRequestBuffer, Request
<1>4. JobsCoherent(parked)
  <2>1. /\ parked.inFlight = s.inFlight /\ parked.deletePhase = s.deletePhase
        /\ parked.jobs = s.jobs
    BY DEF ScanMaps
  <2> QED
    BY <2>1 DEF JobsCoherent
<1> HIDE DEF parked, both, only
<1>5. /\ Coherent(scheduleWorkspaceScan(s, FullRequest, FALSE))
      /\ scheduleWorkspaceScan(s, FullRequest, FALSE).inFlight
  BY FullTypes, ScheduleNow
<1>6. /\ Coherent(scheduleWorkspaceScan(parked, both, FALSE))
      /\ scheduleWorkspaceScan(parked, both, FALSE).inFlight
  BY <1>2, <1>3, <1>4, ScheduleNow
<1>7. /\ Coherent(scheduleWorkspaceScan(s, only, FALSE))
      /\ scheduleWorkspaceScan(s, only, FALSE).inFlight
  BY <1>3, ScheduleNow
<1>8. \/ Dispatch(s, b) = scheduleWorkspaceScan(s, FullRequest, FALSE)
      \/ Dispatch(s, b) = scheduleWorkspaceScan(parked, both, FALSE)
      \/ Dispatch(s, b) = scheduleWorkspaceScan(s, only, FALSE)
  BY DEF Dispatch, parked, both, only
<1> QED
  BY <1>5, <1>6, <1>7, <1>8

\* A job that advances keeps its place.
LEMMA AdvanceCoherent ==
    ASSUME NEW s \in ScanMaps, Coherent(s), NEW j \in s.jobs, NEW k,
           k.req = j.req, NEW t, t.inFlight = s.inFlight,
           t.deletePhase = s.deletePhase, t.jobs = (s.jobs \ {j}) \cup {k}
    PROVE  Coherent(t)
<1>1. s.jobs = {j} /\ t.jobs = {k} /\ s.inFlight
  BY DEF Coherent, JobsCoherent
<1> QED
  BY <1>1 DEF Coherent, JobsCoherent

\* A job keeps its request to the end.
LEMMA PastRequest ==
    ASSUME NEW j \in Job, NEW ph
    PROVE  Past(j, ph).req = j.req /\ Past(j, ph).phase = ph
BY DEF Past, NewJob

\* The finally block hands the workspace over to the pending request, and
\* leaves the aggregation buffer alone.
LEMMA FinallyCoherent ==
    ASSUME TypeOK, Coherent(scans), NEW j \in scans.jobs, Finally(j)
    PROVE  /\ Coherent(scans')
           /\ scans.pending # None => scans'.inFlight
           /\ scans'.buffer = scans.buffer
<1> DEFINE free == [scans EXCEPT !.inFlight = FALSE, !.deletePhase = FALSE,
                                 !.pending = None, !.jobs = @ \ {j}]
<1>1. free \in ScanMaps /\ free.buffer = scans.buffer
  BY DEF TypeOK, ScanMaps
<1>2. /\ free.jobs = {} /\ free.inFlight = FALSE /\ free.deletePhase = FALSE
      /\ free.pending = None
  BY DEF TypeOK, ScanMaps, Coherent, JobsCoherent
<1>3. Coherent(free) /\ JobsCoherent(free)
  BY <1>2 DEF Coherent, JobsCoherent
<1>4. CASE scans.pending = None
  BY <1>1, <1>3, <1>4 DEF Finally
<1>5. CASE scans.pending # None
  <2>1. scans.pending \in ScanRequestBuffer
    BY <1>5 DEF TypeOK, ScanMaps
  <2>2. scans' = Dispatch(free, scans.pending)
    BY <1>5 DEF Finally
  <2> HIDE DEF free
  <2>3. Dispatch(free, scans.pending).buffer = free.buffer
    BY <1>1, <1>2 DEF Dispatch, scheduleWorkspaceScan, ScanMaps
  <2> QED
    BY <1>1, <1>3, <2>1, <2>2, <2>3, DispatchCoherent
<1> QED
  BY <1>4, <1>5

\* The inductive invariant is the two properties together.
LEMMA CoherentMeans == Coherent(scans) <=> OneScan /\ PendingHasOwner
BY DEF Coherent, JobsCoherent, OneScan, PendingHasOwner

\* The first scan of a workspace is the only one.
LEMMA CoherentInit == Init => Coherent(scans)
<1>1. NoScans \in ScanMaps /\ JobsCoherent(NoScans)
  BY DEF NoScans, ScanMaps, JobsCoherent
<1> QED
  BY <1>1, FullTypes, ScheduleNow DEF Init

\* Each step keeps at most one scan, with its bookkeeping.
LEMMA CoherentStep ==
    ASSUME TypeOK, Coherent(scans), [Next]_vars
    PROVE  Coherent(scans')
<1>0. scans \in ScanMaps /\ JobsCoherent(scans)
  BY DEF TypeOK, Coherent
<1>1. ASSUME NEW written, Write(written)
      PROVE  Coherent(scans')
  <2> DEFINE f(j) == [j EXCEPT !.seen = @ \ written]
  <2>1. /\ scans'.inFlight = scans.inFlight /\ scans'.deletePhase = scans.deletePhase
        /\ scans'.pending = scans.pending /\ scans'.jobs = {f(j) : j \in scans.jobs}
    BY <1>0, <1>1 DEF Write, ScanMaps
  <2>2. \A j \in scans.jobs : f(j).req = j.req
    BY <1>0 DEF ScanMaps, Job
  <2> HIDE DEF f
  <2>3. \A j, k \in scans'.jobs : j = k
    BY <2>1 DEF Coherent, JobsCoherent
  <2>4. (scans'.jobs # {}) <=> (scans.jobs # {})
    BY <2>1
  <2>5. (\E j \in scans'.jobs : j.req.deletes # {})
          <=> (\E j \in scans.jobs : j.req.deletes # {})
    BY <2>1, <2>2
  <2> QED
    BY <2>1, <2>3, <2>4, <2>5 DEF Coherent, JobsCoherent
<1>2. CASE \E changed \in SUBSET Paths, deleted \in SUBSET DeletePaths :
               FileChange(changed, deleted)
  BY <1>1, <1>2 DEF FileChange
<1>3. CASE UnsafeChange
  BY <1>1, <1>3 DEF UnsafeChange
<1>4. CASE \E p \in Paths : UnreportedChange(p)
  BY <1>1, <1>4 DEF UnreportedChange
<1>5. CASE OnReconcile
  <2>1. Head(watch) \in Request
    BY <1>5 DEF OnReconcile, TypeOK
  <2> QED
    BY <1>0, <1>5, <2>1, ScheduleCoherent DEF OnReconcile
<1>6. CASE flushScanAggregation
  <2> DEFINE s == [scans EXCEPT !.buffer = None]
  <2>1. /\ scans.buffer \in ScanRequestBuffer /\ s \in ScanMaps
        /\ s.inFlight = scans.inFlight /\ s.deletePhase = scans.deletePhase
        /\ s.jobs = scans.jobs
    BY <1>0, <1>6 DEF flushScanAggregation, ScanMaps
  <2>2. scans' = Dispatch(s, scans.buffer)
    BY <1>6 DEF flushScanAggregation
  <2> HIDE DEF s
  <2>3. JobsCoherent(s)
    BY <1>0, <2>1 DEF JobsCoherent
  <2> QED
    BY <2>1, <2>2, <2>3, DispatchCoherent
<1>7. CASE Sweep
  BY <1>0, <1>7, FullTypes, ScheduleNow DEF Sweep
<1>8. CASE \E full \in BOOLEAN : Reindex(full)
  BY <1>0, <1>8, FullTypes, ScheduleNow DEF Reindex
<1>9. CASE Configure
  BY <1>0, <1>9, FullTypes, ScheduleNow DEF Configure
<1>10. CASE \E r \in Request : RetryFires(r)
  BY <1>0, <1>10, ScheduleNow DEF RetryFires
<1>11. CASE Remove
  BY <1>11 DEF Remove
<1>12. ASSUME NEW j \in scans.jobs, NEW k, k.req = j.req, Advance(j, k)
       PROVE  Coherent(scans')
  BY <1>0, <1>12, AdvanceCoherent DEF Advance, ScanMaps
<1>13. ASSUME NEW j \in scans.jobs, JobStep(j)
       PROVE  Coherent(scans')
  <2>1. /\ j \in Job
        /\ Past(j, "settling").req = j.req /\ Past(j, "published").req = j.req
    BY <1>0, PastRequest DEF ScanMaps
  <2>2. CASE JobSkip(j) \/ Settle(j)
    BY <2>2, FinallyCoherent DEF JobSkip, Settle
  <2>3. CASE JobStart(j)
    BY <1>12, <2>1, <2>3 DEF JobStart, Job
  <2>4. CASE selectV4ScanScope(j)
    <3>1. Walking(j).req = j.req
      BY <2>1 DEF Walking, Job
    <3> QED
      BY <1>12, <2>1, <2>4, <3>1 DEF selectV4ScanScope
  <2>5. CASE \E p \in Paths : Observe(j, p)
    BY <1>12, <2>1, <2>5 DEF Observe, Job
  <2>6. CASE Publish(j) \/ Complete(j)
    BY <1>12, <2>1, <2>6 DEF Publish, Complete
  <2> QED
    BY <1>13, <2>2, <2>3, <2>4, <2>5, <2>6 DEF JobStep
<1>14. ASSUME NEW j \in scans.jobs, Fails(j)
       PROVE  Coherent(scans')
  <2>1. j \in Job /\ Past(j, "settling").req = j.req
    BY <1>0, PastRequest DEF ScanMaps
  <2>2. CASE FailOutdated(j)
    <3>1. /\ scans'.inFlight = scans.inFlight /\ scans'.deletePhase = scans.deletePhase
          /\ scans'.jobs = (scans.jobs \ {j}) \cup {Past(j, "settling")}
      BY <1>0, <2>2 DEF FailOutdated, ScanMaps
    <3> QED
      BY <1>0, <2>1, <3>1, AdvanceCoherent
  <2>3. CASE FailBusy(j) \/ FailTerminally(j)
    BY <1>12, <2>1, <2>3 DEF FailBusy, FailTerminally
  <2> QED
    BY <1>14, <2>2, <2>3 DEF Fails
<1>15. CASE Crash
  BY <1>15 DEF Crash, NoScans, Coherent, JobsCoherent
<1>16. CASE Restart
  BY <1>0, <1>16, FullTypes, ScheduleNow DEF Restart
<1>17. CASE UNCHANGED vars
  BY <1>17 DEF vars
<1>18. CASE WorkspaceConfigure
  BY <1>18 DEF WorkspaceConfigure
<1>19. CASE RestartOutdated
  BY <1>0, <1>19, FullTypes, ScheduleNow DEF RestartOutdated
<1>20. CASE RestartDegrades
  BY <1>20 DEF RestartDegrades
<1> QED
  BY <1>2, <1>3, <1>4, <1>5, <1>6, <1>7, <1>8, <1>9, <1>10, <1>11, <1>13,
     <1>14, <1>15, <1>16, <1>17, <1>18, <1>19, <1>20 DEF Next

\* Two scans never open the workspace database at once, and a request parked
\* in pendingScans always has a running scan that will dispatch it, for any
\* number of files, changes, failures and crashes.
THEOREM ScanExclusion == Spec => [](OneScan /\ PendingHasOwner)
<1>1. Init => Coherent(scans)
  BY CoherentInit
<1>2. TypeOK /\ Coherent(scans) /\ [Next]_vars => Coherent(scans)'
  <2> SUFFICES ASSUME TypeOK, Coherent(scans), [Next]_vars
               PROVE  Coherent(scans')
    BY DEF Coherent, JobsCoherent
  <2> QED
    BY CoherentStep
<1>3. Coherent(scans) => OneScan /\ PendingHasOwner
  BY CoherentMeans
<1> QED
  BY <1>1, <1>2, <1>3, TypeCorrect, PTL DEF Spec

\* What a parked request or delete phase waits for exists: the job whose end
\* dispatches it.
THEOREM PendingOwned == Spec => []PendingHasOwner
<1>1. OneScan /\ PendingHasOwner => PendingHasOwner
  OBVIOUS
<1> QED
  BY <1>1, ScanExclusion, PTL

-----------------------------------------------------------------------------
(***************************************************************************)
(* A requested rebuild is kept                                             *)
(***************************************************************************)

\* The jobs that have chosen their scope and not completed.
Late(s) == {j \in s.jobs : j.phase \in {"walking", "published"}}

\* The inductive invariant. A scan that is not full has found a store, a
\* snapshot and no flag, so that a rebuild asked for later has set the flag;
\* once a scan has published, only the flag can owe a rebuild.
RebuildInv ==
    incidents \cap {"failed", "crash"} = {} =>
        /\ rebuildOwed => \/ FullScope
                          \/ \E j \in Late(scans) : j.phase = "walking" /\ j.full
        /\ \A j \in Late(scans) :
             /\ j.phase = "walking" /\ ~j.full => stored /\ snapshot
             /\ j.phase = "published" => stored /\ (rebuildOwed => forceFull)

\* scheduleWorkspaceScan touches no job that is under way.
LEMMA ScheduleLate ==
    ASSUME NEW s \in ScanMaps, NEW r, NEW a
    PROVE  Late(scheduleWorkspaceScan(s, r, a)) = Late(s)
<1>1. NewJob(r).phase = "queued"
  BY DEF NewJob
<1>2. \/ scheduleWorkspaceScan(s, r, a).jobs = s.jobs
      \/ scheduleWorkspaceScan(s, r, a).jobs = s.jobs \cup {NewJob(r)}
  BY DEF scheduleWorkspaceScan, ScanMaps
<1> QED
  BY <1>1, <1>2 DEF Late

\* Neither does a dispatch.
LEMMA DispatchLate ==
    ASSUME NEW s \in ScanMaps, NEW b \in ScanRequestBuffer
    PROVE  Late(Dispatch(s, b)) = Late(s)
<1> DEFINE later == [createScanRequestBuffer EXCEPT !.uris = b.presences]
           parked == IF b.presences = {} THEN s ELSE [s EXCEPT !.pending = later]
           both == [full |-> FALSE, uris |-> b.uris, deletes |-> b.deletes]
           only == [full |-> FALSE, uris |-> b.uris, deletes |-> {}]
<1>1. later \in ScanRequestBuffer
  BY DEF createScanRequestBuffer, ScanRequestBuffer
<1>2. parked \in ScanMaps /\ Late(parked) = Late(s)
  BY <1>1 DEF ScanMaps, Late
<1>3. \/ Dispatch(s, b) = scheduleWorkspaceScan(s, FullRequest, FALSE)
      \/ Dispatch(s, b) = scheduleWorkspaceScan(parked, both, FALSE)
      \/ Dispatch(s, b) = scheduleWorkspaceScan(s, only, FALSE)
  BY DEF Dispatch
<1> HIDE DEF parked, both, only
<1>4. /\ Late(scheduleWorkspaceScan(s, FullRequest, FALSE)) = Late(s)
      /\ Late(scheduleWorkspaceScan(parked, both, FALSE)) = Late(parked)
      /\ Late(scheduleWorkspaceScan(s, only, FALSE)) = Late(s)
  BY <1>2, ScheduleLate
<1> QED
  BY <1>2, <1>3, <1>4

\* The finally block of a job that is not under way touches no other job.
LEMMA FinallyLate ==
    ASSUME TypeOK, NEW j \in scans.jobs, Finally(j),
           j.phase \notin {"walking", "published"}
    PROVE  Late(scans') = Late(scans) /\ incidents \subseteq incidents'
<1> DEFINE free == [scans EXCEPT !.inFlight = FALSE, !.deletePhase = FALSE,
                                 !.pending = None, !.jobs = @ \ {j}]
<1>1. free \in ScanMaps /\ free.jobs = scans.jobs \ {j}
  BY DEF TypeOK, ScanMaps
<1>2. Late(free) = Late(scans)
  BY <1>1 DEF Late
<1>3. CASE scans.pending = None
  BY <1>2, <1>3 DEF Finally
<1>4. CASE scans.pending # None
  <2>1. scans.pending \in ScanRequestBuffer
    BY <1>4 DEF TypeOK, ScanMaps
  <2>2. scans' = Dispatch(free, scans.pending) /\ incidents \subseteq incidents'
    BY <1>4 DEF Finally
  <2> HIDE DEF free
  <2> QED
    BY <1>1, <1>2, <2>1, <2>2, DispatchLate
<1> QED
  BY <1>3, <1>4

\* A step that leaves the jobs under way, the store and the registry's
\* snapshot alone, and that flags the next scan or asks for no rebuild.
LEMMA RebuildUntouched ==
    ASSUME TypeOK, RebuildInv, Late(scans') = Late(scans),
           stored' = stored, snapshot' = snapshot, incidents \subseteq incidents',
           \/ forceFull' = forceFull /\ rebuildOwed' = rebuildOwed
           \/ forceFull' = TRUE
    PROVE  RebuildInv'
BY DEF RebuildInv, FullScope, TypeOK

\* Every step keeps RebuildInv.
LEMMA RebuildStep ==
    ASSUME TypeOK, Coherent(scans), RebuildInv, [Next]_vars
    PROVE  RebuildInv'
<1>0. scans \in ScanMaps
  BY DEF TypeOK
<1>1. ASSUME NEW written, Write(written), UNCHANGED <<rebuild, registry, stored, incidents>>
      PROVE  RebuildInv'
  <2> DEFINE f(j) == [j EXCEPT !.seen = @ \ written]
  <2>1. scans'.jobs = {f(j) : j \in scans.jobs}
    BY <1>0, <1>1 DEF Write, ScanMaps
  <2>2. \A j \in scans.jobs : f(j).phase = j.phase /\ f(j).full = j.full
    BY <1>0 DEF ScanMaps, Job
  <2> HIDE DEF f
  <2>3. Late(scans') = {f(j) : j \in Late(scans)}
    BY <2>1, <2>2 DEF Late
  <2>4. \A j \in Late(scans) : f(j).phase = j.phase /\ f(j).full = j.full
    BY <2>2 DEF Late
  <2> QED
    BY <1>1, <2>3, <2>4 DEF RebuildInv, FullScope, rebuild, registry
<1>2. CASE \E changed \in SUBSET Paths, deleted \in SUBSET DeletePaths :
               FileChange(changed, deleted)
  BY <1>1, <1>2 DEF FileChange
<1>3. CASE UnsafeChange
  BY <1>1, <1>3 DEF UnsafeChange
<1>4. CASE \E p \in Paths : UnreportedChange(p)
  BY <1>1, <1>4 DEF UnreportedChange
<1>5. CASE OnReconcile
  <2>1. Late(scans') = Late(scans)
    BY <1>0, <1>5, ScheduleLate DEF OnReconcile
  <2> QED
    BY <1>5, <2>1, RebuildUntouched DEF OnReconcile, rebuild
<1>6. CASE flushScanAggregation
  <2> DEFINE s == [scans EXCEPT !.buffer = None]
  <2>1. scans.buffer \in ScanRequestBuffer /\ s \in ScanMaps /\ s.jobs = scans.jobs
    BY <1>0, <1>6 DEF flushScanAggregation, ScanMaps
  <2>2. scans' = Dispatch(s, scans.buffer)
    BY <1>6 DEF flushScanAggregation
  <2> HIDE DEF s
  <2>3. Late(scans') = Late(scans)
    BY <2>1, <2>2, DispatchLate DEF Late
  <2> QED
    BY <1>6, <2>3, RebuildUntouched DEF flushScanAggregation, rebuild, registry
<1>7. CASE Sweep
  <2>1. Late(scans') = Late(scans)
    BY <1>0, <1>7, ScheduleLate DEF Sweep
  <2> QED
    BY <1>7, <2>1, RebuildUntouched DEF Sweep, rebuild
<1>8. ASSUME NEW full \in BOOLEAN, Reindex(full)
      PROVE  RebuildInv'
  <2>1. Late(scans') = Late(scans)
    BY <1>0, <1>8, ScheduleLate DEF Reindex
  <2>2. CASE full
    BY <1>8, <2>1, <2>2, RebuildUntouched DEF Reindex
  <2>3. CASE ~full
    BY <1>8, <2>1, <2>3, RebuildUntouched DEF Reindex, TypeOK
  <2> QED
    BY <2>2, <2>3
<1>9. CASE Configure
  <2>1. Late(scans') = Late(scans)
    BY <1>0, <1>9, ScheduleLate DEF Configure
  <2> QED
    BY <1>9, <2>1, RebuildUntouched DEF Configure
<1>10. ASSUME NEW r \in Request, RetryFires(r)
       PROVE  RebuildInv'
  <2>1. scans' = scheduleWorkspaceScan(scans, r, FALSE)
    BY <1>10 DEF RetryFires
  <2>2. Late(scans') = Late(scans)
    BY <1>0, <2>1, ScheduleLate
  <2> QED
    BY <1>10, <2>2, RebuildUntouched DEF RetryFires, rebuild, registry
<1>11. CASE Remove
  BY <1>11, RebuildUntouched DEF Remove, rebuild
<1>12. ASSUME NEW j \in scans.jobs, NEW k, Advance(j, k)
       PROVE  /\ scans'.jobs = {k}
              /\ Late(scans) \subseteq {j}
              /\ j.phase \in {"walking", "published"} <=> j \in Late(scans)
  <2>1. scans.jobs = {j}
    BY DEF Coherent, JobsCoherent
  <2>2. scans'.jobs = (scans.jobs \ {j}) \cup {k}
    BY <1>0, <1>12 DEF Advance, ScanMaps
  <2> QED
    BY <2>1, <2>2 DEF Late
<1>13. ASSUME NEW j \in scans.jobs, JobStep(j)
       PROVE  RebuildInv'
  <2>1. /\ j \in Job
        /\ Past(j, "settling").phase = "settling"
        /\ Past(j, "published").phase = "published"
    BY <1>0, PastRequest DEF ScanMaps
  <2>2. CASE JobSkip(j) \/ Settle(j)
    <3>1. Late(scans') = Late(scans) /\ incidents \subseteq incidents'
      BY <2>2, FinallyLate DEF JobSkip, Settle
    <3> QED
      BY <2>2, <3>1, RebuildUntouched DEF JobSkip, Settle, rebuild
  <2>3. CASE JobStart(j)
    <3>1. Late(scans') = {} /\ Late(scans) = {}
      BY <1>12, <2>1, <2>3 DEF JobStart, Job, Late
    <3> QED
      BY <2>3, <3>1, RebuildUntouched DEF JobStart, rebuild, registry
  <2>4. CASE selectV4ScanScope(j)
    <3>1. Late(scans) = {}
      BY <1>12, <2>4 DEF selectV4ScanScope
    <3>2. CASE EmptyScope(j.req)
      <4>1. Late(scans') = {}
        BY <1>12, <2>1, <2>4, <3>2 DEF selectV4ScanScope, Late
      <4>2. forceFull' = forceFull
        BY <2>4, <3>2 DEF selectV4ScanScope, EmptyScope, TypeOK
      <4> QED
        BY <2>4, <3>1, <4>1, <4>2, RebuildUntouched DEF selectV4ScanScope, registry
    <3>3. CASE ~EmptyScope(j.req)
      <4>1. Walking(j).phase = "walking" /\ Walking(j).full = FullScope
        BY <2>1 DEF Walking, Job
      <4>2. scans'.jobs = {Walking(j)}
        BY <1>12, <2>4, <3>3 DEF selectV4ScanScope
      <4>3. Late(scans') = {Walking(j)}
        BY <4>1, <4>2 DEF Late
      <4>4. /\ stored' = stored /\ snapshot' = snapshot /\ incidents' = incidents
            /\ rebuildOwed' = rebuildOwed
        BY <2>4 DEF selectV4ScanScope, registry
      <4>5. FullScope \/ (stored /\ snapshot /\ ~forceFull)
        BY DEF FullScope, TypeOK
      <4> QED
        BY <3>1, <4>1, <4>3, <4>4, <4>5 DEF RebuildInv
    <3> QED
      BY <3>2, <3>3
  <2>5. ASSUME NEW p \in Paths, Observe(j, p)
        PROVE  RebuildInv'
    <3> DEFINE k == [j EXCEPT !.todo = @ \ {p}, !.seen = @ \cup {p}]
    <3>1. k.phase = "walking" /\ k.full = j.full /\ j.phase = "walking"
      BY <2>1, <2>5 DEF Observe, Job
    <3>2. Late(scans) = {j} /\ scans'.jobs = {k}
      BY <1>12, <2>5, <3>1 DEF Observe
    <3> HIDE DEF k
    <3>3. Late(scans') = {k}
      BY <3>1, <3>2 DEF Late
    <3> QED
      BY <2>5, <3>1, <3>2, <3>3 DEF Observe, RebuildInv, FullScope, rebuild, registry
  <2>6. CASE Publish(j)
    <3>1. Late(scans) = {j} /\ j.phase = "walking"
      BY <1>12, <2>6 DEF Publish
    <3>2. Late(scans') = {Past(j, "published")}
      BY <1>12, <2>1, <2>6 DEF Publish, Late
    <3>3. /\ stored' = TRUE /\ snapshot' = snapshot /\ forceFull' = forceFull
          /\ incidents' = incidents
          /\ rebuildOwed' = IF j.full THEN forceFull ELSE rebuildOwed
      BY <2>6 DEF Publish, registry
    <3>4. ASSUME incidents \cap {"failed", "crash"} = {}
          PROVE  rebuildOwed' => forceFull
      <4>1. CASE j.full
        BY <3>3, <4>1
      <4>2. CASE ~j.full
        BY <3>1, <3>3, <3>4, <4>2 DEF RebuildInv, FullScope
      <4> QED
        BY <4>1, <4>2
    <3> QED
      BY <2>1, <3>2, <3>3, <3>4 DEF RebuildInv, FullScope
  <2>7. CASE Complete(j)
    <3>1. Late(scans) = {j} /\ j.phase = "published"
      BY <1>12, <2>7 DEF Complete
    <3>2. Late(scans') = {}
      BY <1>12, <2>1, <2>7 DEF Complete, Late
    <3>3. /\ stored' = stored /\ forceFull' = forceFull /\ incidents' = incidents
          /\ rebuildOwed' = rebuildOwed
      BY <2>7 DEF Complete, rebuild
    <3> QED
      BY <3>1, <3>2, <3>3 DEF RebuildInv, FullScope
  <2> QED
    BY <1>13, <2>2, <2>3, <2>4, <2>5, <2>6, <2>7 DEF JobStep
<1>14. ASSUME NEW j \in scans.jobs, Fails(j)
       PROVE  RebuildInv'
  <2>1. j \in Job /\ Past(j, "settling").phase = "settling" /\ scans.jobs = {j}
    BY <1>0, PastRequest DEF ScanMaps, Coherent, JobsCoherent
  <2>2. CASE FailOutdated(j)
    <3>1. scans'.jobs = {Past(j, "settling")}
      BY <1>0, <2>1, <2>2 DEF FailOutdated, ScanMaps
    <3>2. Late(scans') = {}
      BY <2>1, <3>1 DEF Late
    <3>3. stored' = FALSE
      BY <2>2 DEF FailOutdated
    <3> QED
      BY <3>2, <3>3 DEF RebuildInv, FullScope
  <2>3. CASE FailBusy(j)
    <3>1. Late(scans') = {} /\ Late(scans) = {}
      BY <1>12, <2>1, <2>3 DEF FailBusy, Caught, Late
    <3> QED
      BY <2>3, <3>1, RebuildUntouched DEF FailBusy, rebuild, registry
  <2>4. CASE FailTerminally(j)
    BY <2>4 DEF FailTerminally, RebuildInv
  <2> QED
    BY <1>14, <2>2, <2>3, <2>4 DEF Fails
<1>15. CASE Crash
  BY <1>15 DEF Crash, RebuildInv
<1>16. CASE Restart
  <2>1. Late(scans') = Late(scans)
    BY <1>0, <1>16, ScheduleLate DEF Restart
  <2> QED
    BY <1>16, <2>1, RebuildUntouched DEF Restart, rebuild, registry
<1>17. CASE UNCHANGED vars
  BY <1>17, RebuildUntouched DEF vars
<1>18. CASE WorkspaceConfigure
  BY <1>18, RebuildUntouched DEF WorkspaceConfigure, rebuild
<1>19. CASE RestartOutdated
  <2>1. Late(scans') = Late(scans)
    BY <1>0, <1>19, ScheduleLate DEF RestartOutdated
  <2> QED
    BY <1>19, <2>1, RebuildUntouched DEF RestartOutdated
<1>20. CASE RestartDegrades
  BY <1>20, RebuildUntouched DEF RestartDegrades
<1> QED
  BY <1>2, <1>3, <1>4, <1>5, <1>6, <1>7, <1>8, <1>9, <1>10, <1>11, <1>13,
     <1>14, <1>15, <1>16, <1>17, <1>18, <1>19, <1>20 DEF Next

\* A full rebuild asked for by core:reindex or a configuration change, at any
\* point of any scan, is done by the running scan or will be by the next one,
\* until a scan fails or the daemon dies; for any number of files, changes,
\* deferrals and requests.
THEOREM RebuildNotLost == Spec => []RebuildKept
<1>1. Init => RebuildInv
  BY DEF Init, RebuildInv, Late, scheduleWorkspaceScan, NoScans, NewJob
<1>2. TypeOK /\ Coherent(scans) /\ RebuildInv /\ [Next]_vars => RebuildInv'
  BY RebuildStep
<1>3. RebuildInv => RebuildKept
  BY DEF RebuildInv, RebuildKept, RebuildOnItsWay, Late
<1>4. Spec => []Coherent(scans)
  <2>1. OneScan /\ PendingHasOwner => Coherent(scans)
    BY CoherentMeans
  <2> QED
    BY <2>1, ScanExclusion, PTL
<1> QED
  BY <1>1, <1>2, <1>3, <1>4, TypeCorrect, PTL DEF Spec

-----------------------------------------------------------------------------
(***************************************************************************)
(* A workspace shown as indexing has a scan ahead of it                    *)
(***************************************************************************)

\* A request or a buffer that asks for something.
Asks(r) == r.full \/ r.uris # {} \/ r.deletes # {}
BufferAsks(b) == b = None \/ Asks(b) \/ b.presences # {}
MapsAsk(s) ==
    /\ BufferAsks(s.pending) /\ BufferAsks(s.buffer)
    /\ \A j \in s.jobs : Asks(j.req)

\* The inductive invariant: nothing empty is ever queued, so no scan returns
\* with an empty scope; a scan that ends with the workspace still indexing has
\* left a request behind, unless core:workspace_configure has reopened it.
IndexingInv ==
    "dropped" \notin incidents =>
        /\ \A i \in DOMAIN watch : Asks(watch[i])
        /\ \A r \in retryTimers : Asks(r)
        /\ MapsAsk(scans)
        /\ "unscheduled" \notin incidents /\ status = "indexing" =>
             /\ ScanOwed
             /\ \A j \in scans.jobs : j.phase = "settling"
                  => scans.pending # None \/ scans.buffer # None \/ retryTimers # {}

\* Merging a request that asks for something gives a buffer that does.
LEMMA MergeAsks ==
    ASSUME NEW b \in ScanRequestBuffer, NEW r \in Request, NEW d \in BOOLEAN, Asks(r)
    PROVE  LET m == mergeScanRequestIntoBuffer(b, r, d)
           IN  m # None /\ BufferAsks(m)
<1> DEFINE m == mergeScanRequestIntoBuffer(b, r, d)
<1>1. m \in ScanRequestBuffer
  BY MergeType
<1>2. m # None
  BY <1>1, ScanAssumption
<1>3. Asks(m) \/ m.presences # {}
  BY DEF mergeScanRequestIntoBuffer, Asks, Request, ScanRequestBuffer,
         FullBuffer, createScanRequestBuffer
<1> HIDE DEF m
<1>4. m # None /\ BufferAsks(m)
  BY <1>2, <1>3 DEF BufferAsks
<1> QED
  BY <1>4 DEF m

\* A scheduled request is in the pending request of the scan in flight, in a
\* new job, or in the aggregation buffer.
LEMMA ScheduleAsks ==
    ASSUME NEW s \in ScanMaps, MapsAsk(s), NEW r \in Request, Asks(r), NEW a \in BOOLEAN
    PROVE  LET t == scheduleWorkspaceScan(s, r, a)
           IN  /\ MapsAsk(t)
               /\ s.inFlight => t.pending # None /\ t.jobs = s.jobs
               /\ ~s.inFlight /\ ~a => t.jobs = s.jobs \cup {NewJob(r)}
               /\ t.inFlight \/ t.buffer # None
               /\ s.inFlight \/ ~a => t.inFlight /\ t.buffer = s.buffer
               /\ ~s.inFlight /\ a => t.jobs = s.jobs /\ t.pending = s.pending
<1> DEFINE t == scheduleWorkspaceScan(s, r, a)
           mp == mergeScanRequestIntoBuffer(BufferOf(s.pending), r, s.deletePhase)
           mb == mergeScanRequestIntoBuffer(BufferOf(s.buffer), r, s.deletePhase)
<1>1. /\ BufferOf(s.pending) \in ScanRequestBuffer
      /\ BufferOf(s.buffer) \in ScanRequestBuffer
      /\ s.deletePhase \in BOOLEAN
  BY BufferOfType DEF ScanMaps
<1>2. mp # None /\ BufferAsks(mp) /\ mb # None /\ BufferAsks(mb)
  BY <1>1, MergeAsks
<1>3. NewJob(r).req = r
  BY DEF NewJob
<1> HIDE DEF mp, mb
<1>4. CASE s.inFlight
  <2>1. /\ t.pending = mp /\ t.buffer = s.buffer /\ t.jobs = s.jobs
        /\ t.inFlight = s.inFlight
    BY <1>4 DEF scheduleWorkspaceScan, ScanMaps, mp
  <2> QED
    BY <1>2, <1>4, <2>1 DEF MapsAsk
<1>5. CASE ~s.inFlight /\ a
  <2>1. /\ t.pending = s.pending /\ t.buffer = mb /\ t.jobs = s.jobs
        /\ t.inFlight = s.inFlight
    BY <1>5 DEF scheduleWorkspaceScan, ScanMaps, mb
  <2> QED
    BY <1>2, <1>5, <2>1 DEF MapsAsk
<1>6. CASE ~s.inFlight /\ ~a
  <2>1. /\ t.pending = s.pending /\ t.buffer = s.buffer
        /\ t.jobs = s.jobs \cup {NewJob(r)} /\ t.inFlight = TRUE
    BY <1>6 DEF scheduleWorkspaceScan, ScanMaps
  <2> QED
    BY <1>3, <1>6, <2>1 DEF MapsAsk
<1> QED
  BY <1>4, <1>5, <1>6

\* The same for a request that is not aggregated, which starts a scan.
LEMMA ScheduleNowAsks ==
    ASSUME NEW s \in ScanMaps, MapsAsk(s), NEW r \in Request, Asks(r)
    PROVE  LET t == scheduleWorkspaceScan(s, r, FALSE)
           IN  /\ MapsAsk(t) /\ t.inFlight
               /\ s.inFlight => t.pending # None
               /\ \A j \in t.jobs : j \in s.jobs \/ j.phase = "queued"
<1> DEFINE t == scheduleWorkspaceScan(s, r, FALSE)
<1>1. /\ MapsAsk(t) /\ t.inFlight
      /\ s.inFlight => t.pending # None /\ t.jobs = s.jobs
      /\ ~s.inFlight => t.jobs = s.jobs \cup {NewJob(r)}
  BY ScheduleAsks
<1>2. NewJob(r).phase = "queued"
  BY DEF NewJob
<1> QED
  BY <1>1, <1>2

\* A dispatch that drops nothing schedules something.
LEMMA DispatchAsks ==
    ASSUME NEW s \in ScanMaps, MapsAsk(s), NEW b \in ScanRequestBuffer, BufferAsks(b),
           "dropped" \notin DispatchIncident(s, b)
    PROVE  /\ MapsAsk(Dispatch(s, b))
           /\ Dispatch(s, b).inFlight
           /\ s.inFlight => Dispatch(s, b).pending # None
           /\ \A j \in Dispatch(s, b).jobs : j \in s.jobs \/ j.phase = "queued"
<1> DEFINE later == [createScanRequestBuffer EXCEPT !.uris = b.presences]
           parked == IF b.presences = {} THEN s ELSE [s EXCEPT !.pending = later]
           both == [full |-> FALSE, uris |-> b.uris, deletes |-> b.deletes]
           only == [full |-> FALSE, uris |-> b.uris, deletes |-> {}]
<1>1. later \in ScanRequestBuffer /\ later.uris = b.presences
  BY DEF createScanRequestBuffer, ScanRequestBuffer
<1>2. /\ parked \in ScanMaps /\ parked.inFlight = s.inFlight
      /\ parked.buffer = s.buffer /\ parked.jobs = s.jobs
      /\ parked.pending = IF b.presences = {} THEN s.pending ELSE later
  BY <1>1 DEF ScanMaps
<1>3. both \in Request /\ only \in Request
  BY DEF ScanRequestBuffer, Request
<1>4. MapsAsk(parked)
  <2> HIDE DEF parked, later
  <2> QED
    BY <1>1, <1>2 DEF MapsAsk, BufferAsks, Asks
<1>5. b # None
  BY ScanAssumption
<1>6. Asks(FullRequest) /\ FullRequest \in Request
  BY FullTypes DEF Asks, FullRequest
<1>7. ~b.full /\ b.deletes # {} => Asks(both)
  BY DEF Asks
<1>8. ~b.full /\ b.deletes = {} => Asks(only)
  <2>1. ~b.full /\ b.presences # {} /\ b.deletes = {} => "dropped" \in DispatchIncident(s, b)
    BY DEF DispatchIncident
  <2> QED
    BY <2>1, <1>5 DEF BufferAsks, Asks
<1>9. CASE b.full
  <2>1. Dispatch(s, b) = scheduleWorkspaceScan(s, FullRequest, FALSE)
    BY <1>9 DEF Dispatch
  <2> QED
    BY <2>1, <1>6, ScheduleNowAsks
<1>10. CASE ~b.full /\ b.deletes # {}
  <2>1. Dispatch(s, b) = scheduleWorkspaceScan(parked, both, FALSE)
    BY <1>10 DEF Dispatch
  <2> HIDE DEF parked, both
  <2> QED
    BY <2>1, <1>2, <1>3, <1>4, <1>7, <1>10, ScheduleNowAsks
<1>11. CASE ~b.full /\ b.deletes = {}
  <2>1. Dispatch(s, b) = scheduleWorkspaceScan(s, only, FALSE)
    BY <1>11 DEF Dispatch
  <2> HIDE DEF only
  <2> QED
    BY <2>1, <1>3, <1>8, <1>11, ScheduleNowAsks
<1> QED
  BY <1>9, <1>10, <1>11

\* A step that schedules a request, whoever asks for it.
LEMMA IndexingScheduled ==
    ASSUME TypeOK, Coherent(scans), IndexingInv, "dropped" \notin incidents,
           NEW r \in Request, Asks(r), NEW a \in BOOLEAN,
           scans' = scheduleWorkspaceScan(scans, r, a),
           \A i \in DOMAIN watch' : Asks(watch'[i]),
           \A q \in retryTimers' : Asks(q)
    PROVE  IndexingInv'
<1>1. scans \in ScanMaps /\ MapsAsk(scans)
  BY DEF TypeOK, IndexingInv
<1>2. scans.jobs # {} => scans.inFlight
  BY DEF Coherent, JobsCoherent
<1>3. NewJob(r).phase = "queued"
  BY DEF NewJob
<1>4. /\ MapsAsk(scans')
      /\ scans.inFlight => scans'.pending # None /\ scans'.jobs = scans.jobs
      /\ ~scans.inFlight /\ ~a => scans'.jobs = scans.jobs \cup {NewJob(r)}
      /\ scans'.inFlight \/ scans'.buffer # None
      /\ ~scans.inFlight /\ a => scans'.jobs = scans.jobs
  BY SMTT(20), <1>1, ScheduleAsks
<1>5. ScanOwed'
  BY <1>4 DEF ScanOwed
<1>6. \A j \in scans'.jobs : j.phase = "settling" => scans'.pending # None
  BY <1>2, <1>3, <1>4
<1> QED
  BY <1>4, <1>5, <1>6 DEF IndexingInv

\* A step that dispatches a buffer, from the maps s it leaves.
LEMMA IndexingDispatched ==
    ASSUME IndexingInv, "dropped" \notin incidents,
           NEW s \in ScanMaps, MapsAsk(s), s.jobs # {} => s.inFlight,
           NEW b \in ScanRequestBuffer, BufferAsks(b),
           scans' = Dispatch(s, b),
           incidents' = incidents \cup DispatchIncident(s, b),
           watch' = watch, retryTimers' = retryTimers
    PROVE  IndexingInv'
<1> SUFFICES ASSUME "dropped" \notin incidents'
             PROVE  IndexingInv'
  BY DEF IndexingInv
<1>1. /\ MapsAsk(scans') /\ scans'.inFlight
      /\ s.inFlight => scans'.pending # None
      /\ \A j \in scans'.jobs : j \in s.jobs \/ j.phase = "queued"
  BY DispatchAsks
<1>2. ScanOwed'
  BY <1>1 DEF ScanOwed
<1>3. \A j \in scans'.jobs : j.phase = "settling" => scans'.pending # None
  BY <1>1
<1> QED
  BY <1>1, <1>2, <1>3 DEF IndexingInv

\* The finally block.
LEMMA IndexingFinally ==
    ASSUME TypeOK, Coherent(scans), IndexingInv, "dropped" \notin incidents,
           NEW j \in scans.jobs, Finally(j),
           j.phase = "settling" \/ status # "indexing",
           watch' = watch, retryTimers' = retryTimers, up' = up
    PROVE  IndexingInv'
<1> DEFINE free == [scans EXCEPT !.inFlight = FALSE, !.deletePhase = FALSE,
                                 !.pending = None, !.jobs = @ \ {j}]
<1>1. /\ free \in ScanMaps /\ free.jobs = {} /\ free.pending = None
      /\ free.buffer = scans.buffer
  <2>1. scans \in ScanMaps /\ scans.jobs = {j}
    BY DEF TypeOK, Coherent, JobsCoherent
  <2> QED
    BY <2>1 DEF ScanMaps
<1>2. MapsAsk(free)
  <2> HIDE DEF free
  <2> QED
    BY <1>1 DEF MapsAsk, IndexingInv, BufferAsks
<1>3. CASE scans.pending = None
  <2>1. scans' = free /\ status' = status /\ incidents' = incidents
    BY <1>3 DEF Finally
  <2> HIDE DEF free
  <2>2. "unscheduled" \notin incidents /\ status' = "indexing" => ScanOwed'
    BY <1>1, <1>3, <2>1 DEF IndexingInv, ScanOwed
  <2> QED
    BY <1>1, <1>2, <2>1, <2>2 DEF IndexingInv
<1>4. CASE scans.pending # None
  <2>1. /\ scans' = Dispatch(free, scans.pending)
        /\ incidents' = incidents \cup DispatchIncident(free, scans.pending)
    BY <1>4 DEF Finally
  <2>2. scans.pending \in ScanRequestBuffer /\ BufferAsks(scans.pending)
    BY <1>4 DEF TypeOK, ScanMaps, IndexingInv, MapsAsk
  <2> HIDE DEF free
  <2> QED
    BY <1>1, <1>2, <2>1, <2>2, IndexingDispatched
<1> QED
  BY <1>3, <1>4

\* A step of a job that goes on, or ends having settled the status or armed
\* a retry.
LEMMA IndexingAdvance ==
    ASSUME TypeOK, Coherent(scans), IndexingInv, "dropped" \notin incidents,
           NEW j \in scans.jobs, NEW k, Advance(j, k), k.req = j.req,
           retryTimers' = retryTimers \/ retryTimers' = retryTimers \cup {j.req},
           k.phase = "settling" /\ status' = "indexing" => retryTimers' # {},
           watch' = watch
    PROVE  IndexingInv'
<1>1. scans \in ScanMaps /\ scans.jobs = {j} /\ scans.inFlight
  BY DEF TypeOK, Coherent, JobsCoherent
<1>2. /\ scans'.jobs = {k} /\ scans'.inFlight
      /\ scans'.pending = scans.pending /\ scans'.buffer = scans.buffer
  BY <1>1 DEF Advance, ScanMaps
<1>3. MapsAsk(scans')
  BY <1>2 DEF MapsAsk, IndexingInv, Asks
<1>4. ScanOwed'
  BY <1>2 DEF ScanOwed
<1>5. \A q \in retryTimers' : Asks(q)
  BY DEF IndexingInv, MapsAsk
<1> QED
  BY <1>2, <1>3, <1>4, <1>5 DEF IndexingInv

\* Every step keeps IndexingInv.
LEMMA IndexingStep ==
    ASSUME TypeOK, Coherent(scans), IndexingInv, [Next]_vars
    PROVE  IndexingInv'
<1> SUFFICES ASSUME "dropped" \notin incidents
             PROVE  IndexingInv'
  <2>1. incidents \subseteq incidents'
    BY DEF Next, vars, FileChange, UnsafeChange, UnreportedChange, OnReconcile,
           flushScanAggregation, Sweep, Reindex, Configure, RetryFires, Remove,
           JobStep, JobSkip, JobStart, selectV4ScanScope, Observe, Publish,
           Complete, Settle, Finally, Fails, FailOutdated, FailBusy,
           FailTerminally, Crash, Restart, WorkspaceConfigure, RestartOutdated,
           RestartDegrades
  <2> QED
    BY <2>1 DEF IndexingInv
<1>0. /\ scans \in ScanMaps /\ MapsAsk(scans)
      /\ scans.jobs # {} => scans.inFlight
      /\ \A i \in DOMAIN watch : Asks(watch[i])
      /\ \A r \in retryTimers : Asks(r)
      /\ "unscheduled" \notin incidents /\ status = "indexing" => ScanOwed
  BY DEF TypeOK, IndexingInv, Coherent, JobsCoherent
<1>1. FullRequest \in Request /\ Asks(FullRequest)
  BY FullTypes DEF Asks, FullRequest
<1>2. ASSUME NEW written, Write(written), status' = status, up' = up,
             retryTimers' = retryTimers, incidents' = incidents,
             \A i \in DOMAIN watch' : Asks(watch'[i])
      PROVE  IndexingInv'
  <2> DEFINE f(j) == [j EXCEPT !.seen = @ \ written]
  <2>1. /\ scans'.jobs = {f(j) : j \in scans.jobs}
        /\ scans'.inFlight = scans.inFlight
        /\ scans'.pending = scans.pending /\ scans'.buffer = scans.buffer
    BY <1>0, <1>2 DEF Write, ScanMaps
  <2>2. \A j \in scans.jobs : f(j).phase = j.phase /\ f(j).req = j.req
    BY <1>0 DEF ScanMaps, Job
  <2> HIDE DEF f
  <2>3. MapsAsk(scans')
    BY <1>0, <2>1, <2>2 DEF MapsAsk
  <2>4. "unscheduled" \notin incidents /\ status' = "indexing" => ScanOwed'
    BY <1>0, <1>2, <2>1 DEF ScanOwed
  <2> QED
    BY <1>2, <2>1, <2>2, <2>3, <2>4 DEF IndexingInv
<1>3. ASSUME NEW changed \in SUBSET Paths, NEW deleted \in SUBSET DeletePaths,
             FileChange(changed, deleted)
      PROVE  IndexingInv'
  <2> DEFINE calls == BatchCalls(changed, deleted)
  <2>1. calls \in Seq(Request) /\ \A i \in DOMAIN calls : Asks(calls[i])
    <3>1. changed \cup deleted # {}
      BY <1>3 DEF FileChange
    <3> DEFINE again == changed \cap deleted
               first == [full |-> FALSE, uris |-> changed \ deleted, deletes |-> deleted]
               second == [full |-> FALSE, uris |-> again, deletes |-> {}]
    <3>2. first \in Request /\ second \in Request
      BY ScanAssumption DEF Request
    <3>3. Asks(first) /\ (again # {} => Asks(second))
      BY <3>1 DEF Asks
    <3>4. calls = <<first>> \o IF again = {} THEN << >> ELSE <<second>>
      BY DEF BatchCalls
    <3> HIDE DEF again, first, second, calls
    <3>5. CASE again = {}
      <4>1. calls = <<first>>
        BY <3>2, <3>4, <3>5
      <4> QED
        BY <3>2, <3>3, <4>1
    <3>6. CASE again # {}
      <4>1. calls = <<first>> \o <<second>>
        BY <3>4, <3>6
      <4>2. <<first>> \in Seq(Request) /\ <<second>> \in Seq(Request)
        BY <3>2
      <4>3. \A i \in DOMAIN calls : calls[i] = first \/ calls[i] = second
        BY <4>1, <4>2
      <4>4. calls \in Seq(Request)
        BY <4>1, <4>2
      <4> QED
        BY <3>3, <3>6, <4>3, <4>4
    <3> QED
      BY <3>5, <3>6
  <2>2. watch' = watch \o calls /\ watch \in Seq(Request)
    BY <1>3 DEF FileChange, TypeOK
  <2> HIDE DEF calls
  <2>3. \A i \in DOMAIN watch' : Asks(watch'[i])
    BY <1>0, <2>1, <2>2
  <2> QED
    BY <1>2, <1>3, <2>3 DEF FileChange, retries, registry
<1>4. CASE UnsafeChange
  <2>1. watch' = Append(watch, FullRequest) /\ watch \in Seq(Request)
    BY <1>4 DEF UnsafeChange, TypeOK
  <2>2. \A i \in DOMAIN watch' : Asks(watch'[i])
    BY <1>0, <1>1, <2>1
  <2> QED
    BY <1>2, <1>4, <2>2 DEF UnsafeChange, retries, registry
<1>5. CASE \E p \in Paths : UnreportedChange(p)
  BY <1>0, <1>2, <1>5 DEF UnreportedChange, retries, registry
<1>6. CASE OnReconcile
  <2>1. /\ watch \in Seq(Request) /\ watch # << >> /\ watch' = Tail(watch)
        /\ retryTimers' = retryTimers
    BY <1>6 DEF OnReconcile, TypeOK, retries
  <2>2. /\ Head(watch) \in Request /\ Asks(Head(watch))
        /\ \A i \in DOMAIN watch' : Asks(watch'[i])
    BY <1>0, <2>1
  <2>3. CASE status = "removed"
    <3>1. scans' = scans /\ status' = "removed" /\ incidents' = incidents
      BY <1>6, <2>3 DEF OnReconcile, Reopened
    <3> QED
      BY <1>0, <2>1, <2>2, <3>1 DEF IndexingInv
  <2>4. CASE status # "removed"
    <3>1. scans' = scheduleWorkspaceScan(scans, Head(watch), TRUE)
      BY <1>6, <2>4 DEF OnReconcile
    <3> QED
      BY <1>0, <2>1, <2>2, <3>1, IndexingScheduled
  <2> QED
    BY <2>3, <2>4
<1>7. CASE flushScanAggregation
  <2> DEFINE s == [scans EXCEPT !.buffer = None]
             b == scans.buffer
  <2>1. /\ b \in ScanRequestBuffer /\ s \in ScanMaps /\ s.jobs = scans.jobs
        /\ s.pending = scans.pending /\ s.inFlight = scans.inFlight
        /\ s.buffer = None
    BY <1>0, <1>7 DEF flushScanAggregation, ScanMaps
  <2>2. BufferAsks(b)
    BY <1>0 DEF MapsAsk
  <2>3. /\ scans' = Dispatch(s, b) /\ watch' = watch /\ retryTimers' = retryTimers
        /\ incidents' = incidents \cup DispatchIncident(scans, b)
    BY <1>7 DEF flushScanAggregation, retries
  <2> HIDE DEF s, b
  <2>4. MapsAsk(s)
    BY <1>0, <2>1 DEF MapsAsk, BufferAsks
  <2>5. DispatchIncident(scans, b) = DispatchIncident(s, b)
    BY <2>1 DEF DispatchIncident
  <2> QED
    BY <1>0, <2>1, <2>2, <2>3, <2>4, <2>5, IndexingDispatched
<1>8. CASE Sweep
  BY <1>0, <1>1, <1>8, IndexingScheduled DEF Sweep, retries
<1>9. ASSUME NEW full \in BOOLEAN, Reindex(full)
      PROVE  IndexingInv'
  <2>1. /\ watch' = watch /\ retryTimers' = retryTimers /\ up' = up
        /\ incidents' = incidents /\ status' = "indexing"
    BY <1>9 DEF Reindex, retries
  <2>2. CASE status = "indexing"
    <3>1. scans' = scans
      BY <1>9, <2>2 DEF Reindex
    <3> QED
      BY <2>1, <2>2, <3>1 DEF IndexingInv, ScanOwed
  <2>3. CASE status # "indexing"
    <3>1. scans' = scheduleWorkspaceScan(scans, FullRequest, FALSE)
      BY <1>9, <2>3 DEF Reindex
    <3> QED
      BY <1>0, <1>1, <2>1, <3>1, IndexingScheduled
  <2> QED
    BY <2>2, <2>3
<1>10. CASE Configure
  BY <1>0, <1>1, <1>10, IndexingScheduled DEF Configure, retries
<1>11. ASSUME NEW r \in Request, RetryFires(r)
       PROVE  IndexingInv'
  BY <1>0, <1>11, IndexingScheduled DEF RetryFires
<1>12. CASE Remove
  <2>1. /\ watch' = << >> /\ retryTimers' = retryTimers /\ scans' = scans
        /\ incidents' = incidents /\ status' = "removed"
    BY <1>12 DEF Remove, retries
  <2>2. ~(status' = "indexing")
    BY <2>1
  <2>3. "dropped" \notin incidents' => MapsAsk(scans') /\ \A r \in retryTimers' : Asks(r)
    BY <1>0, <2>1 DEF IndexingInv
  <2>4. \A i \in DOMAIN watch' : Asks(watch'[i])
    BY <2>1
  <2> QED
    BY <2>2, <2>3, <2>4 DEF IndexingInv
<1>13. ASSUME NEW j \in scans.jobs, JobStep(j)
       PROVE  IndexingInv'
  <2>1. /\ j \in Job
        /\ Past(j, "settling").req = j.req
        /\ Past(j, "published").req = j.req
        /\ Past(j, "published").phase = "published"
    BY <1>0, PastRequest DEF ScanMaps
  <2>2. CASE JobSkip(j) \/ Settle(j)
    BY <2>2, IndexingFinally DEF JobSkip, Settle, retries
  <2>3. CASE JobStart(j)
    <3> DEFINE k == [j EXCEPT !.phase = "opening"]
    <3>1. k.req = j.req /\ k.phase = "opening"
      BY <2>1 DEF Job
    <3>2. Advance(j, k) /\ watch' = watch /\ retryTimers' = retryTimers
      BY <2>3 DEF JobStart, retries
    <3> HIDE DEF k
    <3> QED
      BY <3>1, <3>2, IndexingAdvance
  <2>4. CASE selectV4ScanScope(j)
    <3>1. ~EmptyScope(j.req)
      BY <1>0 DEF MapsAsk, Asks, EmptyScope, RequestPaths
    <3>2. Advance(j, Walking(j)) /\ watch' = watch /\ retryTimers' = retryTimers
      BY <2>4, <3>1 DEF selectV4ScanScope
    <3>3. Walking(j).req = j.req /\ Walking(j).phase = "walking"
      BY <2>1 DEF Walking, Job
    <3> QED
      BY <3>2, <3>3, IndexingAdvance
  <2>5. ASSUME NEW p \in Paths, Observe(j, p)
        PROVE  IndexingInv'
    <3> DEFINE k == [j EXCEPT !.todo = @ \ {p}, !.seen = @ \cup {p}]
    <3>1. k.req = j.req /\ k.phase = "walking"
      BY <2>1, <2>5 DEF Observe, Job
    <3>2. Advance(j, k) /\ watch' = watch /\ retryTimers' = retryTimers
      BY <2>5 DEF Observe, retries
    <3> HIDE DEF k
    <3> QED
      BY <3>1, <3>2, IndexingAdvance
  <2>6. CASE Publish(j)
    BY <2>1, <2>6, IndexingAdvance DEF Publish, retries
  <2>7. CASE Complete(j)
    <3>1. status' # "indexing"
      BY <2>7 DEF Complete, registry
    <3> QED
      BY <2>1, <2>7, <3>1, IndexingAdvance DEF Complete
  <2> QED
    BY <1>13, <2>2, <2>3, <2>4, <2>5, <2>6, <2>7 DEF JobStep
<1>14. ASSUME NEW j \in scans.jobs, Fails(j)
       PROVE  IndexingInv'
  <2>1. j \in Job /\ Past(j, "settling").req = j.req /\ scans.jobs = {j}
    BY <1>0, PastRequest DEF ScanMaps, Coherent, JobsCoherent
  <2>2. CASE FailOutdated(j)
    <3>1. /\ scans'.jobs = {Past(j, "settling")} /\ scans'.pending = FullBuffer
          /\ scans'.buffer = scans.buffer /\ scans'.inFlight = scans.inFlight
      BY <1>0, <2>1, <2>2 DEF FailOutdated, ScanMaps
    <3>2. FullBuffer # None /\ BufferAsks(FullBuffer)
      <4>1. FullBuffer \in ScanRequestBuffer
        BY FullTypes
      <4>2. FullBuffer.full
        BY DEF FullBuffer, createScanRequestBuffer
      <4> QED
        BY <4>1, <4>2, ScanAssumption DEF BufferAsks, Asks
    <3>3. MapsAsk(scans')
      BY <1>0, <2>1, <3>1, <3>2 DEF MapsAsk
    <3>4. ScanOwed'
      BY <1>0, <3>1 DEF ScanOwed
    <3>5. watch' = watch /\ retryTimers' = retryTimers
      BY <2>2 DEF FailOutdated, retries
    <3> QED
      BY <1>0, <3>1, <3>2, <3>3, <3>4, <3>5 DEF IndexingInv
  <2>3. CASE FailBusy(j)
    BY <2>1, <2>3, IndexingAdvance DEF FailBusy
  <2>4. CASE FailTerminally(j)
    <3>1. status' # "indexing"
      BY <2>4 DEF FailTerminally, registry
    <3> QED
      BY <2>1, <2>4, <3>1, IndexingAdvance DEF FailTerminally
  <2> QED
    BY <1>14, <2>2, <2>3, <2>4 DEF Fails
<1>15. CASE Crash
  <2>1. /\ scans' = NoScans /\ watch' = << >> /\ retryTimers' = {} /\ up' = FALSE
    BY <1>15 DEF Crash
  <2>2. MapsAsk(NoScans) /\ NoScans.jobs = {}
    BY DEF MapsAsk, NoScans, BufferAsks
  <2> QED
    BY <2>1, <2>2 DEF IndexingInv, ScanOwed
<1>16. CASE Restart
  <2>1. /\ watch' = watch /\ retryTimers' = retryTimers
        /\ incidents' = incidents /\ status' = status
    BY <1>16 DEF Restart, retries, registry
  <2>2. CASE status = "indexing"
    <3>1. scans' = scheduleWorkspaceScan(scans, FullRequest, FALSE)
      BY <1>16, <2>2 DEF Restart
    <3> QED
      BY <1>0, <1>1, <2>1, <3>1, IndexingScheduled
  <2>3. CASE status # "indexing"
    BY <1>16, <2>1, <2>3 DEF Restart, IndexingInv
  <2> QED
    BY <2>2, <2>3
<1>17. CASE UNCHANGED vars
  BY <1>17 DEF vars, IndexingInv, ScanOwed
<1>18. CASE WorkspaceConfigure
  <2>1. /\ watch' = watch /\ retryTimers' = retryTimers /\ up' = up /\ scans' = scans
        /\ "unscheduled" \notin incidents' => status = "indexing" /\ incidents' = incidents
    BY <1>18 DEF WorkspaceConfigure, retries
  <2> QED
    BY <1>0, <2>1 DEF IndexingInv, ScanOwed
<1>19. CASE RestartOutdated
  BY <1>0, <1>1, <1>19, IndexingScheduled DEF RestartOutdated, retries
<1>20. CASE RestartDegrades
  BY <1>0, <1>20 DEF RestartDegrades, retries, IndexingInv, MapsAsk
<1> QED
  BY <1>3, <1>4, <1>5, <1>6, <1>7, <1>8, <1>9, <1>10, <1>11, <1>12, <1>13,
     <1>14, <1>15, <1>16, <1>17, <1>18, <1>19, <1>20 DEF Next

\* A workspace the registry shows as indexing has a scan in flight, a buffered
\* request, an armed retry or a restart ahead of it, unless a dispatch has
\* dropped later presences or core:workspace_configure has reopened it; these
\* are the only two ways to a workspace that indexes forever, for any number of
\* files, changes, failures, deferrals and crashes. The sweep and core:reindex
\* skip a workspace that is indexing.
THEOREM IndexingNotStuck == Spec => []IndexingIsScanned
<1>1. Init => IndexingInv
  <2>1. ASSUME Init
        PROVE  IndexingInv
    <3>1. NoScans \in ScanMaps /\ MapsAsk(NoScans) /\ NoScans.jobs = {}
      BY DEF NoScans, ScanMaps, MapsAsk, BufferAsks
    <3>2. FullRequest \in Request /\ Asks(FullRequest)
      BY FullTypes DEF Asks, FullRequest
    <3>3. scans = scheduleWorkspaceScan(NoScans, FullRequest, FALSE)
      BY <2>1 DEF Init
    <3>4. /\ MapsAsk(scans) /\ scans.inFlight
          /\ \A j \in scans.jobs : j.phase = "queued"
      BY <3>1, <3>2, <3>3, ScheduleNowAsks
    <3>5. watch = << >> /\ retryTimers = {}
      BY <2>1 DEF Init
    <3> QED
      BY <3>4, <3>5 DEF IndexingInv, ScanOwed
  <2> QED
    BY <2>1
<1>2. TypeOK /\ Coherent(scans) /\ IndexingInv /\ [Next]_vars => IndexingInv'
  BY IndexingStep
<1>3. IndexingInv => IndexingIsScanned
  BY DEF IndexingInv, IndexingIsScanned
<1>4. Spec => []Coherent(scans)
  <2>1. OneScan /\ PendingHasOwner => Coherent(scans)
    BY CoherentMeans
  <2> QED
    BY <2>1, ScanExclusion, PTL
<1> QED
  BY <1>1, <1>2, <1>3, <1>4, TypeCorrect, PTL DEF Spec

-----------------------------------------------------------------------------
(***************************************************************************)
(* No reported change is forgotten: the inductive invariant                *)
(***************************************************************************)

\* The invariant's exceptions: the incidents NoChangeLost excludes by name.
Clean == incidents \cap {"dropped", "busy", "failed"} = {}

\* The job has read file p, or is going to. A queued job is going to only
\* while the workspace is indexing (ix); otherwise it will skip its scan.
JobReads(j, ix, p) ==
    \/ (j.phase = "opening" \/ (j.phase = "queued" /\ ix)) /\ p \in RequestPaths(j.req)
    \/ j.phase = "walking" /\ p \in j.todo \cup j.seen

\* The scheduling maps ask for file p, in a way that leads to a scan of it. A
\* buffer counts only while no scan is in flight and the workspace is
\* indexing: the job it becomes may otherwise find the workspace ready.
MapsCover(s, ix, p) ==
    \/ p \in BufferPaths(s.pending)
    \/ ~s.inFlight /\ ix /\ p \in BufferPaths(s.buffer)
    \/ \E j \in s.jobs : JobReads(j, ix, p)

\* A scan under way has p in its scope: its publication decides whether the
\* index is behind on p.
Scoped(s, p) == \E j \in Late(s) : j.phase = "walking" /\ p \in j.scope

\* An undelivered watcher call names file p.
Asked(calls, p) == \E i \in DOMAIN calls : p \in RequestPaths(calls[i])

\* File p is going to be looked at, or its change was not reported.
Covered(p) ==
    \/ Asked(watch, p)
    \/ MapsCover(scans, status = "indexing", p)
    \/ ~up /\ status = "indexing"
    \/ p \in unseen

\* The inductive invariant: a file the index is behind on, or may be behind on
\* once the scan under way publishes, is covered.
CoverInv ==
    Clean /\ status # "removed" =>
        \A p \in Paths : p \in behind \/ Scoped(scans, p) => Covered(p)

\* What a job has read or has left to read is of its scope; only a walking
\* job has read anything.
ShapedJob(j) ==
    /\ j.todo \cup j.seen \subseteq j.scope
    /\ j.phase # "walking" => j.seen = {}

Shaped(s) == \A j \in s.jobs : ShapedJob(j)

-----------------------------------------------------------------------------
(***************************************************************************)
(* Scheduling and dispatching lose no file                                 *)
(***************************************************************************)

\* A merged buffer has the files of the buffer and of the request.
LEMMA MergeCovers ==
    ASSUME NEW b \in ScanRequestBuffer, NEW r \in Request, NEW d \in BOOLEAN,
           NEW p \in Paths, p \in BufferPaths(b) \/ p \in RequestPaths(r)
    PROVE  p \in BufferPaths(mergeScanRequestIntoBuffer(b, r, d))
<1> DEFINE m == mergeScanRequestIntoBuffer(b, r, d)
<1> SUFFICES p \in BufferPaths(m)
  OBVIOUS
<1>1. m # None /\ b # None
  BY MergeType, ScanAssumption
<1>2. CASE r.full
  <2>1. m.full
    BY <1>2 DEF mergeScanRequestIntoBuffer, FullBuffer, createScanRequestBuffer
  <2> QED
    BY <1>1, <2>1 DEF BufferPaths
<1>3. CASE ~r.full
  <2>1. /\ m.full = b.full
        /\ m.deletes = b.deletes \cup r.deletes
        /\ m.uris \cup m.presences = b.uris \cup b.presences \cup r.uris
    BY <1>3 DEF mergeScanRequestIntoBuffer, ScanRequestBuffer
  <2> HIDE DEF m
  <2>2. CASE b.full
    <3>1. m.full
      BY <2>1, <2>2
    <3> QED
      BY <1>1, <3>1 DEF BufferPaths
  <2>3. CASE ~b.full
    <3>1. /\ ~m.full
          /\ p \in b.uris \cup b.deletes \cup b.presences \cup r.uris \cup r.deletes
      BY <1>1, <1>3, <2>1, <2>3 DEF BufferPaths, RequestPaths
    <3>2. p \in m.uris \cup m.deletes \cup m.presences
      BY <2>1, <3>1
    <3> QED
      BY <1>1, <3>1, <3>2 DEF BufferPaths
  <2> QED
    BY <2>2, <2>3
<1> QED
  BY <1>2, <1>3

\* An absent buffer has no file.
LEMMA BufferOfCovers ==
    ASSUME NEW e \in ScanRequestBuffer \cup {None}, NEW p \in BufferPaths(e)
    PROVE  p \in BufferPaths(BufferOf(e))
BY DEF BufferPaths, BufferOf

\* scheduleWorkspaceScan covers the files of its request, when the workspace
\* is indexing.
LEMMA ScheduleCovers ==
    ASSUME NEW s \in ScanMaps, NEW r \in Request, NEW a \in BOOLEAN,
           NEW p \in RequestPaths(r), p \in Paths
    PROVE  MapsCover(scheduleWorkspaceScan(s, r, a), TRUE, p)
<1> DEFINE t == scheduleWorkspaceScan(s, r, a)
           mp == mergeScanRequestIntoBuffer(BufferOf(s.pending), r, s.deletePhase)
           mb == mergeScanRequestIntoBuffer(BufferOf(s.buffer), r, s.deletePhase)
<1>1. p \in BufferPaths(mp) /\ p \in BufferPaths(mb)
  <2>1. /\ BufferOf(s.pending) \in ScanRequestBuffer
        /\ BufferOf(s.buffer) \in ScanRequestBuffer
        /\ s.deletePhase \in BOOLEAN
    BY BufferOfType DEF ScanMaps
  <2> QED
    BY <2>1, MergeCovers
<1>2. CASE s.inFlight
  <2>1. t.pending = mp
    BY <1>2 DEF scheduleWorkspaceScan, ScanMaps
  <2> QED
    BY <1>1, <2>1 DEF MapsCover
<1>3. CASE ~s.inFlight /\ a
  <2>1. t.buffer = mb /\ ~t.inFlight
    BY <1>3 DEF scheduleWorkspaceScan, ScanMaps
  <2> QED
    BY <1>1, <2>1 DEF MapsCover
<1>4. CASE ~s.inFlight /\ ~a
  <2>1. NewJob(r) \in t.jobs
    BY <1>4 DEF scheduleWorkspaceScan, ScanMaps
  <2>2. NewJob(r).phase = "queued" /\ NewJob(r).req = r
    BY DEF NewJob
  <2> QED
    BY <2>1, <2>2 DEF MapsCover, JobReads
<1> QED
  BY <1>2, <1>3, <1>4

\* What the maps covered stays covered, unless a job is admitted while a
\* buffer is waiting.
LEMMA ScheduleKeeps ==
    ASSUME NEW s \in ScanMaps, NEW r \in Request, NEW a \in BOOLEAN,
           NEW ix \in BOOLEAN, NEW p \in Paths, MapsCover(s, ix, p),
           s.inFlight \/ a \/ s.buffer = None
    PROVE  MapsCover(scheduleWorkspaceScan(s, r, a), ix, p)
<1> DEFINE t == scheduleWorkspaceScan(s, r, a)
           mp == mergeScanRequestIntoBuffer(BufferOf(s.pending), r, s.deletePhase)
           mb == mergeScanRequestIntoBuffer(BufferOf(s.buffer), r, s.deletePhase)
<1>1. /\ p \in BufferPaths(s.pending) => p \in BufferPaths(mp)
      /\ p \in BufferPaths(s.buffer) => p \in BufferPaths(mb)
  <2>1. /\ BufferOf(s.pending) \in ScanRequestBuffer
        /\ BufferOf(s.buffer) \in ScanRequestBuffer
        /\ s.deletePhase \in BOOLEAN
        /\ s.pending \in ScanRequestBuffer \cup {None}
        /\ s.buffer \in ScanRequestBuffer \cup {None}
    BY BufferOfType DEF ScanMaps
  <2> QED
    BY <2>1, MergeCovers, BufferOfCovers
<1>2. CASE s.inFlight
  <2>1. t.pending = mp /\ t.jobs = s.jobs
    BY <1>2 DEF scheduleWorkspaceScan, ScanMaps
  <2> QED
    BY <1>1, <1>2, <2>1 DEF MapsCover
<1>3. CASE ~s.inFlight /\ a
  <2>1. t.buffer = mb /\ ~t.inFlight /\ t.pending = s.pending /\ t.jobs = s.jobs
    BY <1>3 DEF scheduleWorkspaceScan, ScanMaps
  <2> QED
    BY <1>1, <2>1 DEF MapsCover
<1>4. CASE ~s.inFlight /\ ~a
  <2>1. t.pending = s.pending /\ s.jobs \subseteq t.jobs
    BY <1>4 DEF scheduleWorkspaceScan, ScanMaps
  <2>2. BufferPaths(s.buffer) = {}
    BY <1>4 DEF BufferPaths
  <2> QED
    BY <2>1, <2>2 DEF MapsCover
<1> QED
  BY <1>2, <1>3, <1>4

\* A dispatch that is no incident covers the files of its buffer.
LEMMA DispatchCovers ==
    ASSUME NEW s \in ScanMaps, NEW b \in ScanRequestBuffer,
           "dropped" \notin DispatchIncident(s, b), NEW p \in BufferPaths(b),
           p \in Paths
    PROVE  MapsCover(Dispatch(s, b), TRUE, p)
<1> DEFINE later == [createScanRequestBuffer EXCEPT !.uris = b.presences]
           parked == IF b.presences = {} THEN s ELSE [s EXCEPT !.pending = later]
           both == [full |-> FALSE, uris |-> b.uris, deletes |-> b.deletes]
           only == [full |-> FALSE, uris |-> b.uris, deletes |-> {}]
<1>0. b # None
  BY ScanAssumption
<1>1. CASE b.full
  <2>1. p \in RequestPaths(FullRequest)
    BY DEF RequestPaths, FullRequest
  <2>2. Dispatch(s, b) = scheduleWorkspaceScan(s, FullRequest, FALSE)
    BY <1>1 DEF Dispatch
  <2> QED
    BY <2>1, <2>2, FullTypes, ScheduleCovers
<1>2. CASE ~b.full /\ b.deletes # {}
  <2>1. /\ later \in ScanRequestBuffer /\ later.uris = b.presences /\ ~later.full
    BY DEF createScanRequestBuffer, ScanRequestBuffer
  <2>2. parked \in ScanMaps /\ parked.inFlight = s.inFlight /\ parked.buffer = s.buffer
    BY <2>1 DEF ScanMaps
  <2>3. both \in Request /\ RequestPaths(both) = b.uris \cup b.deletes
    BY DEF ScanRequestBuffer, Request, RequestPaths
  <2>4. Dispatch(s, b) = scheduleWorkspaceScan(parked, both, FALSE)
    BY <1>2 DEF Dispatch
  <2>5. CASE p \in b.uris \cup b.deletes
    <3> HIDE DEF parked, both
    <3> QED
      BY <2>2, <2>3, <2>4, <2>5, ScheduleCovers
  <2>6. CASE p \in b.presences
    <3>1. scheduleWorkspaceScan(parked, both, FALSE).pending
            \in {later, mergeScanRequestIntoBuffer(BufferOf(later), both, s.deletePhase)}
      <4>1. /\ parked.pending = later /\ parked.deletePhase = s.deletePhase
        BY <2>6 DEF ScanMaps
      <4> HIDE DEF parked, both, later
      <4> QED
        BY <2>2, <4>1 DEF scheduleWorkspaceScan, ScanMaps
    <3>2. BufferOf(later) = later /\ later # None
      BY <2>1, ScanAssumption DEF BufferOf
    <3>3. p \in BufferPaths(later)
      BY <2>1, <2>6, <3>2 DEF BufferPaths
    <3>4. s.deletePhase \in BOOLEAN
      BY DEF ScanMaps
    <3> HIDE DEF parked, both, later
    <3>5. p \in BufferPaths(mergeScanRequestIntoBuffer(later, both, s.deletePhase))
      BY <2>1, <2>3, <3>3, <3>4, MergeCovers
    <3>6. p \in BufferPaths(Dispatch(s, b).pending)
      BY <2>4, <3>1, <3>2, <3>3, <3>5
    <3> QED
      BY <3>6 DEF MapsCover
  <2> QED
    BY <1>0, <1>2, <2>5, <2>6 DEF BufferPaths
<1>3. CASE ~b.full /\ b.deletes = {}
  <2>1. b.presences = {}
    BY <1>3 DEF DispatchIncident
  <2>2. only \in Request /\ RequestPaths(only) = b.uris
    BY DEF ScanRequestBuffer, Request, RequestPaths
  <2>3. p \in b.uris
    BY <1>0, <1>3, <2>1 DEF BufferPaths
  <2>4. Dispatch(s, b) = scheduleWorkspaceScan(s, only, FALSE)
    BY <1>3 DEF Dispatch
  <2> HIDE DEF only
  <2> QED
    BY <2>2, <2>3, <2>4, ScheduleCovers
<1> QED
  BY <1>1, <1>2, <1>3

\* With the buffer taken out, it keeps what the maps covered.
LEMMA DispatchKeeps ==
    ASSUME NEW s \in ScanMaps, NEW b \in ScanRequestBuffer, s.buffer = None,
           "dropped" \notin DispatchIncident(s, b), NEW ix \in BOOLEAN,
           NEW p \in Paths, MapsCover(s, ix, p)
    PROVE  MapsCover(Dispatch(s, b), ix, p)
<1> DEFINE later == [createScanRequestBuffer EXCEPT !.uris = b.presences]
           parked == IF b.presences = {} THEN s ELSE [s EXCEPT !.pending = later]
           both == [full |-> FALSE, uris |-> b.uris, deletes |-> b.deletes]
           only == [full |-> FALSE, uris |-> b.uris, deletes |-> {}]
<1>1. /\ both \in Request /\ only \in Request /\ FullRequest \in Request
  BY FullTypes DEF ScanRequestBuffer, Request
<1>2. CASE b.full
  <2>1. Dispatch(s, b) = scheduleWorkspaceScan(s, FullRequest, FALSE)
    BY <1>2 DEF Dispatch
  <2> QED
    BY <1>1, <2>1, ScheduleKeeps
<1>3. CASE ~b.full /\ b.deletes # {}
  <2>1. later \in ScanRequestBuffer
    BY DEF createScanRequestBuffer, ScanRequestBuffer
  <2>2. /\ parked \in ScanMaps /\ parked.inFlight = s.inFlight
        /\ parked.buffer = None /\ parked.jobs = s.jobs
    BY <2>1 DEF ScanMaps
  <2>3. parked.pending = s.pending \/ s.pending = None
    BY <1>3 DEF DispatchIncident
  <2>4. Dispatch(s, b) = scheduleWorkspaceScan(parked, both, FALSE)
    BY <1>3 DEF Dispatch
  <2> HIDE DEF parked, both
  <2>5. MapsCover(parked, ix, p)
    BY <2>2, <2>3 DEF MapsCover, BufferPaths
  <2> QED
    BY <1>1, <2>2, <2>4, <2>5, ScheduleKeeps
<1>4. CASE ~b.full /\ b.deletes = {}
  <2>1. Dispatch(s, b) = scheduleWorkspaceScan(s, only, FALSE)
    BY <1>4 DEF Dispatch
  <2> HIDE DEF only
  <2> QED
    BY <1>1, <2>1, ScheduleKeeps
<1> QED
  BY <1>2, <1>3, <1>4

-----------------------------------------------------------------------------
(***************************************************************************)
(* The watcher's calls                                                     *)
(***************************************************************************)

\* Calls that are appended are asked for, and the earlier ones still are.
LEMMA AskedConcat ==
    ASSUME NEW v \in Seq(Request), NEW w \in Seq(Request), NEW p,
           Asked(v, p) \/ Asked(w, p)
    PROVE  Asked(v \o w, p)
<1>0. /\ DOMAIN v = 1 .. Len(v) /\ DOMAIN w = 1 .. Len(w)
      /\ DOMAIN (v \o w) = 1 .. Len(v) + Len(w)
      /\ Len(v) \in Nat /\ Len(w) \in Nat
  OBVIOUS
<1>1. CASE Asked(v, p)
  <2>1. PICK i \in 1 .. Len(v) : p \in RequestPaths(v[i])
    BY <1>0, <1>1 DEF Asked
  <2>2. i \in DOMAIN (v \o w) /\ (v \o w)[i] = v[i]
    BY <1>0
  <2> QED
    BY <2>1, <2>2 DEF Asked
<1>2. CASE Asked(w, p)
  <2>1. PICK i \in 1 .. Len(w) : p \in RequestPaths(w[i])
    BY <1>0, <1>2 DEF Asked
  <2>2. Len(v) + i \in DOMAIN (v \o w) /\ (v \o w)[Len(v) + i] = w[i]
    BY <1>0
  <2> QED
    BY <2>1, <2>2 DEF Asked
<1> QED
  BY <1>1, <1>2

\* A delivered call leaves the others.
LEMMA AskedTail ==
    ASSUME NEW w \in Seq(Request), w # << >>, NEW p, Asked(w, p)
    PROVE  p \in RequestPaths(Head(w)) \/ Asked(Tail(w), p)
<1>0. /\ DOMAIN w = 1 .. Len(w) /\ Len(w) \in Nat
      /\ DOMAIN Tail(w) = 1 .. Len(w) - 1
      /\ Head(w) = w[1]
  OBVIOUS
<1>1. PICK i \in 1 .. Len(w) : p \in RequestPaths(w[i])
  BY <1>0 DEF Asked
<1>2. CASE i = 1
  BY <1>0, <1>1, <1>2
<1>3. CASE i # 1
  <2>1. i - 1 \in DOMAIN Tail(w) /\ Tail(w)[i - 1] = w[i]
    BY <1>0, <1>3
  <2> QED
    BY <1>1, <2>1 DEF Asked
<1> QED
  BY <1>2, <1>3

\* The calls for a batch name every file of the batch.
LEMMA AskedBatch ==
    ASSUME NEW changed \in SUBSET Paths, NEW deleted \in SUBSET DeletePaths,
           NEW p \in changed \cup deleted
    PROVE  /\ BatchCalls(changed, deleted) \in Seq(Request)
           /\ Asked(BatchCalls(changed, deleted), p)
<1> DEFINE first == [full |-> FALSE, uris |-> changed \ deleted, deletes |-> deleted]
           again == [full |-> FALSE, uris |-> changed \cap deleted, deletes |-> {}]
<1>1. /\ first \in Request /\ again \in Request
      /\ RequestPaths(first) = changed \cup deleted
  BY DEF Request, RequestPaths
<1>2. BatchCalls(changed, deleted)
        = <<first>> \o IF changed \cap deleted = {} THEN << >> ELSE <<again>>
  BY DEF BatchCalls
<1> HIDE DEF first, again
<1>3. <<first>> \in Seq(Request) /\ <<again>> \in Seq(Request) /\ << >> \in Seq(Request)
  BY <1>1
<1>4. Asked(<<first>>, p)
  <2>1. 1 \in DOMAIN <<first>> /\ <<first>>[1] = first
    OBVIOUS
  <2> QED
    BY <1>1, <2>1 DEF Asked
<1>5. /\ Asked(<<first>> \o << >>, p) /\ Asked(<<first>> \o <<again>>, p)
  BY <1>3, <1>4, AskedConcat
<1>6. /\ <<first>> \o << >> \in Seq(Request)
      /\ <<first>> \o <<again>> \in Seq(Request)
  BY <1>3
<1> QED
  BY <1>2, <1>5, <1>6

-----------------------------------------------------------------------------
(***************************************************************************)
(* The jobs and the retry timers                                           *)
(***************************************************************************)

\* A job that is admitted, or past its scan, has read nothing.
LEMMA NewJobShaped ==
    ASSUME NEW r
    PROVE  ShapedJob(NewJob(r))
BY DEF ShapedJob, NewJob

\* So scheduleWorkspaceScan keeps the jobs in shape,
LEMMA ScheduleShaped ==
    ASSUME NEW s \in ScanMaps, NEW r, NEW a, Shaped(s)
    PROVE  Shaped(scheduleWorkspaceScan(s, r, a))
<1>1. \/ scheduleWorkspaceScan(s, r, a).jobs = s.jobs
      \/ scheduleWorkspaceScan(s, r, a).jobs = s.jobs \cup {NewJob(r)}
  BY DEF scheduleWorkspaceScan, ScanMaps
<1> QED
  BY <1>1, NewJobShaped DEF Shaped

\* and so does a dispatch,
LEMMA DispatchShaped ==
    ASSUME NEW s \in ScanMaps, NEW b \in ScanRequestBuffer, Shaped(s)
    PROVE  Shaped(Dispatch(s, b))
<1> DEFINE later == [createScanRequestBuffer EXCEPT !.uris = b.presences]
           parked == IF b.presences = {} THEN s ELSE [s EXCEPT !.pending = later]
           both == [full |-> FALSE, uris |-> b.uris, deletes |-> b.deletes]
           only == [full |-> FALSE, uris |-> b.uris, deletes |-> {}]
<1>1. later \in ScanRequestBuffer
  BY DEF createScanRequestBuffer, ScanRequestBuffer
<1>2. parked \in ScanMaps /\ parked.jobs = s.jobs
  BY <1>1 DEF ScanMaps
<1>3. \/ Dispatch(s, b) = scheduleWorkspaceScan(s, FullRequest, FALSE)
      \/ Dispatch(s, b) = scheduleWorkspaceScan(parked, both, FALSE)
      \/ Dispatch(s, b) = scheduleWorkspaceScan(s, only, FALSE)
  BY DEF Dispatch
<1> HIDE DEF parked, both, only
<1>4. Shaped(parked)
  BY <1>2 DEF Shaped
<1>5. /\ Shaped(scheduleWorkspaceScan(s, FullRequest, FALSE))
      /\ Shaped(scheduleWorkspaceScan(parked, both, FALSE))
      /\ Shaped(scheduleWorkspaceScan(s, only, FALSE))
  BY <1>2, <1>4, ScheduleShaped
<1> QED
  BY <1>3, <1>5

\* and so does the finally block.
LEMMA FinallyShaped ==
    ASSUME TypeOK, Shaped(scans), NEW j, Finally(j)
    PROVE  Shaped(scans')
<1> DEFINE free == [scans EXCEPT !.inFlight = FALSE, !.deletePhase = FALSE,
                                 !.pending = None, !.jobs = @ \ {j}]
<1>1. free \in ScanMaps /\ free.jobs = scans.jobs \ {j}
  BY DEF TypeOK, ScanMaps
<1>2. Shaped(free)
  BY <1>1 DEF Shaped
<1>3. CASE scans.pending = None
  BY <1>2, <1>3 DEF Finally
<1>4. CASE scans.pending # None
  <2>1. scans.pending \in ScanRequestBuffer
    BY <1>4 DEF TypeOK, ScanMaps
  <2>2. scans' = Dispatch(free, scans.pending)
    BY <1>4 DEF Finally
  <2> HIDE DEF free
  <2> QED
    BY <1>1, <1>2, <2>1, <2>2, DispatchShaped
<1> QED
  BY <1>3, <1>4

\* A step of one job is a matter of the job's new shape.
LEMMA AdvanceShaped ==
    ASSUME TypeOK, Shaped(scans), NEW j, NEW k, Advance(j, k), ShapedJob(k)
    PROVE  Shaped(scans')
<1>1. scans'.jobs = (scans.jobs \ {j}) \cup {k}
  BY DEF TypeOK, Advance, ScanMaps
<1> QED
  BY <1>1 DEF Shaped

\* A job past its scan has read nothing.
LEMMA PastShaped ==
    ASSUME NEW j, NEW phase \in {"published", "settling"}
    PROVE  ShapedJob(Past(j, phase))
BY DEF ShapedJob, Past, NewJob

\* Every step keeps the jobs in shape.
LEMMA ShapedStep ==
    ASSUME TypeOK, Shaped(scans), [Next]_vars
    PROVE  Shaped(scans')
<1>0. scans \in ScanMaps
  BY DEF TypeOK
<1>1. ASSUME NEW written, Write(written)
      PROVE  Shaped(scans')
  <2> DEFINE f(j) == [j EXCEPT !.seen = @ \ written]
  <2>1. scans'.jobs = {f(j) : j \in scans.jobs}
    BY <1>0, <1>1 DEF Write, ScanMaps
  <2>2. \A j \in scans.jobs : /\ f(j).phase = j.phase /\ f(j).scope = j.scope
                             /\ f(j).todo = j.todo /\ f(j).seen = j.seen \ written
    BY <1>0 DEF ScanMaps, Job
  <2> HIDE DEF f
  <2>3. \A j \in scans.jobs : ShapedJob(f(j))
    BY <2>2 DEF Shaped, ShapedJob
  <2> QED
    BY <2>1, <2>3 DEF Shaped
<1>2. CASE \/ \E changed \in SUBSET Paths, deleted \in SUBSET DeletePaths :
                FileChange(changed, deleted)
           \/ UnsafeChange
           \/ \E p \in Paths : UnreportedChange(p)
  BY <1>1, <1>2 DEF FileChange, UnsafeChange, UnreportedChange
<1>3. CASE OnReconcile
  BY <1>0, <1>3, ScheduleShaped DEF OnReconcile
<1>4. CASE flushScanAggregation
  <2> DEFINE s == [scans EXCEPT !.buffer = None]
  <2>1. scans.buffer \in ScanRequestBuffer /\ s \in ScanMaps /\ s.jobs = scans.jobs
    BY <1>0, <1>4 DEF flushScanAggregation, ScanMaps
  <2>2. scans' = Dispatch(s, scans.buffer)
    BY <1>4 DEF flushScanAggregation
  <2> HIDE DEF s
  <2>3. Shaped(s)
    BY <2>1 DEF Shaped
  <2> QED
    BY <2>1, <2>2, <2>3, DispatchShaped
<1>5. CASE Sweep
  BY <1>0, <1>5, ScheduleShaped DEF Sweep
<1>6. ASSUME NEW full \in BOOLEAN, Reindex(full)
      PROVE  Shaped(scans')
  BY <1>0, <1>6, ScheduleShaped DEF Reindex
<1>7. CASE Configure
  BY <1>0, <1>7, ScheduleShaped DEF Configure
<1>8. ASSUME NEW r \in Request, RetryFires(r)
      PROVE  Shaped(scans')
  <2>1. scans' = scheduleWorkspaceScan(scans, r, FALSE)
    BY <1>8 DEF RetryFires
  <2> QED
    BY <1>0, <2>1, ScheduleShaped
<1>9. CASE Remove
  BY <1>9 DEF Remove
<1>10. ASSUME NEW j \in scans.jobs, JobStep(j)
       PROVE  Shaped(scans')
  <2>0. j \in Job /\ ShapedJob(j)
    BY <1>0 DEF ScanMaps, Shaped
  <2>1. CASE JobSkip(j) \/ Settle(j)
    BY <2>1, FinallyShaped DEF JobSkip, Settle
  <2>2. CASE JobStart(j)
    <3>1. ShapedJob([j EXCEPT !.phase = "opening"])
      BY <2>0, <2>2 DEF JobStart, Job, ShapedJob
    <3> QED
      BY <2>2, <3>1, AdvanceShaped DEF JobStart
  <2>3. CASE selectV4ScanScope(j)
    <3>1. ShapedJob(Walking(j))
      BY <2>0, <2>3 DEF selectV4ScanScope, Walking, Job, ShapedJob
    <3> QED
      BY <2>3, <3>1, AdvanceShaped, PastShaped DEF selectV4ScanScope
  <2>4. ASSUME NEW p \in Paths, Observe(j, p)
        PROVE  Shaped(scans')
    <3> DEFINE k == [j EXCEPT !.todo = @ \ {p}, !.seen = @ \cup {p}]
    <3>1. ShapedJob(k)
      BY <2>0, <2>4 DEF Observe, Job, ShapedJob
    <3>2. Advance(j, k)
      BY <2>4 DEF Observe
    <3> HIDE DEF k
    <3> QED
      BY <3>1, <3>2, AdvanceShaped
  <2>5. CASE Publish(j)
    BY <2>5, AdvanceShaped, PastShaped DEF Publish
  <2>6. CASE Complete(j)
    BY <2>6, AdvanceShaped, PastShaped DEF Complete
  <2> QED
    BY <1>10, <2>1, <2>2, <2>3, <2>4, <2>5, <2>6 DEF JobStep
<1>11. ASSUME NEW j \in scans.jobs, Fails(j)
       PROVE  Shaped(scans')
  <2>1. CASE FailOutdated(j)
    <3>1. scans'.jobs = (scans.jobs \ {j}) \cup {Past(j, "settling")}
      BY <1>0, <2>1 DEF FailOutdated, ScanMaps
    <3> QED
      BY <3>1, PastShaped DEF Shaped
  <2>2. CASE FailBusy(j)
    BY <2>2, AdvanceShaped, PastShaped DEF FailBusy
  <2>3. CASE FailTerminally(j)
    BY <2>3, AdvanceShaped, PastShaped DEF FailTerminally
  <2> QED
    BY <1>11, <2>1, <2>2, <2>3 DEF Fails
<1>12. CASE Crash
  BY <1>12 DEF Crash, NoScans, Shaped
<1>13. CASE Restart
  BY <1>0, <1>13, ScheduleShaped DEF Restart
<1>14. CASE UNCHANGED vars
  BY <1>14 DEF vars
<1>15. CASE WorkspaceConfigure
  BY <1>15 DEF WorkspaceConfigure
<1>16. CASE RestartOutdated
  BY <1>0, <1>16, ScheduleShaped DEF RestartOutdated
<1>17. CASE RestartDegrades
  BY <1>17 DEF RestartDegrades
<1> QED
  BY <1>2, <1>3, <1>4, <1>5, <1>6, <1>7, <1>8, <1>9, <1>10, <1>11, <1>12,
     <1>13, <1>14, <1>15, <1>16, <1>17 DEF Next

\* A retry timer is armed by a busy deferral only.
TimerInv == "busy" \notin incidents => retryTimers = {}

\* Every step keeps TimerInv; no step takes an incident back, or a removed
\* workspace out of its state.
LEMMA StepKeeps ==
    ASSUME TypeOK, TimerInv, [Next]_vars
    PROVE  /\ TimerInv'
           /\ incidents \subseteq incidents'
           /\ status = "removed" => status' = "removed"
<1>1. CASE \/ \E changed \in SUBSET Paths, deleted \in SUBSET DeletePaths :
                FileChange(changed, deleted)
           \/ UnsafeChange
           \/ \E p \in Paths : UnreportedChange(p)
  BY <1>1 DEF FileChange, UnsafeChange, UnreportedChange, retries, registry, TimerInv
<1>2. CASE OnReconcile
  BY <1>2 DEF OnReconcile, Reopened, retries, TimerInv
<1>3. CASE flushScanAggregation
  BY <1>3 DEF flushScanAggregation, retries, registry, TimerInv
<1>4. CASE Sweep \/ Configure \/ \E full \in BOOLEAN : Reindex(full)
  BY <1>4 DEF Sweep, Configure, Reindex, retries, TimerInv
<1>5. ASSUME NEW r \in Request, RetryFires(r)
      PROVE  /\ TimerInv'
             /\ incidents \subseteq incidents'
             /\ status = "removed" => status' = "removed"
  <2>1. /\ r \in retryTimers /\ incidents' = incidents /\ status' = status
    BY <1>5 DEF RetryFires, registry
  <2> QED
    BY <2>1 DEF TimerInv
<1>6. CASE Remove
  BY <1>6 DEF Remove, retries, TimerInv
<1>7. ASSUME NEW j \in scans.jobs, Finally(j)
      PROVE  /\ incidents \subseteq incidents'
             /\ status = "removed" => status' = "removed"
  BY <1>7 DEF Finally, Reopened
<1>8. ASSUME NEW j \in scans.jobs, JobStep(j)
      PROVE  /\ TimerInv'
             /\ incidents \subseteq incidents'
             /\ status = "removed" => status' = "removed"
  <2>1. CASE JobSkip(j) \/ Settle(j)
    BY <1>7, <2>1 DEF JobSkip, Settle, retries, TimerInv
  <2>2. CASE JobStart(j) \/ selectV4ScanScope(j) \/ \E p \in Paths : Observe(j, p)
    BY <2>2 DEF JobStart, selectV4ScanScope, Observe, retries, registry, TimerInv
  <2>3. CASE Publish(j) \/ Complete(j)
    BY <2>3 DEF Publish, Complete, retries, registry, TimerInv
  <2> QED
    BY <1>8, <2>1, <2>2, <2>3 DEF JobStep
<1>9. ASSUME NEW j \in scans.jobs, Fails(j)
      PROVE  /\ TimerInv'
             /\ incidents \subseteq incidents'
             /\ status = "removed" => status' = "removed"
  <2>1. CASE FailOutdated(j)
    BY <2>1 DEF FailOutdated, retries, registry, TimerInv
  <2>2. CASE FailBusy(j)
    BY <2>2 DEF FailBusy, registry, TimerInv
  <2>3. CASE FailTerminally(j)
    BY <2>3 DEF FailTerminally, registry, TimerInv
  <2> QED
    BY <1>9, <2>1, <2>2, <2>3 DEF Fails
<1>10. CASE Crash
  BY <1>10 DEF Crash, registry, TimerInv
<1>11. CASE Restart
  BY <1>11 DEF Restart, retries, registry, TimerInv
<1>12. CASE UNCHANGED vars
  BY <1>12 DEF vars, TimerInv
<1>13. CASE WorkspaceConfigure \/ RestartOutdated \/ RestartDegrades
  BY <1>13 DEF WorkspaceConfigure, RestartOutdated, RestartDegrades, retries, TimerInv
<1> QED
  BY <1>1, <1>2, <1>3, <1>4, <1>5, <1>6, <1>8, <1>9, <1>10, <1>11, <1>12,
     <1>13 DEF Next

-----------------------------------------------------------------------------
(***************************************************************************)
(* Every step keeps CoverInv                                               *)
(***************************************************************************)

\* A write to other files changes nothing for file p.
LEMMA WriteCover ==
    ASSUME TypeOK, NEW written, Write(written), NEW p \in Paths, p \notin written,
           NEW ix \in BOOLEAN
    PROVE  /\ p \in behind' => p \in behind
           /\ Scoped(scans', p) => Scoped(scans, p)
           /\ MapsCover(scans, ix, p) => MapsCover(scans', ix, p)
<1> DEFINE f(j) == [j EXCEPT !.seen = @ \ written]
<1>0. scans \in ScanMaps
  BY DEF TypeOK
<1>1. /\ scans'.jobs = {f(j) : j \in scans.jobs}
      /\ scans'.pending = scans.pending /\ scans'.buffer = scans.buffer
      /\ scans'.inFlight = scans.inFlight
  BY <1>0 DEF Write, ScanMaps
<1>2. \A j \in scans.jobs :
        /\ f(j).phase = j.phase /\ f(j).scope = j.scope /\ f(j).req = j.req
        /\ f(j).todo = j.todo /\ f(j).seen = j.seen \ written
  BY <1>0 DEF ScanMaps, Job
<1> HIDE DEF f
<1>3. Scoped(scans', p) => Scoped(scans, p)
  BY SMTT(20), <1>1, <1>2 DEF Scoped, Late
<1>4. \A j \in scans.jobs : JobReads(j, ix, p) => JobReads(f(j), ix, p)
  BY <1>2 DEF JobReads
<1>5. MapsCover(scans, ix, p) => MapsCover(scans', ix, p)
  BY <1>1, <1>4 DEF MapsCover
<1> QED
  BY <1>3, <1>5 DEF Write

\* A workspace that is indexing covers more than one that is not.
LEMMA IndexingCovers ==
    ASSUME NEW s, NEW ix \in BOOLEAN, NEW p, MapsCover(s, ix, p)
    PROVE  MapsCover(s, TRUE, p)
BY DEF MapsCover, JobReads

\* A step of the job covers p when the job goes on reading p. The status may
\* change: the buffer does not count while the job is in flight.
LEMMA AdvanceCover ==
    ASSUME TypeOK, Coherent(scans), NEW j \in scans.jobs, NEW k, Advance(j, k),
           NEW ix \in BOOLEAN, NEW after \in BOOLEAN, NEW p,
           MapsCover(scans, ix, p), JobReads(j, ix, p) => JobReads(k, after, p)
    PROVE  MapsCover(scans', after, p)
<1>1. scans.jobs = {j} /\ scans.inFlight
  BY DEF Coherent, JobsCoherent
<1>2. scans'.jobs = (scans.jobs \ {j}) \cup {k} /\ scans'.pending = scans.pending
  BY DEF TypeOK, Advance, ScanMaps
<1> QED
  BY <1>1, <1>2 DEF MapsCover

\* The scope under way after that step is the job's.
LEMMA AdvanceScoped ==
    ASSUME TypeOK, Coherent(scans), NEW j \in scans.jobs, NEW k, Advance(j, k), NEW p
    PROVE  /\ Scoped(scans', p) <=> k.phase = "walking" /\ p \in k.scope
           /\ Scoped(scans, p) <=> j.phase = "walking" /\ p \in j.scope
<1>1. scans.jobs = {j}
  BY DEF Coherent, JobsCoherent
<1>2. scans'.jobs = (scans.jobs \ {j}) \cup {k}
  BY DEF TypeOK, Advance, ScanMaps
<1> QED
  BY <1>1, <1>2 DEF Scoped, Late

\* The finally block of a job that does not read p hands the pending request
\* on to a scan: the workspace is indexing again.
LEMMA FinallyCover ==
    ASSUME TypeOK, Coherent(scans), NEW j \in scans.jobs, Finally(j), Clean',
           status # "removed", NEW ix \in BOOLEAN, NEW p \in Paths,
           MapsCover(scans, ix, p), ~JobReads(j, ix, p)
    PROVE  status' = "indexing" /\ MapsCover(scans', TRUE, p)
<1> DEFINE free == [scans EXCEPT !.inFlight = FALSE, !.deletePhase = FALSE,
                                 !.pending = None, !.jobs = @ \ {j}]
<1>1. scans.jobs = {j} /\ scans.inFlight
  BY DEF Coherent, JobsCoherent
<1>2. p \in BufferPaths(scans.pending)
  BY <1>1 DEF MapsCover
<1>3. scans.pending # None
  BY <1>2 DEF BufferPaths
<1>4. scans.pending \in ScanRequestBuffer /\ free \in ScanMaps
  BY <1>3 DEF TypeOK, ScanMaps
<1>5. /\ scans' = Dispatch(free, scans.pending) /\ status' = "indexing"
      /\ incidents' = incidents \cup DispatchIncident(free, scans.pending)
  BY <1>3 DEF Finally, Reopened
<1> HIDE DEF free
<1>6. "dropped" \notin DispatchIncident(free, scans.pending)
  BY <1>5 DEF Clean
<1> QED
  BY <1>2, <1>4, <1>5, <1>6, DispatchCovers

\* A request for every file covers p.
LEMMA FullCovers ==
    ASSUME NEW s \in ScanMaps, NEW p \in Paths
    PROVE  MapsCover(scheduleWorkspaceScan(s, FullRequest, FALSE), TRUE, p)
<1>1. p \in RequestPaths(FullRequest)
  BY DEF RequestPaths, FullRequest
<1> QED
  BY <1>1, FullTypes, ScheduleCovers

\* Every step keeps CoverInv.
LEMMA CoverStep ==
    ASSUME TypeOK, Coherent(scans), Shaped(scans), TimerInv, CoverInv, [Next]_vars
    PROVE  CoverInv'
<1> SUFFICES ASSUME Clean', status' # "removed", NEW p \in Paths,
                    p \in behind' \/ Scoped(scans', p)
             PROVE  Covered(p)'
  BY DEF CoverInv
<1> DEFINE ix == status = "indexing"
<1>0. /\ scans \in ScanMaps /\ ix \in BOOLEAN
      /\ Clean /\ status # "removed"
  BY StepKeeps DEF TypeOK, Clean
<1>1. p \in behind \/ Scoped(scans, p) => Covered(p)
  BY <1>0 DEF CoverInv
<1>2. ASSUME NEW changed \in SUBSET Paths, NEW deleted \in SUBSET DeletePaths,
             FileChange(changed, deleted)
      PROVE  Covered(p)'
  <2> DEFINE calls == BatchCalls(changed, deleted)
  <2>1. /\ Write(changed \cup deleted) /\ watch' = watch \o calls
        /\ unseen' = unseen \ (changed \cup deleted) /\ up' = up /\ status' = status
        /\ watch \in Seq(Request)
    BY <1>2 DEF FileChange, registry, TypeOK
  <2>2. PICK q : q \in changed \cup deleted
    BY <1>2 DEF FileChange
  <2>3. calls \in Seq(Request)
    BY <2>2, AskedBatch
  <2>4. CASE p \in changed \cup deleted
    <3>1. Asked(calls, p)
      BY <2>4, AskedBatch
    <3> HIDE DEF calls
    <3>2. Asked(watch', p)
      BY <2>1, <2>3, <3>1, AskedConcat
    <3> QED
      BY <3>2 DEF Covered
  <2>5. CASE p \notin changed \cup deleted
    <3> HIDE DEF calls
    <3>1. Asked(watch, p) => Asked(watch', p)
      BY <2>1, <2>3, AskedConcat
    <3>2. /\ p \in behind \/ Scoped(scans, p)
          /\ MapsCover(scans, ix, p) => MapsCover(scans', ix, p)
      BY <1>0, <2>1, <2>5, WriteCover
    <3> QED
      BY <1>1, <2>1, <2>5, <3>1, <3>2 DEF Covered
  <2> QED
    BY <2>4, <2>5
<1>3. CASE UnsafeChange
  <2>1. watch' = watch \o <<FullRequest>> /\ watch \in Seq(Request)
    BY <1>3, FullTypes DEF UnsafeChange, TypeOK
  <2>2. <<FullRequest>> \in Seq(Request)
    BY FullTypes
  <2>3. Asked(<<FullRequest>>, p)
    <3>1. 1 \in DOMAIN <<FullRequest>> /\ <<FullRequest>>[1] = FullRequest
      OBVIOUS
    <3>2. p \in RequestPaths(FullRequest)
      BY DEF RequestPaths, FullRequest
    <3> QED
      BY <3>1, <3>2 DEF Asked
  <2>4. Asked(watch', p)
    BY <2>1, <2>2, <2>3, AskedConcat
  <2> QED
    BY <2>4 DEF Covered
<1>4. ASSUME NEW q \in Paths, UnreportedChange(q)
      PROVE  Covered(p)'
  <2>1. /\ Write({q}) /\ watch' = watch /\ up' = up /\ status' = status
        /\ unseen' = unseen \cup {q}
    BY <1>4 DEF UnreportedChange, registry
  <2>2. CASE p = q
    BY <2>1, <2>2 DEF Covered
  <2>3. CASE p # q
    <3>0. p \notin {q}
      BY <2>3
    <3>1. /\ p \in behind \/ Scoped(scans, p)
          /\ MapsCover(scans, ix, p) => MapsCover(scans', ix, p)
      BY <1>0, <2>1, <3>0, WriteCover
    <3> QED
      BY <1>1, <2>1, <3>1 DEF Covered
  <2> QED
    BY <2>2, <2>3
<1>5. CASE OnReconcile
  <2>1. /\ up /\ watch # << >> /\ watch' = Tail(watch) /\ status' = "indexing"
        /\ scans' = scheduleWorkspaceScan(scans, Head(watch), TRUE)
        /\ behind' = behind /\ unseen' = unseen
        /\ watch \in Seq(Request) /\ Head(watch) \in Request
    BY <1>0, <1>5 DEF OnReconcile, Reopened, TypeOK
  <2>2. p \in behind \/ Scoped(scans, p)
    BY <1>0, <2>1, ScheduleLate DEF Scoped
  <2>3. CASE Asked(watch, p)
    <3>1. p \in RequestPaths(Head(watch)) \/ Asked(watch', p)
      BY <2>1, <2>3, AskedTail
    <3>2. p \in RequestPaths(Head(watch)) => MapsCover(scans', TRUE, p)
      BY <1>0, <2>1, ScheduleCovers
    <3> QED
      BY <2>1, <3>1, <3>2 DEF Covered
  <2>4. CASE MapsCover(scans, ix, p)
    <3>1. MapsCover(scans, TRUE, p)
      BY <1>0, <2>4, IndexingCovers
    <3>2. MapsCover(scans', TRUE, p)
      BY <1>0, <2>1, <3>1, ScheduleKeeps
    <3> QED
      BY <2>1, <3>2 DEF Covered
  <2>5. CASE p \in unseen
    BY <2>1, <2>5 DEF Covered
  <2> QED
    BY <1>1, <2>1, <2>2, <2>3, <2>4, <2>5 DEF Covered
<1>6. CASE flushScanAggregation
  <2> DEFINE s == [scans EXCEPT !.buffer = None]
  <2>1. /\ scans.buffer \in ScanRequestBuffer /\ s \in ScanMaps
        /\ s.jobs = scans.jobs /\ s.pending = scans.pending
        /\ s.inFlight = scans.inFlight /\ s.buffer = None
    BY <1>0, <1>6 DEF flushScanAggregation, ScanMaps
  <2>2. /\ scans' = Dispatch(s, scans.buffer) /\ status' = status /\ watch' = watch
        /\ unseen' = unseen /\ up' = up /\ behind' = behind
        /\ incidents' = incidents \cup DispatchIncident(scans, scans.buffer)
    BY <1>6 DEF flushScanAggregation, registry
  <2> HIDE DEF s
  <2>3. "dropped" \notin DispatchIncident(s, scans.buffer)
    BY <2>1, <2>2 DEF Clean, DispatchIncident
  <2>4. p \in behind \/ Scoped(scans, p)
    BY <2>1, <2>2, DispatchLate DEF Scoped, Late
  <2>5. ASSUME MapsCover(scans, ix, p)
        PROVE  MapsCover(scans', ix, p)
    <3>1. CASE MapsCover(s, ix, p)
      BY <1>0, <2>1, <2>2, <2>3, <3>1, DispatchKeeps
    <3>2. CASE ix /\ p \in BufferPaths(scans.buffer)
      <4>1. MapsCover(scans', TRUE, p)
        BY <2>1, <2>2, <2>3, <3>2, DispatchCovers
      <4> QED
        BY <3>2, <4>1
    <3> QED
      BY <2>1, <2>5, <3>1, <3>2 DEF MapsCover
  <2> QED
    BY <1>1, <2>2, <2>4, <2>5 DEF Covered
<1>7. CASE Sweep \/ Configure \/ RestartOutdated
  <2>1. scans' = scheduleWorkspaceScan(scans, FullRequest, FALSE) /\ status' = "indexing"
    BY <1>7 DEF Sweep, Configure, RestartOutdated
  <2> QED
    BY <1>0, <2>1, FullCovers DEF Covered
<1>8. ASSUME NEW full \in BOOLEAN, Reindex(full)
      PROVE  Covered(p)'
  <2>1. CASE status = "indexing"
    BY <1>1, <1>8, <2>1 DEF Reindex, Covered
  <2>2. CASE status # "indexing"
    <3>1. scans' = scheduleWorkspaceScan(scans, FullRequest, FALSE) /\ status' = "indexing"
      BY <1>8, <2>2 DEF Reindex
    <3> QED
      BY <1>0, <3>1, FullCovers DEF Covered
  <2> QED
    BY <2>1, <2>2
<1>9. ASSUME NEW r \in Request, RetryFires(r)
      PROVE  FALSE
  BY <1>0, <1>9 DEF RetryFires, TimerInv, Clean
<1>10. CASE Remove
  BY <1>10 DEF Remove
<1>11. ASSUME NEW j \in scans.jobs, JobStep(j)
       PROVE  Covered(p)'
  <2>0. /\ j \in Job /\ ShapedJob(j)
        /\ Past(j, "settling").phase = "settling"
        /\ Past(j, "published").phase = "published"
    BY <1>0, PastRequest DEF ScanMaps, Shaped
  <2>1. CASE JobSkip(j) \/ Settle(j)
    <3>1. /\ Finally(j) /\ j.phase \in {"queued", "settling"}
          /\ j.phase = "queued" => ~ix
          /\ up /\ watch' = watch /\ unseen' = unseen /\ behind' = behind /\ up' = up
      BY <2>1 DEF JobSkip, Settle
    <3>2. p \in behind \/ Scoped(scans, p)
      BY <3>1, FinallyLate DEF Scoped
    <3>3. ~JobReads(j, ix, p)
      BY <3>1 DEF JobReads
    <3>4. MapsCover(scans, ix, p) => status' = "indexing" /\ MapsCover(scans', TRUE, p)
      BY <1>0, <3>1, <3>3, FinallyCover
    <3> QED
      BY <1>1, <3>1, <3>2, <3>4 DEF Covered
  <2>2. CASE JobStart(j)
    <3> DEFINE k == [j EXCEPT !.phase = "opening"]
    <3>1. k.phase = "opening" /\ k.req = j.req
      BY <2>0 DEF Job
    <3>2. /\ Advance(j, k) /\ j.phase = "queued" /\ watch' = watch /\ unseen' = unseen
          /\ behind' = behind /\ up' = up /\ status' = status
      BY <2>2 DEF JobStart, registry
    <3> HIDE DEF k
    <3>3. p \in behind
      BY <3>1, <3>2, AdvanceScoped
    <3>4. JobReads(j, ix, p) => JobReads(k, ix, p)
      BY <3>1, <3>2 DEF JobReads
    <3>5. MapsCover(scans, ix, p) => MapsCover(scans', ix, p)
      BY <1>0, <3>2, <3>4, AdvanceCover
    <3> QED
      BY <1>1, <3>2, <3>3, <3>5 DEF Covered
  <2>3. CASE selectV4ScanScope(j) /\ EmptyScope(j.req)
    <3>1. /\ Advance(j, Past(j, "settling")) /\ j.phase = "opening" /\ watch' = watch
          /\ unseen' = unseen /\ behind' = behind /\ up' = up /\ status' = status
      BY <2>3 DEF selectV4ScanScope, registry
    <3>2. p \in behind
      BY <2>0, <3>1, AdvanceScoped
    <3>3. ~JobReads(j, ix, p)
      BY <2>3, <3>1 DEF EmptyScope, JobReads
    <3>4. MapsCover(scans, ix, p) => MapsCover(scans', ix, p)
      BY <1>0, <3>1, <3>3, AdvanceCover
    <3> QED
      BY <1>1, <3>1, <3>2, <3>4 DEF Covered
  <2>4. CASE selectV4ScanScope(j) /\ ~EmptyScope(j.req)
    <3> DEFINE k == Walking(j)
    <3>1. /\ k.phase = "walking" /\ k.todo = k.scope
          /\ p \in RequestPaths(j.req) => p \in k.scope
      BY <2>0 DEF Walking, Job
    <3>2. /\ Advance(j, k) /\ j.phase = "opening" /\ watch' = watch
          /\ unseen' = unseen /\ behind' = behind /\ up' = up /\ status' = status
      BY <2>4 DEF selectV4ScanScope, registry
    <3> HIDE DEF k
    <3>3. CASE p \in k.scope
      <4>1. JobReads(k, ix, p)
        BY <3>1, <3>3 DEF JobReads
      <4>2. k \in scans'.jobs
        BY <1>0, <3>2 DEF Advance, ScanMaps
      <4>3. MapsCover(scans', ix, p)
        BY <4>1, <4>2 DEF MapsCover
      <4> QED
        BY <3>2, <4>3 DEF Covered
    <3>4. CASE p \notin k.scope
      <4>1. p \in behind
        BY <3>2, <3>4, AdvanceScoped
      <4>2. ~JobReads(j, ix, p)
        BY <3>1, <3>2, <3>4 DEF JobReads
      <4>3. MapsCover(scans, ix, p) => MapsCover(scans', ix, p)
        BY <1>0, <3>2, <4>2, AdvanceCover
      <4> QED
        BY <1>1, <3>2, <4>1, <4>3 DEF Covered
    <3> QED
      BY <3>3, <3>4
  <2>5. ASSUME NEW q \in Paths, Observe(j, q)
        PROVE  Covered(p)'
    <3> DEFINE k == [j EXCEPT !.todo = @ \ {q}, !.seen = @ \cup {q}]
    <3>1. /\ k.phase = j.phase /\ k.scope = j.scope
          /\ k.todo = j.todo \ {q} /\ k.seen = j.seen \cup {q}
      BY <2>0 DEF Job
    <3>2. /\ Advance(j, k) /\ j.phase = "walking" /\ watch' = watch
          /\ unseen' = unseen /\ behind' = behind /\ up' = up /\ status' = status
      BY <2>5 DEF Observe, registry
    <3> HIDE DEF k
    <3>3. p \in behind \/ Scoped(scans, p)
      BY <3>1, <3>2, AdvanceScoped
    <3>4. JobReads(j, ix, p) => JobReads(k, ix, p)
      BY <3>1, <3>2 DEF JobReads
    <3>5. MapsCover(scans, ix, p) => MapsCover(scans', ix, p)
      BY <1>0, <3>2, <3>4, AdvanceCover
    <3> QED
      BY <1>1, <3>2, <3>3, <3>5 DEF Covered
  <2>6. CASE Publish(j)
    <3>1. /\ Advance(j, Past(j, "published")) /\ j.phase = "walking" /\ j.todo = {}
          /\ behind' = (behind \ j.scope) \cup (j.scope \ j.seen)
          /\ unseen' = unseen \ j.seen
          /\ watch' = watch /\ up' = up /\ status' = status
      BY <2>6 DEF Publish, registry
    <3>2. p \in behind'
      BY <2>0, <3>1, AdvanceScoped
    <3>3. /\ p \notin j.seen
          /\ p \in behind \/ p \in j.scope
      BY <2>0, <3>1, <3>2 DEF ShapedJob
    <3>4. p \in behind \/ Scoped(scans, p)
      BY <3>1, <3>3, AdvanceScoped
    <3>5. ~JobReads(j, ix, p)
      BY <3>1, <3>3 DEF JobReads
    <3>6. MapsCover(scans, ix, p) => MapsCover(scans', ix, p)
      BY <1>0, <3>1, <3>5, AdvanceCover
    <3> QED
      BY <1>1, <3>1, <3>3, <3>4, <3>6 DEF Covered
  <2>7. CASE Complete(j)
    <3>1. /\ Advance(j, Past(j, "settling")) /\ j.phase = "published" /\ watch' = watch
          /\ unseen' = unseen /\ behind' = behind /\ up
      BY <2>7 DEF Complete
    <3>2. p \in behind
      BY <2>0, <3>1, AdvanceScoped
    <3>3. ~JobReads(j, ix, p) /\ (status' = "indexing") \in BOOLEAN
      BY <3>1 DEF JobReads
    <3>4. MapsCover(scans, ix, p) => MapsCover(scans', status' = "indexing", p)
      BY <1>0, <3>1, <3>3, AdvanceCover
    <3> QED
      BY <1>1, <3>1, <3>2, <3>4 DEF Covered
  <2> QED
    BY <1>11, <2>1, <2>2, <2>3, <2>4, <2>5, <2>6, <2>7 DEF JobStep
<1>12. ASSUME NEW j \in scans.jobs, Fails(j)
       PROVE  Covered(p)'
  <2>1. CASE FailOutdated(j)
    <3>1. scans'.pending = FullBuffer
      BY <1>0, <2>1 DEF FailOutdated, ScanMaps
    <3>2. FullBuffer # None /\ FullBuffer.full
      BY FullTypes, ScanAssumption DEF FullBuffer, createScanRequestBuffer
    <3>3. p \in BufferPaths(scans'.pending)
      BY <3>1, <3>2 DEF BufferPaths
    <3> QED
      BY <3>3 DEF Covered, MapsCover
  <2>2. ~FailBusy(j) /\ ~FailTerminally(j)
    BY DEF FailBusy, FailTerminally, Clean
  <2> QED
    BY <1>12, <2>1, <2>2 DEF Fails
<1>13. CASE Crash
  <2>1. ~Scoped(scans', p)
    BY <1>13 DEF Crash, NoScans, Scoped, Late
  <2> QED
    BY <1>13, <2>1 DEF Crash, registry, Covered
<1>14. CASE Restart
  <2>1. CASE status = "indexing"
    <3>1. scans' = scheduleWorkspaceScan(scans, FullRequest, FALSE) /\ status' = "indexing"
      BY <1>14, <2>1 DEF Restart, registry
    <3> QED
      BY <1>0, <3>1, FullCovers DEF Covered
  <2>2. CASE status # "indexing"
    BY <1>1, <1>14, <2>2 DEF Restart, registry, Covered
  <2> QED
    BY <2>1, <2>2
<1>15. CASE UNCHANGED vars
  BY <1>1, <1>15 DEF vars, Covered
<1>16. CASE WorkspaceConfigure
  <2>1. /\ watch' = watch /\ scans' = scans /\ behind' = behind /\ unseen' = unseen
        /\ up /\ status' = "indexing"
    BY <1>16 DEF WorkspaceConfigure
  <2>2. MapsCover(scans, ix, p) => MapsCover(scans', TRUE, p)
    BY <1>0, <2>1, IndexingCovers
  <2> QED
    BY <1>1, <2>1, <2>2 DEF Covered
<1>17. ~RestartDegrades
  BY DEF RestartDegrades, Clean
<1> QED
  BY <1>2, <1>3, <1>4, <1>5, <1>6, <1>7, <1>8, <1>9, <1>10, <1>11, <1>12, <1>13,
     <1>14, <1>15, <1>16, <1>17 DEF Next

-----------------------------------------------------------------------------
(***************************************************************************)
(* No reported change is forgotten                                         *)
(***************************************************************************)

\* What is covered is owed, or its change was not reported.
LEMMA CoverMeans == CoverInv /\ TypeOK => NoChangeLost
<1> SUFFICES ASSUME CoverInv, TypeOK, Clean, status # "removed", NEW p \in behind
             PROVE  p \in Owed \cup unseen
  BY DEF NoChangeLost, Accounted, Clean
<1> DEFINE early == {k \in scans.jobs : k.phase \in {"queued", "opening"}}
           walking == {k \in scans.jobs : k.phase = "walking"}
           called == UNION {RequestPaths(watch[i]) : i \in DOMAIN watch}
           timed == UNION {RequestPaths(r) : r \in retryTimers}
           admitted == UNION {RequestPaths(j.req) : j \in early}
           walked == UNION {j.todo \cup j.seen : j \in walking}
           restarted == IF ~up /\ status = "indexing" THEN Paths ELSE {}
<1>0. Owed = called \cup BufferPaths(scans.buffer) \cup BufferPaths(scans.pending)
             \cup timed \cup admitted \cup walked \cup restarted
  BY DEF Owed
<1>1. Covered(p) /\ p \in Paths
  BY DEF CoverInv, TypeOK
<1>2. Asked(watch, p) => p \in called
  BY DEF Asked
<1>3. ASSUME NEW j \in scans.jobs, JobReads(j, status = "indexing", p)
      PROVE  p \in admitted \cup walked
  <2>1. CASE j.phase = "walking" /\ p \in j.todo \cup j.seen
    <3>1. j \in walking
      BY <2>1
    <3>2. p \in walked
      BY <2>1, <3>1
    <3> QED
      BY <3>2
  <2>2. CASE j.phase \in {"queued", "opening"} /\ p \in RequestPaths(j.req)
    <3>1. j \in early
      BY <2>2
    <3>2. p \in admitted
      BY <2>2, <3>1
    <3> QED
      BY <3>2
  <2> QED
    BY <1>3, <2>1, <2>2 DEF JobReads
<1>4. ~up /\ status = "indexing" => p \in restarted
  BY <1>1
<1> HIDE DEF called, timed, admitted, walked, restarted
<1> QED
  BY <1>0, <1>1, <1>2, <1>3, <1>4 DEF Covered, MapsCover

\* No change that was reported is forgotten, outside the three incidents that
\* NoChangeLost names, in every reachable state: coalescing, the hand-over
\* from buffer to job to pending request, publication over files that changed
\* under the scan, crash and restart all keep it (scheduleWorkspaceScan).
THEOREM ChangesNotLost == Spec => []NoChangeLost
<1>1. Init => Shaped(scans) /\ TimerInv /\ CoverInv
  <2> SUFFICES ASSUME Init PROVE Shaped(scans) /\ TimerInv /\ CoverInv
    OBVIOUS
  <2>1. NoScans \in ScanMaps /\ Shaped(NoScans)
    BY DEF NoScans, ScanMaps, Shaped
  <2>2. scans = scheduleWorkspaceScan(NoScans, FullRequest, FALSE) /\ status = "indexing"
    BY DEF Init
  <2>3. Shaped(scans)
    BY <2>1, <2>2, ScheduleShaped
  <2>4. \A p \in Paths : Covered(p)
    BY <2>1, <2>2, FullCovers DEF Covered
  <2> QED
    BY <2>3, <2>4 DEF Init, TimerInv, CoverInv
<1>2. /\ TypeOK /\ OneScan /\ PendingHasOwner
      /\ Shaped(scans) /\ TimerInv /\ CoverInv
      /\ [Next]_vars
      => Shaped(scans)' /\ TimerInv' /\ CoverInv'
  BY CoherentMeans, ShapedStep, StepKeeps, CoverStep
<1> QED
  BY <1>1, <1>2, TypeCorrect, ScanExclusion, CoverMeans, PTL DEF Spec

=============================================================================
