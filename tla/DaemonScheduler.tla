--------------------------- MODULE DaemonScheduler ---------------------------
(***************************************************************************)
(* The work scheduler of the daemon (packages/daemon/src/scheduler.ts):    *)
(* four pools of jobs under one global limit, client quotas, publications  *)
(* serialised per workspace, cancellation, restart leases and shutdown.    *)
(* JavaScript runs each method, and each continuation of run, to its next  *)
(* await without interruption: these are the actions.                      *)
(***************************************************************************)
EXTENDS Naturals, Sequences, FiniteSets, Functions

CONSTANTS
    Jobs, Clients, Workspaces, Leases,
    Stops,                 \* calls of stop()
    None,                  \* a job without workspace; no earlier publication
    PoolOf, ClientOf,      \* of each job's request
    WorkspaceOf,
    Publishers,            \* the jobs whose request has a publish callback
    pool_concurrency, max_active, query_reserved_slots, max_in_flight

Pools == {"query", "source", "structural", "semantic"}

\* The constructor refuses other options.
ASSUME SchedulerAssumption ==
    /\ PoolOf \in [Jobs -> Pools] /\ ClientOf \in [Jobs -> Clients]
    /\ WorkspaceOf \in [Jobs -> Workspaces \cup {None}]
    /\ None \notin Jobs \cup Workspaces
    /\ Publishers \subseteq Jobs
    /\ pool_concurrency \in [Pools -> Nat \ {0}]
    /\ max_active \in Nat \ {0}
    /\ query_reserved_slots \in 0 .. max_active
    /\ max_in_flight \in [Clients -> Nat]

\* Of a job: "waiting" is a run that has returned and awaits the earlier
\* publication of its workspace.
Phases == {"new", "queued", "running", "waiting", "publishing", "settled"}

\* Of a restart lease: "lapsed" is past expires_at and still in the map.
LeaseStates == {"none", "held", "lapsed", "expired", "released"}

VARIABLES
    work,            \* queues, poolActive, and the phase of every job
    aborted,         \* jobs whose controller has been aborted
    clientInFlight,
    previous,        \* the publication a waiting job's one is chained to
    publicationTails,
    lease,
    stopping,
    stopWaiters,     \* calls of stop() that wait
    stopped          \* calls of stop() that have returned

publication == <<previous, publicationTails>>
vars == <<work, aborted, clientInFlight, previous, publicationTails, lease,
          stopping, stopWaiters, stopped>>

Active == {"running", "waiting", "publishing"}
entriesOf(w) == {j \in Jobs : w.phase[j] \in {"queued"} \cup Active}
entries == entriesOf(work)
ActiveCount(w) == w.poolActive["query"] + w.poolActive["source"]
                  + w.poolActive["structural"] + w.poolActive["semantic"]
LeaseCount(l) == Cardinality({x \in Leases : l[x] \in {"held", "lapsed"}})

-----------------------------------------------------------------------------
(***************************************************************************)
(* pump                                                                    *)
(***************************************************************************)

\* Mutant: a pool may exceed its concurrency by one.
MayStartOneMore(w, pool) ==
    /\ ActiveCount(w) < max_active
    /\ w.poolActive[pool] <= pool_concurrency[pool]
    /\ w.queues[pool] # << >>

\* Mutant: no slot is kept for a queued query.
MayStartUnreserved(w, pool) ==
    /\ ActiveCount(w) < max_active
    /\ w.poolActive[pool] < pool_concurrency[pool]
    /\ w.queues[pool] # << >>

MayStart(w, pool) ==
    /\ ActiveCount(w) < max_active
    /\ w.poolActive[pool] < pool_concurrency[pool]
    /\ pool # "query" /\ w.queues["query"] # << >>
          => ActiveCount(w) + query_reserved_slots < max_active
    /\ w.queues[pool] # << >>

StartOne(w, pool) ==
    IF MayStart(w, pool)
    THEN [queues     |-> [w.queues EXCEPT ![pool] = Tail(@)],
          poolActive |-> [w.poolActive EXCEPT ![pool] = @ + 1],
          phase      |-> [w.phase EXCEPT ![Head(w.queues[pool])] = "running"]]
    ELSE w

\* StartOne for the one element of ws (a bound variable is evaluated once).
Started(ws, pool) == {StartOne(w, pool) : w \in ws}

\* One pass over the pools, queries first.
PumpRound(w) ==
    CHOOSE r \in Started(Started(Started(Started({w}, "query"), "source"),
                                 "structural"), "semantic") : TRUE

\* The loop. Every pass but the last starts a job and a pass that starts none
\* changes nothing, so that max_active passes are enough.
pump(w) ==
    LET pass[n \in 0 .. max_active] == IF n = 0 THEN w ELSE PumpRound(pass[n - 1])
    IN  pass[max_active]

-----------------------------------------------------------------------------
(***************************************************************************)
(* settle and maybeStopResolved                                            *)
(***************************************************************************)

Settle(w, js) ==
    [w EXCEPT !.phase = [j \in Jobs |-> IF j \in js THEN "settled" ELSE @[j]]]

\* The queue q once the entries of js are spliced out.
Without(q, js) ==
    LET kept[n \in 0 .. Len(q)] ==
            IF n = 0 THEN << >>
            ELSE IF q[n] \in js THEN kept[n - 1] ELSE Append(kept[n - 1], q[n])
    IN  kept[Len(q)]

\* The queued jobs of js leave their queues and are settled.
Cancelled(w, js) ==
    Settle([w EXCEPT !.queues = [p \in Pools |-> Without(@[p], js)]], js)

Release(js) ==
    clientInFlight' = [c \in Clients |->
        clientInFlight[c] - Cardinality({j \in js : ClientOf[j] = c})]

\* expireLeases, on every read of restartLeaseCount.
expireLeases(l) == [x \in Leases |-> IF l[x] = "lapsed" THEN "expired" ELSE l[x]]

\* Mutant: leases do not hold up a stop.
MaybeStopResolvedAnyway(w, l) ==
    LET idle == stopping /\ entriesOf(w) = {}
    IN  /\ lease' = IF idle THEN expireLeases(l) ELSE l
        /\ stopWaiters' = IF idle THEN {} ELSE stopWaiters
        /\ stopped' = IF idle THEN stopped \cup stopWaiters ELSE stopped

\* The waiting stop() calls return once no entry and no lease is left. The
\* lease count, which reaps lapsed leases, is read only without entries.
maybeStopResolved(w, l) ==
    LET idle == stopping /\ entriesOf(w) = {}
        done == idle /\ LeaseCount(expireLeases(l)) = 0
    IN  /\ lease' = IF idle THEN expireLeases(l) ELSE l
        /\ stopWaiters' = IF done THEN {} ELSE stopWaiters
        /\ stopped' = IF done THEN stopped \cup stopWaiters ELSE stopped

\* Mutant: the slot is given back and nobody is started.
FinishNoPump(j) ==
    /\ work' = [Settle(work, {j}) EXCEPT !.poolActive[PoolOf[j]] = @ - 1]
    /\ Release({j})
    /\ maybeStopResolved(work', lease)

\* Mutant: the waiting stop() calls are not looked at.
FinishNoStop(j) ==
    /\ work' = pump([Settle(work, {j}) EXCEPT !.poolActive[PoolOf[j]] = @ - 1])
    /\ Release({j})
    /\ UNCHANGED <<lease, stopWaiters, stopped>>

\* The end of run: settle, then its finally block.
Finish(j) ==
    /\ work' = pump([Settle(work, {j}) EXCEPT !.poolActive[PoolOf[j]] = @ - 1])
    /\ Release({j})
    /\ maybeStopResolved(work', lease)

-----------------------------------------------------------------------------
(***************************************************************************)
(* Jobs                                                                    *)
(***************************************************************************)

Enqueued(j) == [work EXCEPT !.queues[PoolOf[j]] = Append(@, j), !.phase[j] = "queued"]

\* Mutant: a submitted job waits for the next pump.
SubmitOnly(j) ==
    /\ work.phase[j] = "new"
    /\ ~stopping /\ clientInFlight[ClientOf[j]] < max_in_flight[ClientOf[j]]
    /\ work' = Enqueued(j)
    /\ clientInFlight' = [clientInFlight EXCEPT ![ClientOf[j]] = @ + 1]
    /\ UNCHANGED <<aborted, publication, lease, stopping, stopWaiters, stopped>>

\* A submit refused by the quota, or while stopping, throws.
submit(j) ==
    /\ work.phase[j] = "new"
    /\ ~stopping /\ clientInFlight[ClientOf[j]] < max_in_flight[ClientOf[j]]
    /\ work' = pump(Enqueued(j))
    /\ clientInFlight' = [clientInFlight EXCEPT ![ClientOf[j]] = @ + 1]
    /\ UNCHANGED <<aborted, publication, lease, stopping, stopWaiters, stopped>>

\* Mutant: a job that has settled is settled again.
CancelTwice(j) ==
    LET queued == {j} \cap {k \in Jobs : work.phase[k] \in {"queued", "settled"}}
    IN  /\ work.phase[j] # "new"
        /\ aborted' = aborted \cup {j}
        /\ work' = Cancelled(work, queued)
        /\ Release(queued)
        /\ UNCHANGED <<publication, lease, stopping, stopWaiters, stopped>>

\* handle.cancel: settles a queued job, asks a running one to end. It calls
\* neither pump nor maybeStopResolved.
cancel(j) ==
    LET queued == {j} \cap {k \in Jobs : work.phase[k] = "queued"}
    IN  /\ j \in entries
        /\ aborted' = aborted \cup {j}
        /\ work' = Cancelled(work, queued)
        /\ Release(queued)
        /\ UNCHANGED <<publication, lease, stopping, stopWaiters, stopped>>

\* Unlike cancel it pumps, whether or not the pool had any job.
cancelPool(pool) ==
    LET cancelled == {j \in entries : PoolOf[j] = pool}
        queued    == {j \in cancelled : work.phase[j] = "queued"}
    IN  /\ aborted' = aborted \cup cancelled
        /\ work' = pump(Cancelled(work, queued))
        /\ Release(queued)
        /\ UNCHANGED <<publication, lease, stopping, stopWaiters, stopped>>

\* The job throws, or returns after it was aborted.
RunThrows(j) ==
    /\ work.phase[j] = "running"
    /\ Finish(j)
    /\ UNCHANGED <<aborted, publication, stopping>>

\* Mutant: the publication starts right away.
RunReturnsUnchained(j) ==
    /\ work.phase[j] = "running" /\ j \notin aborted
    /\ IF j \in Publishers
       THEN /\ work' = [work EXCEPT !.phase[j] = "publishing"]
            /\ UNCHANGED <<clientInFlight, lease, stopWaiters, stopped>>
       ELSE Finish(j)
    /\ UNCHANGED <<aborted, publication, stopping>>

\* The job returns its value. A publication of a workspace is chained to the
\* last one of that workspace.
RunReturns(j) ==
    /\ work.phase[j] = "running" /\ j \notin aborted
    /\ IF j \notin Publishers
       THEN Finish(j) /\ UNCHANGED publication
       ELSE /\ IF WorkspaceOf[j] = None
               THEN /\ work' = [work EXCEPT !.phase[j] = "publishing"]
                    /\ UNCHANGED publication
               ELSE /\ work' = [work EXCEPT !.phase[j] = "waiting"]
                    /\ previous' = [previous EXCEPT
                                      ![j] = publicationTails[WorkspaceOf[j]]]
                    /\ publicationTails' = [publicationTails EXCEPT
                                              ![WorkspaceOf[j]] = j]
            /\ UNCHANGED <<clientInFlight, lease, stopWaiters, stopped>>
    /\ UNCHANGED <<aborted, stopping>>

\* Mutant: a publication waits only for one that has begun.
PublishStartsAhead(j) ==
    /\ work.phase[j] = "waiting"
    /\ previous[j] # None => work.phase[previous[j]] # "publishing"
    /\ work' = [work EXCEPT !.phase[j] = "publishing"]
    /\ UNCHANGED <<aborted, clientInFlight, publication, lease, stopping,
                   stopWaiters, stopped>>

\* The earlier publication has been fulfilled or has failed.
PublishStarts(j) ==
    /\ work.phase[j] = "waiting"
    /\ previous[j] # None => work.phase[previous[j]] = "settled"
    /\ work' = [work EXCEPT !.phase[j] = "publishing"]
    /\ UNCHANGED <<aborted, clientInFlight, publication, lease, stopping,
                   stopWaiters, stopped>>

\* A publication that fails stays the tail of its workspace.
PublishEnds(j, ok) ==
    /\ work.phase[j] = "publishing"
    /\ publicationTails' = [w \in Workspaces |->
           IF ok /\ publicationTails[w] = j THEN None ELSE publicationTails[w]]
    /\ Finish(j)
    /\ UNCHANGED <<aborted, previous, stopping>>

-----------------------------------------------------------------------------
(***************************************************************************)
(* Restart leases and stop                                                 *)
(***************************************************************************)

acquireRestartLease(l) ==
    /\ ~stopping /\ lease[l] = "none"
    /\ lease' = [lease EXCEPT ![l] = "held"]
    /\ UNCHANGED <<work, aborted, clientInFlight, publication, stopping,
                   stopWaiters, stopped>>

\* The clock passes expires_at; no timer watches it.
Lapse(l) ==
    /\ lease[l] = "held"
    /\ lease' = [lease EXCEPT ![l] = "lapsed"]
    /\ UNCHANGED <<work, aborted, clientInFlight, publication, stopping,
                   stopWaiters, stopped>>

\* renew finds the lease lapsed, drops it and throws.
RenewTooLate(l) ==
    /\ lease[l] = "lapsed"
    /\ lease' = [lease EXCEPT ![l] = "expired"]
    /\ UNCHANGED <<work, aborted, clientInFlight, publication, stopping,
                   stopWaiters, stopped>>

\* restartLeaseCount is read for core:status.
ReadStatus ==
    /\ lease' = expireLeases(lease)
    /\ UNCHANGED <<work, aborted, clientInFlight, publication, stopping,
                   stopWaiters, stopped>>

ReleaseLease(l) ==
    /\ lease[l] \in {"held", "lapsed"}
    /\ maybeStopResolved(work, [lease EXCEPT ![l] = "released"])
    /\ UNCHANGED <<work, aborted, clientInFlight, publication, stopping>>

\* stop(): returns at once when there is no entry and no lease.
stop(c, force) ==
    LET queued == IF force THEN {j \in entries : work.phase[j] = "queued"} ELSE {}
        w      == Cancelled(work, queued)
        left   == IF force THEN [x \in Leases |->
                                   IF lease[x] = "none" THEN "none" ELSE "released"]
                  ELSE lease
        reaped == IF entriesOf(w) = {} THEN expireLeases(left) ELSE left
        done   == entriesOf(w) = {} /\ LeaseCount(reaped) = 0
    IN  /\ c \notin stopWaiters \cup stopped
        /\ stopping' = TRUE
        /\ aborted' = IF force THEN aborted \cup entries ELSE aborted
        /\ work' = w
        /\ Release(queued)
        /\ lease' = reaped
        /\ stopWaiters' = IF done THEN stopWaiters ELSE stopWaiters \cup {c}
        /\ stopped' = IF done THEN stopped \cup {c} ELSE stopped
        /\ UNCHANGED publication

-----------------------------------------------------------------------------
Init ==
    /\ work = [queues     |-> [p \in Pools |-> << >>],
               poolActive |-> [p \in Pools |-> 0],
               phase      |-> [j \in Jobs |-> "new"]]
    /\ aborted = {} /\ clientInFlight = [c \in Clients |-> 0]
    /\ previous = [j \in Jobs |-> None]
    /\ publicationTails = [w \in Workspaces |-> None]
    /\ lease = [l \in Leases |-> "none"]
    /\ stopping = FALSE /\ stopWaiters = {} /\ stopped = {}

RunEnds(j) == RunThrows(j) \/ RunReturns(j)
PublicationEnds(j) == \E ok \in BOOLEAN : PublishEnds(j, ok)

Next ==
    \/ \E j \in Jobs : submit(j) \/ cancel(j)
    \/ \E p \in Pools : cancelPool(p)
    \/ \E j \in Jobs : RunThrows(j) \/ RunReturns(j)
    \/ \E j \in Jobs : PublishStarts(j)
    \/ \E j \in Jobs, ok \in BOOLEAN : PublishEnds(j, ok)
    \/ \E l \in Leases : acquireRestartLease(l) \/ Lapse(l) \/ RenewTooLate(l)
    \/ ReadStatus
    \/ \E l \in Leases : ReleaseLease(l)
    \/ \E c \in Stops, force \in BOOLEAN : stop(c, force)

Spec == Init /\ [][Next]_vars

\* Jobs and publish callbacks end, chained callbacks run, and a lease is
\* released by its holder or its time runs out.
Fairness ==
    /\ \A j \in Jobs : /\ WF_vars(RunEnds(j))
                       /\ WF_vars(PublishStarts(j))
                       /\ WF_vars(PublicationEnds(j))
    /\ \A l \in Leases : WF_vars(ReleaseLease(l) \/ Lapse(l))

FairSpec == Spec /\ Fairness

-----------------------------------------------------------------------------
(***************************************************************************)
(* Properties                                                              *)
(***************************************************************************)

\* Every variable keeps the shape the code gives it.
TypeOK ==
    /\ work \in [queues: [Pools -> Seq(Jobs)], poolActive: [Pools -> Nat],
                 phase: [Jobs -> Phases]]
    /\ aborted \subseteq Jobs /\ clientInFlight \in [Clients -> Nat]
    /\ previous \in [Jobs -> Jobs \cup {None}]
    /\ publicationTails \in [Workspaces -> Jobs \cup {None}]
    /\ lease \in [Leases -> LeaseStates]
    /\ stopping \in BOOLEAN
    /\ stopWaiters \subseteq Stops /\ stopped \subseteq Stops

\* The counters the admission decisions rest on are exact after any mix of
\* submissions, cancellations, failures and forced stops, and so the limits
\* hold: pool concurrency, max_active, and every client's quota.
AdmissionLimits ==
    /\ \A p \in Pools :
         /\ work.poolActive[p]
              = Cardinality({j \in Jobs : PoolOf[j] = p /\ work.phase[j] \in Active})
         /\ work.poolActive[p] <= pool_concurrency[p]
         /\ Range(work.queues[p]) = {j \in Jobs : PoolOf[j] = p /\ work.phase[j] = "queued"}
         /\ Len(work.queues[p]) = Cardinality(Range(work.queues[p]))
    /\ ActiveCount(work) <= max_active
    /\ \A c \in Clients :
         /\ clientInFlight[c] = Cardinality({j \in entries : ClientOf[j] = c})
         /\ clientInFlight[c] <= max_in_flight[c]

\* handle.cancel and stop remove queued jobs without a pump, and the reserved
\* slot holds jobs back: still, whenever a job is queued another one is
\* active, whose end will pump the queues.
NoStall == (\E j \in Jobs : work.phase[j] = "queued") => ActiveCount(work) > 0

\* "per-workspace serialized publication": two publications of a workspace
\* never overlap, whatever order the jobs end in and whichever fail.
OnePublication ==
    \A j, k \in Jobs :
        /\ work.phase[j] = "publishing" /\ work.phase[k] = "publishing"
        /\ WorkspaceOf[j] = WorkspaceOf[k] /\ WorkspaceOf[j] # None
        => j = k

\* The publications of workspace x that are not over, in the phases f.
PublicationsOf(x, f) == {j \in Jobs : WorkspaceOf[j] = x /\ f[j] \in {"waiting", "publishing"}}

\* The members of js, each after the one it is chained to.
InLine(js, chain) ==
    CHOOSE s \in [1 .. Cardinality(js) -> js] :
        Range(s) = js /\ \A i \in 2 .. Cardinality(js) : chain[s[i]] = s[i - 1]

\* The tails, which a fulfilled publication clears and a failed one does not,
\* chain the publications of a workspace in the order in which their runs
\* returned: each begins after all earlier ones and before all later ones.
Order == INSTANCE PublicationOrder
    WITH Places <- Workspaces, Publishings <- Jobs,
         line  <- [x \in Workspaces |-> InLine(PublicationsOf(x, work.phase), previous)],
         begun <- {j \in Jobs : WorkspaceOf[j] # None /\ work.phase[j] = "publishing"}
ImplementsOrder == Order!OrderSpec

\* After stop() has returned nothing runs, is queued, or can be admitted, and
\* no lease is in force: the runtime may close the storage.
StoppedIsQuiet ==
    stopped # {} => /\ stopping /\ entries = {}
                    /\ ActiveCount(work) = 0 /\ LeaseCount(lease) = 0

Background(w) == ActiveCount(w) - w.poolActive["query"]

\* A background job that starts while a query stays queued leaves the
\* reserved slots free, besides the queries that are running ("retaining a
\* reserved global slot so a queued query can always make progress").
ReserveHonoured ==
    [][Background(work') > Background(work) /\ work'.queues["query"] # << >>
         => LET queries == {j \in Jobs : /\ PoolOf[j] = "query"
                                         /\ work.phase[j] \in Active
                                         /\ work'.phase[j] \in Active}
            IN  Background(work') + Cardinality(queries) + query_reserved_slots
                  <= max_active]_vars

\* Once submissions have stopped every admitted job settles: no slot, reserve
\* or queue entry is lost on the way, and no publication waits for ever. While
\* queries keep coming background work may wait, since pump takes them first.
EveryJobSettles ==
    \A j \in Jobs : (j \in entries) ~> (work.phase[j] = "settled")

\* A stop() call returns, unless a restart lease has run out: nobody looks at
\* the waiting calls when a lease lapses.
StopReturns ==
    \A c \in Stops :
        (c \in stopWaiters) ~> (\/ c \in stopped
                                \/ \E l \in Leases : lease[l] \in {"lapsed", "expired"})

=============================================================================
