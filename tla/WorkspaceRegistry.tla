-------------------------- MODULE WorkspaceRegistry --------------------------
(***************************************************************************)
(* The registry of workspaces and codebases                                *)
(* (packages/engine/src/workspaces.ts) and the file it is saved to         *)
(* (packages/daemon/src/workspace-registry.ts). Each method runs without   *)
(* interruption and saves the whole state once or more; the process may    *)
(* die between two saves of a method or in the middle of a write. The      *)
(* constructor validates what it loads and refuses to start otherwise.     *)
(***************************************************************************)
EXTENDS Naturals, Sequences, FiniteSets

CONSTANTS
    Workspaces, Codebases,  \* identifiers
    Roots,                  \* canonical roots, under one source provider
    Ops,                    \* reconciliation operation identifiers; bound: as
                            \*   many operations are current or awaited at once
    None,
    MaxCrashes              \* bound: deaths of the process

Statuses == {"registering", "indexing", "ready", "degraded", "suspended",
             "removing", "removed"}

\* binding: the source-provider binding, derived from the root at
\* registration; a separate virtual instance has one of its own.
RegisteredWorkspace ==
    [status: Statuses, root: Roots, binding: Roots \cup Workspaces,
     virtual: BOOLEAN, codebase: Codebases \cup {None}, snapshot: BOOLEAN,
     operation: Ops \cup {None}, suspended_at: BOOLEAN, removed_at: BOOLEAN]

\* codebases: "none" is an identifier not created yet.
State == [workspaces: [Workspaces -> RegisteredWorkspace \cup {None}],
          codebases: [Codebases -> {"none", "active", "removed"}]]

Empty == [workspaces |-> [i \in Workspaces |-> None],
          codebases  |-> [c \in Codebases |-> "none"]]

ASSUME RegistryAssumption ==
    /\ Roots \cap Workspaces = {} /\ Workspaces \cap Codebases = {}
    /\ None \notin RegisteredWorkspace \cup Codebases \cup Ops
    /\ MaxCrashes \in Nat

Incidents == {"first_scan_failed",    \* a failure recorded without a snapshot
              "suspended_left"}       \* suspended was left other than by resume

VARIABLES
    registry,   \* the maps in memory
    file,       \* workspaces.json: a state, or None for unreadable text
    process,    \* "up", "down", or "refused": the constructor has thrown
    resumes,    \* resume calls that await their reconciliation
    crashes, incidents

vars == <<registry, file, process, resumes, crashes, incidents>>

Present(s) == {i \in Workspaces : s.workspaces[i] # None}
\* list()
Listed(s) == {i \in Present(s) : s.workspaces[i].status # "removed"}
Closed == {"removing", "removed"}
\* requireMutable
Mutable(i) ==
    i \in Present(registry) /\ registry.workspaces[i].status \notin Closed
\* createReconciliationId: an identifier nobody holds.
Fresh(op) ==
    /\ \A i \in Present(registry) : registry.workspaces[i].operation # op
    /\ \A i \in Workspaces : <<i, op>> \notin resumes
With(s, i, w) == [s EXCEPT !.workspaces[i] = w]

-----------------------------------------------------------------------------
(***************************************************************************)
(* Saving and loading                                                      *)
(***************************************************************************)

\* A method ends in final, saved last, after it has saved the states of
\* partial. The process may die after any of these saves, or during one,
\* which truncates the file first.
Save(final, partial) ==
    \/ /\ registry' = final /\ file' = final
       /\ UNCHANGED <<process, crashes>>
    \/ /\ crashes < MaxCrashes /\ crashes' = crashes + 1
       /\ process' = "down" /\ registry' = Empty
       /\ file' \in partial \cup {final, None}

\* The checks of validatePersistedState on one workspace ...
ValidRecord(w, codebases) ==
    /\ w.status \in {"ready", "degraded"} => w.snapshot
    /\ (w.status = "removed") = w.removed_at
    /\ (w.status = "suspended") = w.suspended_at
    /\ w.operation # None => w.status = "indexing"
    /\ w.status # "removed" => w.codebase # None
    /\ w.codebase # None => codebases[w.codebase] = "active"

\* ... and on two workspaces that are not removed: no binding is shared, and
\* no root either, unless by separate virtual instances.
Distinct(v, w) ==
    /\ v.binding # w.binding
    /\ ~v.virtual /\ ~w.virtual => v.root # w.root

\* Mutant: removed workspaces still claim their bindings and roots.
ValidAll(s) ==
    /\ \A i \in Present(s) : ValidRecord(s.workspaces[i], s.codebases)
    /\ \A i, j \in Present(s) :
         i # j => Distinct(s.workspaces[i], s.workspaces[j])

\* validatePersistedState.
Valid(s) ==
    /\ \A i \in Present(s) : ValidRecord(s.workspaces[i], s.codebases)
    /\ \A i, j \in Listed(s) :
         i # j => Distinct(s.workspaces[i], s.workspaces[j])

\* The daemon starts: an unreadable file counts as an absent one.
Load ==
    /\ process = "down"
    /\ IF file = None
       THEN registry' = Empty /\ process' = "up"
       ELSE IF Valid(file)
       THEN registry' = file /\ process' = "up"
       ELSE process' = "refused" /\ UNCHANGED registry
    /\ resumes' = {}
    /\ UNCHANGED <<file, crashes, incidents>>

Crash ==
    /\ process = "up" /\ crashes < MaxCrashes
    /\ crashes' = crashes + 1
    /\ process' = "down" /\ registry' = Empty
    /\ UNCHANGED <<file, resumes, incidents>>

-----------------------------------------------------------------------------
(***************************************************************************)
(* Registration                                                            *)
(***************************************************************************)

NewCodebase(s, c) == [s EXCEPT !.codebases[c] = "active"]

\* A new workspace joins the codebase c of its repository, or a new one,
\* which is saved first. An ordinary root that is listed already is returned
\* as it is; a binding in use is refused.
register(i, root, virtual, c) ==
    LET binding == IF virtual THEN i ELSE root
        w == [status |-> "registering", root |-> root, binding |-> binding,
              virtual |-> virtual, codebase |-> c, snapshot |-> FALSE,
              operation |-> None, suspended_at |-> FALSE, removed_at |-> FALSE]
        s == NewCodebase(registry, c)
    IN  /\ process = "up" /\ registry.workspaces[i] = None
        /\ virtual \/ \A j \in Listed(registry) : registry.workspaces[j].root # root
        /\ \A j \in Listed(registry) : registry.workspaces[j].binding # binding
        /\ registry.codebases[c] # "removed"
        /\ Save(With(s, i, w), IF registry.codebases[c] = "none" THEN {s} ELSE {})
        /\ UNCHANGED <<resumes, incidents>>

relocate(i, root) ==
    LET w == registry.workspaces[i]
    IN  /\ process = "up" /\ Mutable(i)
        /\ \A j \in Listed(registry) \ {i} : registry.workspaces[j].root # root
        /\ Save(With(registry, i, [w EXCEPT !.root = root, !.operation = None]), {})
        /\ UNCHANGED <<resumes, incidents>>

\* updateSelection, updateAdministrativeMetadata, renameCodebase: only data
\* the model leaves out changes, and the state is saved.
updateMetadata ==
    /\ process = "up"
    /\ \/ \E i \in Workspaces : Mutable(i)
       \/ \E c \in Codebases : registry.codebases[c] = "active"
    /\ Save(registry, {})
    /\ UNCHANGED <<resumes, incidents>>

-----------------------------------------------------------------------------
(***************************************************************************)
(* The life of a workspace                                                 *)
(***************************************************************************)

markReady(i, status) ==
    LET w == registry.workspaces[i]
    IN  /\ process = "up" /\ Mutable(i) /\ w.status # "suspended"
        /\ Save(With(registry, i, [w EXCEPT !.operation = None, !.snapshot = TRUE,
                                              !.status = status]), {})
        /\ UNCHANGED <<resumes, incidents>>

markStructuralStagePublished(i) ==
    LET w == registry.workspaces[i]
    IN  /\ process = "up" /\ Mutable(i) /\ w.status = "indexing"
        /\ Save(With(registry, i, [w EXCEPT !.snapshot = TRUE]), {})
        /\ UNCHANGED <<resumes, incidents>>

\* Mutant: the failure becomes a status the registry does not know.
FailureUnknownStatus(i) ==
    LET w     == registry.workspaces[i]
        stuck == w.status = "indexing" /\ ~w.snapshot
    IN  /\ process = "up" /\ Mutable(i)
        /\ Save(With(registry, i, IF stuck THEN [w EXCEPT !.status = "failed"]
                                    ELSE w), {})
        /\ incidents' = incidents \cup IF stuck THEN {"first_scan_failed"} ELSE {}
        /\ UNCHANGED resumes

\* A first scan that fails leaves a degraded workspace without a snapshot.
recordScanFailure(i) ==
    LET w     == registry.workspaces[i]
        stuck == w.status = "indexing" /\ ~w.snapshot
    IN  /\ process = "up" /\ Mutable(i)
        /\ Save(With(registry, i, IF stuck THEN [w EXCEPT !.status = "degraded"]
                                    ELSE w), {})
        /\ incidents' = incidents \cup IF stuck THEN {"first_scan_failed"} ELSE {}
        /\ UNCHANGED resumes

\* A workspace already indexing under an operation is returned as it is.
beginReconciliation(i, op) ==
    LET w == registry.workspaces[i]
    IN  /\ process = "up" /\ Mutable(i)
        /\ ~(w.status = "indexing" /\ w.operation # None)
        /\ Fresh(op)
        /\ Save(With(registry, i, [w EXCEPT !.status = "indexing",
                                              !.operation = op]), {})
        /\ incidents' = incidents \cup IF w.suspended_at THEN {"suspended_left"}
                                       ELSE {}
        /\ UNCHANGED resumes

suspend(i) ==
    LET w == registry.workspaces[i]
    IN  /\ process = "up" /\ Mutable(i) /\ w.status # "suspended"
        /\ Save(With(registry, i, [w EXCEPT !.status = "suspended",
                                              !.suspended_at = TRUE,
                                              !.operation = None]), {})
        /\ UNCHANGED <<resumes, incidents>>

\* resume, until it awaits the reconciliation.
resume(i, op) ==
    LET w == registry.workspaces[i]
    IN  /\ process = "up" /\ Mutable(i) /\ w.status = "suspended"
        /\ Fresh(op)
        /\ Save(With(registry, i, [w EXCEPT !.status = "indexing",
                                              !.suspended_at = FALSE,
                                              !.operation = op]), {})
        /\ resumes' = resumes \cup {<<i, op>>}
        /\ UNCHANGED incidents

\* Mutant: the result is applied to whatever the workspace is by now.
ResumeResultStale(i, op, status) ==
    /\ process = "up" /\ <<i, op>> \in resumes /\ i \in Present(registry)
    /\ resumes' = resumes \ {<<i, op>>}
    /\ Save(With(registry, i, [registry.workspaces[i] EXCEPT
                                   !.operation = None, !.snapshot = TRUE,
                                   !.status = status]), {})
    /\ UNCHANGED incidents

\* The reconciliation of a resume call returns. The result of an operation
\* that is not current is refused.
ResumeResult(i, op, status) ==
    /\ process = "up" /\ <<i, op>> \in resumes
    /\ resumes' = resumes \ {<<i, op>>}
    /\ IF /\ i \in Present(registry)
          /\ registry.workspaces[i].status = "indexing"
          /\ registry.workspaces[i].operation = op
       THEN Save(With(registry, i, [registry.workspaces[i] EXCEPT
                                        !.operation = None, !.snapshot = TRUE,
                                        !.status = status]), {})
       ELSE UNCHANGED <<registry, file, process, crashes>>
    /\ UNCHANGED incidents

\* Mutant: the second save is forgotten.
RemoveSavesOnce(i) ==
    LET w        == registry.workspaces[i]
        removing == [w EXCEPT !.operation = None, !.status = "removing"]
        removed  == [removing EXCEPT !.status = "removed", !.removed_at = TRUE]
    IN  /\ process = "up" /\ Mutable(i)
        /\ registry' = With(registry, i, removed)
        /\ file' = With(registry, i, removing)
        /\ incidents' = incidents \cup IF w.suspended_at THEN {"suspended_left"}
                                       ELSE {}
        /\ UNCHANGED <<process, resumes, crashes>>

\* Two saves: removing, then removed.
remove(i) ==
    LET w        == registry.workspaces[i]
        removing == [w EXCEPT !.operation = None, !.status = "removing"]
        removed  == [removing EXCEPT !.status = "removed", !.removed_at = TRUE]
    IN  /\ process = "up" /\ Mutable(i)
        /\ Save(With(registry, i, removed), {With(registry, i, removing)})
        /\ incidents' = incidents \cup IF w.suspended_at THEN {"suspended_left"}
                                       ELSE {}
        /\ UNCHANGED resumes

purge(i) ==
    /\ process = "up" /\ i \in Present(registry)
    /\ registry.workspaces[i].status = "removed"
    /\ Save(With(registry, i, None), {})
    /\ UNCHANGED <<resumes, incidents>>

-----------------------------------------------------------------------------
(***************************************************************************)
(* Codebases                                                               *)
(***************************************************************************)

createCodebase(c) ==
    /\ process = "up" /\ registry.codebases[c] = "none"
    /\ Save(NewCodebase(registry, c), {})
    /\ UNCHANGED <<resumes, incidents>>

\* To an active codebase, or to a new one of its own, which is saved first.
assignCodebase(i, c) ==
    LET s == NewCodebase(registry, c)
    IN  /\ process = "up" /\ Mutable(i)
        /\ registry.codebases[c] # "removed"
        /\ Save(With(s, i, [registry.workspaces[i] EXCEPT !.codebase = c]),
                IF registry.codebases[c] = "none" THEN {s} ELSE {})
        /\ UNCHANGED <<resumes, incidents>>

\* The members of moved have left their codebase, the listed ones for the
\* standalone codebase own gives them; the codebases of created exist.
Moved(moved, own, created) ==
    [workspaces |-> [i \in Workspaces |->
                       IF i \in moved
                       THEN [registry.workspaces[i] EXCEPT
                               !.codebase = IF i \in DOMAIN own THEN own[i] ELSE None]
                       ELSE registry.workspaces[i]],
     codebases  |-> [c \in Codebases |->
                       IF c \in created THEN "active" ELSE registry.codebases[c]]]

Members(c) == {i \in Present(registry) : registry.workspaces[i].codebase = c}

\* Every listed member gets a codebase of its own: one save when it is
\* created, one when the member is moved. Removed members leave it unsaved.
Dissolving(c, own) ==
    {Moved(moved, own, {own[i] : i \in DOMAIN own \cap (moved \cup {next})}) :
       moved \in SUBSET Members(c), next \in DOMAIN own}

\* The codebase is closed last.
Dissolved(c, own) ==
    [Moved(Members(c), own, {own[i] : i \in DOMAIN own})
       EXCEPT !.codebases[c] = "removed"]

removeCodebase(c, own) ==
    /\ process = "up" /\ registry.codebases[c] = "active"
    /\ DOMAIN own = Members(c) \cap Listed(registry)
    /\ \A i \in DOMAIN own : registry.codebases[own[i]] = "none"
    /\ \A i, j \in DOMAIN own : own[i] = own[j] => i = j
    /\ Save(Dissolved(c, own), Dissolving(c, own))
    /\ UNCHANGED <<resumes, incidents>>

-----------------------------------------------------------------------------
Init ==
    /\ registry = Empty /\ file = None /\ process = "up"
    /\ resumes = {} /\ crashes = 0 /\ incidents = {}

Next ==
    \/ Load
    \/ Crash
    \/ \E i \in Workspaces, root \in Roots, virtual \in BOOLEAN, c \in Codebases :
           register(i, root, virtual, c)
    \/ \E i \in Workspaces, root \in Roots : relocate(i, root)
    \/ updateMetadata
    \/ \E i \in Workspaces, status \in {"ready", "degraded"} : markReady(i, status)
    \/ \E i \in Workspaces : markStructuralStagePublished(i)
    \/ \E i \in Workspaces : recordScanFailure(i)
    \/ \E i \in Workspaces, op \in Ops : beginReconciliation(i, op)
    \/ \E i \in Workspaces : suspend(i)
    \/ \E i \in Workspaces, op \in Ops : resume(i, op)
    \/ \E i \in Workspaces, op \in Ops, status \in {"ready", "degraded"} :
           ResumeResult(i, op, status)
    \/ \E i \in Workspaces : remove(i)
    \/ \E i \in Workspaces : purge(i)
    \/ \E c \in Codebases : createCodebase(c)
    \/ \E i \in Workspaces, c \in Codebases : assignCodebase(i, c)
    \/ \E c \in Codebases, members \in SUBSET Workspaces :
           \E own \in [members -> Codebases] : removeCodebase(c, own)

Spec == Init /\ [][Next]_vars

-----------------------------------------------------------------------------
(***************************************************************************)
(* Properties                                                              *)
(***************************************************************************)

\* Every variable keeps the shape the code gives it.
TypeOK ==
    /\ registry \in State /\ file \in State \cup {None}
    /\ process \in {"up", "down", "refused"}
    /\ resumes \subseteq Workspaces \X Ops
    /\ crashes \in 0 .. MaxCrashes
    /\ incidents \subseteq Incidents

\* The next start accepts what is in the file, after any sequence of
\* operations and wherever the process died ("the very next daemon restart
\* after a remove + re-add"). A failed first scan, and a suspended workspace
\* that is reconciled or removed, are excluded by name.
Reloadable == incidents = {} => file = None \/ Valid(file)

\* What the running process knows or, while none runs, what the next one will
\* read from the file.
OnFile == IF file = None THEN Empty ELSE file
Known == IF process = "up" THEN registry ELSE OnFile

\* A workspace that was removed is closed for good: no late scan result, resume
\* result or relocation brings it back under its identifier, and neither does
\* a death of the process in the middle of any later method, or the restart
\* that reads what it left (remove saves before it returns).
RemovedStaysClosed ==
    [][\A i \in Present(Known) :
         Known.workspaces[i].status = "removed"
           => Known'.workspaces[i] = None
                \/ Known'.workspaces[i].status = "removed"]_vars

\* Reloadable without its exceptions: what the registry saves passes its own
\* validation.
AlwaysReloadable == file = None \/ Valid(file)

=============================================================================
