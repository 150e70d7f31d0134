----------------------- MODULE WorkspaceRegistryProofs -----------------------
(***************************************************************************)
(* The file the registry saves is one the next start accepts, and a        *)
(* removed workspace stays closed: for any number of workspaces,           *)
(* codebases, roots and crashes.                                           *)
(***************************************************************************)
EXTENDS WorkspaceRegistry, TLAPS

-----------------------------------------------------------------------------
(***************************************************************************)
(* Types                                                                   *)
(***************************************************************************)

\* The registry of a fresh installation is a registry.
LEMMA EmptyType == Empty \in State
BY DEF Empty, State

\* Replacing one record, or dropping it, keeps a registry a registry (replace
\* and purge).
LEMMA WithType ==
    ASSUME NEW s \in State, NEW i \in Workspaces,
           NEW w \in RegisteredWorkspace \cup {None}
    PROVE  /\ With(s, i, w) \in State
           /\ With(s, i, w).codebases = s.codebases
           /\ With(s, i, w).workspaces = [s.workspaces EXCEPT ![i] = w]
BY DEF With, State

\* createCodebase adds a codebase and nothing else.
LEMMA NewCodebaseType ==
    ASSUME NEW s \in State, NEW c \in Codebases
    PROVE  /\ NewCodebase(s, c) \in State
           /\ NewCodebase(s, c).workspaces = s.workspaces
           /\ NewCodebase(s, c).codebases = [s.codebases EXCEPT ![c] = "active"]
BY DEF NewCodebase, State

\* A record that is present is a record.
LEMMA PresentType ==
    ASSUME NEW s \in State, NEW i \in Present(s)
    PROVE  i \in Workspaces /\ s.workspaces[i] \in RegisteredWorkspace
BY DEF Present, State

\* Every registry that removeCodebase passes through is a registry.
LEMMA MovedType ==
    ASSUME registry \in State, NEW moved \in SUBSET Present(registry),
           NEW own, own \in [DOMAIN own -> Codebases], NEW created
    PROVE  /\ Moved(moved, own, created) \in State
           /\ \A c \in Codebases :
                [Moved(moved, own, created) EXCEPT !.codebases[c] = "removed"] \in State
<1>1. \A i \in moved : i \in Workspaces /\ registry.workspaces[i] \in RegisteredWorkspace
  BY PresentType
<1>2. [i \in Workspaces |->
         IF i \in moved
         THEN [registry.workspaces[i] EXCEPT
                 !.codebase = IF i \in DOMAIN own THEN own[i] ELSE None]
         ELSE registry.workspaces[i]]
        \in [Workspaces -> RegisteredWorkspace \cup {None}]
  BY <1>1 DEF State, RegisteredWorkspace
<1>3. [c \in Codebases |-> IF c \in created THEN "active" ELSE registry.codebases[c]]
        \in [Codebases -> {"none", "active", "removed"}]
  BY DEF State
<1> QED
  BY <1>2, <1>3 DEF Moved, State

\* A method that saves registries of the right type leaves registries of the
\* right type, whether it returns or the process dies in it.
LEMMA SaveType ==
    ASSUME TypeOK, NEW final \in State, NEW partial \in SUBSET State,
           Save(final, partial)
    PROVE  /\ registry' \in State /\ file' \in State \cup {None}
           /\ process' \in {"up", "down", "refused"}
           /\ crashes' \in 0 .. MaxCrashes
BY EmptyType, RegistryAssumption DEF Save, TypeOK

\* Each operation of the registry keeps the types.
LEMMA TypeStep == TypeOK /\ [Next]_vars => TypeOK'
<1> SUFFICES ASSUME TypeOK, [Next]_vars PROVE TypeOK'
  OBVIOUS
<1> USE RegistryAssumption
<1>0. registry \in State /\ resumes \subseteq Workspaces \X Ops
      /\ incidents \subseteq Incidents
  BY DEF TypeOK
<1>r. ASSUME NEW i \in Workspaces, Mutable(i)
      PROVE  registry.workspaces[i] \in RegisteredWorkspace
  BY <1>0, <1>r, PresentType DEF Mutable
<1>s. ASSUME NEW final \in State, NEW partial \in SUBSET State,
             Save(final, partial),
             resumes' \subseteq Workspaces \X Ops, incidents' \subseteq Incidents
      PROVE  TypeOK'
  BY <1>s, SaveType DEF TypeOK
<1>w. ASSUME NEW i \in Workspaces, NEW w \in RegisteredWorkspace \cup {None},
             Save(With(registry, i, w), {}),
             resumes' \subseteq Workspaces \X Ops, incidents' \subseteq Incidents
      PROVE  TypeOK'
  <2>1. With(registry, i, w) \in State
    BY <1>0, WithType
  <2> QED
    BY <2>1, <1>s, <1>w
<1>1. CASE Load
  BY <1>1, EmptyType DEF Load, TypeOK
<1>2. CASE Crash
  BY <1>2, EmptyType DEF Crash, TypeOK
<1>3. ASSUME NEW i \in Workspaces, NEW root \in Roots, NEW virtual \in BOOLEAN,
             NEW c \in Codebases, register(i, root, virtual, c)
      PROVE  TypeOK'
  <2> DEFINE s == NewCodebase(registry, c)
             w == [status |-> "registering", root |-> root,
                   binding |-> IF virtual THEN i ELSE root,
                   virtual |-> virtual, codebase |-> c, snapshot |-> FALSE,
                   operation |-> None, suspended_at |-> FALSE, removed_at |-> FALSE]
             partial == IF registry.codebases[c] = "none" THEN {s} ELSE {}
  <2>1. w \in RegisteredWorkspace
    BY DEF RegisteredWorkspace, Statuses
  <2>2. s \in State
    BY <1>0, NewCodebaseType
  <2>3. With(s, i, w) \in State
    BY <2>1, <2>2, WithType
  <2>4. Save(With(s, i, w), partial) /\ UNCHANGED <<resumes, incidents>>
    BY <1>3 DEF register
  <2> HIDE DEF s, w
  <2> QED
    BY <2>2, <2>3, <2>4, <1>s, <1>0
<1>4. ASSUME NEW i \in Workspaces, NEW root \in Roots, relocate(i, root)
      PROVE  TypeOK'
  BY ZenonT(30), <1>4, <1>r, <1>w, <1>0 DEF relocate, RegisteredWorkspace
<1>5. CASE updateMetadata
  BY <1>5, <1>s, <1>0 DEF updateMetadata
<1>6. ASSUME NEW i \in Workspaces, NEW status \in {"ready", "degraded"},
             markReady(i, status)
      PROVE  TypeOK'
  BY ZenonT(60), <1>6, <1>r, <1>w, <1>0 DEF markReady, RegisteredWorkspace, Statuses
<1>7. ASSUME NEW i \in Workspaces, markStructuralStagePublished(i)
      PROVE  TypeOK'
  BY ZenonT(60), <1>7, <1>r, <1>w, <1>0 DEF markStructuralStagePublished, RegisteredWorkspace
<1>8. ASSUME NEW i \in Workspaces, recordScanFailure(i)
      PROVE  TypeOK'
  <2>1. incidents' \subseteq Incidents
    BY <1>8, <1>0 DEF recordScanFailure, Incidents
  <2> QED
    BY <1>8, <2>1, <1>r, <1>w, <1>0 DEF recordScanFailure, RegisteredWorkspace, Statuses
<1>9. ASSUME NEW i \in Workspaces, NEW op \in Ops, beginReconciliation(i, op)
      PROVE  TypeOK'
  <2>1. incidents' \subseteq Incidents
    BY <1>9, <1>0 DEF beginReconciliation, Incidents
  <2> QED
    BY ZenonT(60), <1>9, <2>1, <1>r, <1>w, <1>0 DEF beginReconciliation, RegisteredWorkspace, Statuses
<1>10. ASSUME NEW i \in Workspaces, suspend(i)
       PROVE  TypeOK'
  BY ZenonT(60), <1>10, <1>r, <1>w, <1>0 DEF suspend, RegisteredWorkspace, Statuses
<1>11. ASSUME NEW i \in Workspaces, NEW op \in Ops, resume(i, op)
       PROVE  TypeOK'
  <2>1. resumes' \subseteq Workspaces \X Ops
    BY <1>11, <1>0 DEF resume
  <2> DEFINE w == [registry.workspaces[i] EXCEPT !.status = "indexing",
                                                 !.suspended_at = FALSE,
                                                 !.operation = op]
  <2>2. w \in RegisteredWorkspace
    <3>1. Mutable(i)
      BY <1>11 DEF resume
    <3>2. registry.workspaces[i] \in RegisteredWorkspace
      BY <3>1, <1>r
    <3> QED
      BY <3>2 DEF RegisteredWorkspace, Statuses
  <2>3. Save(With(registry, i, w), {}) /\ incidents' \subseteq Incidents
    BY <1>11, <1>0 DEF resume
  <2> HIDE DEF w
  <2> QED
    BY <2>1, <2>2, <2>3, <1>w
<1>12. ASSUME NEW i \in Workspaces, NEW op \in Ops,
              NEW status \in {"ready", "degraded"}, ResumeResult(i, op, status)
       PROVE  TypeOK'
  <2>1. resumes' \subseteq Workspaces \X Ops /\ incidents' \subseteq Incidents
    BY <1>12, <1>0 DEF ResumeResult
  <2>2. CASE i \in Present(registry) /\ registry.workspaces[i].status = "indexing"
             /\ registry.workspaces[i].operation = op
    <3>1. registry.workspaces[i] \in RegisteredWorkspace
      BY <2>2, <1>0, PresentType
    <3> QED
      BY <1>12, <2>1, <2>2, <3>1, <1>w DEF ResumeResult, RegisteredWorkspace, Statuses
  <2>3. CASE ~(i \in Present(registry) /\ registry.workspaces[i].status = "indexing"
               /\ registry.workspaces[i].operation = op)
    BY <1>12, <2>1, <2>3 DEF ResumeResult, TypeOK
  <2> QED
    BY <2>2, <2>3
<1>13. ASSUME NEW i \in Workspaces, remove(i)
       PROVE  TypeOK'
  <2> DEFINE removing == [registry.workspaces[i] EXCEPT !.operation = None,
                                                        !.status = "removing"]
             removed == [removing EXCEPT !.status = "removed", !.removed_at = TRUE]
  <2>1. removing \in RegisteredWorkspace /\ removed \in RegisteredWorkspace
    BY ZenonT(60), <1>13, <1>r DEF remove, RegisteredWorkspace, Statuses
  <2>2. With(registry, i, removing) \in State /\ With(registry, i, removed) \in State
    BY <2>1, <1>0, WithType
  <2>3. /\ Save(With(registry, i, removed), {With(registry, i, removing)})
        /\ incidents' \subseteq Incidents /\ UNCHANGED resumes
    BY <1>13, <1>0 DEF remove, Incidents
  <2> HIDE DEF removing, removed
  <2> QED
    BY <2>2, <2>3, <1>s, <1>0
<1>14. ASSUME NEW i \in Workspaces, purge(i)
       PROVE  TypeOK'
  BY <1>14, <1>w, <1>0 DEF purge
<1>15. ASSUME NEW c \in Codebases, createCodebase(c)
       PROVE  TypeOK'
  <2>1. NewCodebase(registry, c) \in State
    BY <1>0, NewCodebaseType
  <2> QED
    BY <1>15, <2>1, <1>s, <1>0 DEF createCodebase
<1>16. ASSUME NEW i \in Workspaces, NEW c \in Codebases, assignCodebase(i, c)
       PROVE  TypeOK'
  <2> DEFINE s == NewCodebase(registry, c)
             w == [registry.workspaces[i] EXCEPT !.codebase = c]
             partial == IF registry.codebases[c] = "none" THEN {s} ELSE {}
  <2>1. w \in RegisteredWorkspace
    BY <1>16, <1>r DEF assignCodebase, RegisteredWorkspace
  <2>2. s \in State
    BY <1>0, NewCodebaseType
  <2>3. With(s, i, w) \in State
    BY <2>1, <2>2, WithType
  <2>4. Save(With(s, i, w), partial) /\ UNCHANGED <<resumes, incidents>>
    BY <1>16 DEF assignCodebase
  <2> HIDE DEF s, w
  <2> QED
    BY <2>2, <2>3, <2>4, <1>s, <1>0
<1>17. ASSUME NEW c \in Codebases, NEW members \in SUBSET Workspaces,
              NEW own \in [members -> Codebases], removeCodebase(c, own)
       PROVE  TypeOK'
  <2> DEFINE step(moved, next) ==
               Moved(moved, own, {own[i] : i \in DOMAIN own \cap (moved \cup {next})})
             steps == {step(moved, next) : moved \in SUBSET Members(c), next \in DOMAIN own}
  <2>1. own \in [DOMAIN own -> Codebases]
    OBVIOUS
  <2>2. Dissolved(c, own) \in State
    BY <2>1, <1>0, MovedType DEF Dissolved, Members
  <2>3. Dissolving(c, own) \in SUBSET State
    <3>1. ASSUME NEW moved \in SUBSET Members(c), NEW next \in DOMAIN own
          PROVE  step(moved, next) \in State
      BY <2>1, <1>0, MovedType DEF Members
    <3>2. Dissolving(c, own) = steps
      BY DEF Dissolving
    <3> HIDE DEF step
    <3>3. steps \in SUBSET State
      BY <3>1
    <3> QED
      BY <3>2, <3>3
  <2>4. Save(Dissolved(c, own), Dissolving(c, own)) /\ UNCHANGED <<resumes, incidents>>
    BY <1>17 DEF removeCodebase
  <2> QED
    BY <2>2, <2>3, <2>4, <1>s, <1>0
<1>18. CASE UNCHANGED vars
  BY <1>18 DEF vars, TypeOK
<1> QED
  BY <1>1, <1>2, <1>3, <1>4, <1>5, <1>6, <1>7, <1>8, <1>9, <1>10, <1>11, <1>12,
     <1>13, <1>14, <1>15, <1>16, <1>17, <1>18 DEF Next

\* Type correctness of the registry and of its file, for any number of
\* workspaces, codebases, roots, operations and crashes.
THEOREM RegistryTypes == Spec => []TypeOK
<1>1. Init => TypeOK
  BY EmptyType, RegistryAssumption DEF Init, TypeOK
<1> QED
  BY <1>1, TypeStep, PTL DEF Spec

-----------------------------------------------------------------------------
(***************************************************************************)
(* A removed workspace stays closed                                        *)
(***************************************************************************)

\* The file holds what the running process has in memory, or nothing.
Saved == process = "up" => file \in {registry, None}

\* s has no workspace open that is removed in the registry.
KeepsClosed(s) ==
    \A i \in Present(registry) :
        registry.workspaces[i].status = "removed"
          => s.workspaces[i] = None \/ s.workspaces[i].status = "removed"

\* What a step must do for RemovedStaysClosed.
ClosedStep ==
    \A i \in Present(Known) :
        Known.workspaces[i].status = "removed"
          => Known'.workspaces[i] = None \/ Known'.workspaces[i].status = "removed"

\* A process that knows no workspace opens none.
LEMMA EmptyKeepsClosed == KeepsClosed(Empty)
BY DEF KeepsClosed, Empty, Present

\* A step of the running process after which it, or the next one, knows s.
LEMMA ClosedStepFrom ==
    ASSUME process = "up", NEW s, KeepsClosed(s), Known' = s
    PROVE  ClosedStep
BY DEF ClosedStep, KeepsClosed, Known

\* A method all of whose saves keep removed workspaces closed is such a step,
\* whether it returns or the process dies in it.
LEMMA SaveKeepsClosed ==
    ASSUME NEW final, NEW partial, Save(final, partial), process = "up",
           KeepsClosed(final), \A s \in partial : KeepsClosed(s)
    PROVE  Saved' /\ ClosedStep
<1>1. CASE registry' = final /\ file' = final /\ process' = process
  <2>1. Known' = final
    BY <1>1 DEF Known
  <2> QED
    BY <1>1, <2>1, ClosedStepFrom DEF Saved
<1>2. CASE process' = "down" /\ file' \in partial \cup {final, None}
  <2>1. Known' = Empty \/ Known' \in partial \cup {final}
    BY <1>2 DEF Known, OnFile
  <2> QED
    BY <1>2, <2>1, EmptyKeepsClosed, ClosedStepFrom DEF Saved
<1> QED
  BY <1>1, <1>2 DEF Save

\* A method that replaces one record keeps the others as they are.
LEMMA WithKeepsClosed ==
    ASSUME TypeOK, NEW s \in State, s.workspaces = registry.workspaces,
           NEW i \in Workspaces, NEW w,
           i \in Present(registry) /\ registry.workspaces[i].status = "removed"
             => w = None \/ w.status = "removed"
    PROVE  KeepsClosed(With(s, i, w))
<1>1. With(s, i, w).workspaces = [registry.workspaces EXCEPT ![i] = w]
  BY DEF With, State
<1>2. registry.workspaces \in [Workspaces -> RegisteredWorkspace \cup {None}]
  BY DEF TypeOK, State
<1> QED
  BY <1>1, <1>2 DEF KeepsClosed, Present

\* Each operation leaves removed workspaces closed.
LEMMA ClosedStepNext ==
    TypeOK /\ Saved /\ [Next]_vars => Saved' /\ ClosedStep
<1> SUFFICES ASSUME TypeOK, Saved, [Next]_vars
             PROVE  Saved' /\ ClosedStep
  OBVIOUS
<1>0. registry \in State
  BY DEF TypeOK
<1>w. ASSUME NEW i \in Workspaces, NEW w, process = "up",
             Save(With(registry, i, w), {}),
             i \in Present(registry) /\ registry.workspaces[i].status = "removed"
               => w = None \/ w.status = "removed"
      PROVE  Saved' /\ ClosedStep
  BY <1>w, <1>0, WithKeepsClosed, SaveKeepsClosed
<1>n. ASSUME NEW c \in Codebases
      PROVE  KeepsClosed(NewCodebase(registry, c))
  <2>1. NewCodebase(registry, c).workspaces = registry.workspaces
    BY <1>0, NewCodebaseType
  <2> QED
    BY <2>1 DEF KeepsClosed
<1>c. ASSUME NEW i \in Workspaces, NEW w, NEW c \in Codebases,
             NEW partial \in SUBSET {NewCodebase(registry, c)},
             process = "up", Save(With(NewCodebase(registry, c), i, w), partial),
             i \in Present(registry) => registry.workspaces[i].status # "removed"
      PROVE  Saved' /\ ClosedStep
  <2>1. KeepsClosed(With(NewCodebase(registry, c), i, w))
    BY <1>c, <1>0, NewCodebaseType, WithKeepsClosed
  <2>2. \A s \in partial : KeepsClosed(s)
    BY <1>n
  <2> QED
    BY <1>c, <2>1, <2>2, SaveKeepsClosed
<1>1. CASE Load
  <2>1. Known = OnFile /\ Known' = OnFile
    BY <1>1 DEF Load, Known, OnFile
  <2>2. ClosedStep
    BY <2>1 DEF ClosedStep
  <2> QED
    BY <1>1, <2>2 DEF Load, Saved
<1>2. CASE Crash
  <2>1. process = "up" /\ process' = "down" /\ file' = file
    BY <1>2 DEF Crash
  <2>2. Known' = registry \/ Known' = Empty
    BY <2>1 DEF Saved, Known, OnFile
  <2>3. KeepsClosed(registry)
    BY DEF KeepsClosed
  <2> QED
    BY <2>1, <2>2, <2>3, EmptyKeepsClosed, ClosedStepFrom DEF Saved
<1>3. ASSUME NEW i \in Workspaces, NEW root \in Roots, NEW virtual \in BOOLEAN,
             NEW c \in Codebases, register(i, root, virtual, c)
      PROVE  Saved' /\ ClosedStep
  BY <1>3, <1>c DEF register, Present
<1>4. ASSUME NEW i \in Workspaces, NEW root \in Roots, relocate(i, root)
      PROVE  Saved' /\ ClosedStep
  BY <1>4, <1>w DEF relocate, Mutable, Closed
<1>5. CASE updateMetadata
  BY <1>5, SaveKeepsClosed DEF updateMetadata, KeepsClosed
<1>6. ASSUME NEW i \in Workspaces, NEW status \in {"ready", "degraded"},
             markReady(i, status)
      PROVE  Saved' /\ ClosedStep
  BY <1>6, <1>w DEF markReady, Mutable, Closed
<1>7. ASSUME NEW i \in Workspaces, markStructuralStagePublished(i)
      PROVE  Saved' /\ ClosedStep
  BY <1>7, <1>w DEF markStructuralStagePublished, Mutable, Closed
<1>8. ASSUME NEW i \in Workspaces, recordScanFailure(i)
      PROVE  Saved' /\ ClosedStep
  BY <1>8, <1>w DEF recordScanFailure, Mutable, Closed
<1>9. ASSUME NEW i \in Workspaces, NEW op \in Ops, beginReconciliation(i, op)
      PROVE  Saved' /\ ClosedStep
  BY <1>9, <1>w DEF beginReconciliation, Mutable, Closed
<1>10. ASSUME NEW i \in Workspaces, suspend(i)
       PROVE  Saved' /\ ClosedStep
  BY <1>10, <1>w DEF suspend, Mutable, Closed
<1>11. ASSUME NEW i \in Workspaces, NEW op \in Ops, resume(i, op)
       PROVE  Saved' /\ ClosedStep
  BY <1>11, <1>w DEF resume, Mutable, Closed
<1>12. ASSUME NEW i \in Workspaces, NEW op \in Ops,
              NEW status \in {"ready", "degraded"}, ResumeResult(i, op, status)
       PROVE  Saved' /\ ClosedStep
  <2>1. CASE i \in Present(registry) /\ registry.workspaces[i].status = "indexing"
             /\ registry.workspaces[i].operation = op
    BY <1>12, <2>1, <1>w DEF ResumeResult
  <2>2. CASE ~(i \in Present(registry) /\ registry.workspaces[i].status = "indexing"
               /\ registry.workspaces[i].operation = op)
    <3>1. process = "up" /\ UNCHANGED <<registry, file, process>>
      BY <1>12, <2>2 DEF ResumeResult
    <3> QED
      BY <3>1 DEF Saved, ClosedStep, Known
  <2> QED
    BY <2>1, <2>2
<1>13. ASSUME NEW i \in Workspaces, remove(i)
       PROVE  Saved' /\ ClosedStep
  <2> DEFINE w == registry.workspaces[i]
             removing == [w EXCEPT !.operation = None, !.status = "removing"]
             removed == [removing EXCEPT !.status = "removed", !.removed_at = TRUE]
  <2>1. /\ process = "up" /\ i \in Present(registry) /\ w.status # "removed"
        /\ Save(With(registry, i, removed), {With(registry, i, removing)})
    BY <1>13 DEF remove, Mutable, Closed
  <2> HIDE DEF removing, removed
  <2>2. KeepsClosed(With(registry, i, removed)) /\ KeepsClosed(With(registry, i, removing))
    BY <1>0, <2>1, WithKeepsClosed
  <2> QED
    BY <2>1, <2>2, SaveKeepsClosed
<1>14. ASSUME NEW i \in Workspaces, purge(i)
       PROVE  Saved' /\ ClosedStep
  BY <1>14, <1>w DEF purge
<1>15. ASSUME NEW c \in Codebases, createCodebase(c)
       PROVE  Saved' /\ ClosedStep
  BY <1>15, <1>n, SaveKeepsClosed DEF createCodebase
<1>16. ASSUME NEW i \in Workspaces, NEW c \in Codebases, assignCodebase(i, c)
       PROVE  Saved' /\ ClosedStep
  BY <1>16, <1>c DEF assignCodebase, Mutable, Closed
<1>17. ASSUME NEW c \in Codebases, NEW members \in SUBSET Workspaces,
              NEW own \in [members -> Codebases], removeCodebase(c, own)
       PROVE  Saved' /\ ClosedStep
  <2>1. Save(Dissolved(c, own), Dissolving(c, own)) /\ process = "up"
    BY <1>17 DEF removeCodebase
  <2>2. ASSUME NEW s, NEW moved,
               s.workspaces = [i \in Workspaces |->
                       IF i \in moved
                       THEN [registry.workspaces[i] EXCEPT
                               !.codebase = IF i \in DOMAIN own THEN own[i] ELSE None]
                       ELSE registry.workspaces[i]]
        PROVE  KeepsClosed(s)
    <3>1. \A i \in Present(registry) : i \in Workspaces
                                     /\ registry.workspaces[i] \in RegisteredWorkspace
      BY <1>0, PresentType
    <3>2. \A i \in Present(registry) : s.workspaces[i].status = registry.workspaces[i].status
      BY <2>2, <3>1 DEF RegisteredWorkspace
    <3> QED
      BY <3>2 DEF KeepsClosed
  <2>3. KeepsClosed(Dissolved(c, own))
    BY <2>2 DEF Dissolved, Moved
  <2>4. ASSUME NEW moved, NEW created
        PROVE  KeepsClosed(Moved(moved, own, created))
    BY <2>2 DEF Moved
  <2>5. \A s \in Dissolving(c, own) : KeepsClosed(s)
    <3> DEFINE step(moved, next) ==
                 Moved(moved, own, {own[i] : i \in DOMAIN own \cap (moved \cup {next})})
               steps == {step(moved, next) : moved \in SUBSET Members(c), next \in DOMAIN own}
    <3>1. ASSUME NEW moved, NEW next
          PROVE  KeepsClosed(step(moved, next))
      BY <2>4
    <3>2. Dissolving(c, own) = steps
      BY DEF Dissolving
    <3> HIDE DEF step
    <3>3. \A s \in steps : KeepsClosed(s)
      BY <3>1
    <3> QED
      BY <3>2, <3>3
  <2> QED
    BY <2>1, <2>3, <2>5, SaveKeepsClosed
<1>18. CASE UNCHANGED vars
  BY <1>18 DEF vars, Saved, ClosedStep, Known, OnFile
<1> QED
  BY <1>1, <1>2, <1>3, <1>4, <1>5, <1>6, <1>7, <1>8, <1>9, <1>10, <1>11, <1>12,
     <1>13, <1>14, <1>15, <1>16, <1>17, <1>18 DEF Next

\* No operation or late result reopens a removed workspace under its
\* identifier, and no process that starts finds it open in the file, wherever
\* the one before it died; for any number of workspaces and crashes and after
\* any incident (requireMutable, the saves of every method, and the staleness
\* check of resume). The file agreeing with the memory is what carries it over
\* a crash.
THEOREM RemovedIsFinal == Spec => RemovedStaysClosed
<1>1. Init => Saved
  BY DEF Init, Saved
<1>2. ClosedStep => [\A i \in Present(Known) :
         Known.workspaces[i].status = "removed"
           => Known'.workspaces[i] = None
                \/ Known'.workspaces[i].status = "removed"]_vars
  BY DEF ClosedStep
<1> QED
  BY <1>1, <1>2, RegistryTypes, ClosedStepNext, PTL DEF Spec, RemovedStaysClosed

-----------------------------------------------------------------------------
(***************************************************************************)
(* The next start accepts the file                                         *)
(***************************************************************************)

\* The inductive invariant: without an incident, what is in memory passes the
\* validation too, so that the next save does.
Sound ==
    incidents = {} => /\ process = "up" => Valid(registry)
                      /\ file = None \/ Valid(file)

\* An empty registry passes the validation.
LEMMA EmptyValid == Valid(Empty)
BY DEF Valid, Empty, Present, Listed

\* A record that passes the checks of its own, and shares neither binding nor
\* root with another listed workspace, may take any place of a valid registry.
LEMMA ReplaceValid ==
    ASSUME NEW s \in State, Valid(s), NEW i \in Workspaces,
           NEW w \in RegisteredWorkspace, ValidRecord(w, s.codebases),
           w.status # "removed"
             => \A j \in Listed(s) \ {i} : Distinct(w, s.workspaces[j])
    PROVE  Valid(With(s, i, w))
<1> DEFINE t == With(s, i, w)
<1>1. t.codebases = s.codebases /\ t.workspaces = [s.workspaces EXCEPT ![i] = w]
  BY WithType
<1>2. s.workspaces \in [Workspaces -> RegisteredWorkspace \cup {None}]
  BY DEF State
<1> HIDE DEF t
<1>3. ASSUME NEW j \in Present(t) PROVE ValidRecord(t.workspaces[j], t.codebases)
  <2>1. CASE j = i
    BY <2>1, <1>1, <1>2
  <2>2. CASE j # i
    BY <2>2, <1>1, <1>2, <1>3 DEF Valid, Present
  <2> QED
    BY <2>1, <2>2
<1>4. ASSUME NEW j \in Listed(t), NEW k \in Listed(t), j # k
      PROVE  Distinct(t.workspaces[j], t.workspaces[k])
  <2>1. j \in Workspaces /\ k \in Workspaces
    BY DEF Listed, Present
  <2>2. \A l \in Listed(t) : l # i => l \in Listed(s) /\ t.workspaces[l] = s.workspaces[l]
    BY <1>1, <1>2 DEF Listed, Present
  <2>3. i \in Listed(t) => t.workspaces[i] = w /\ w.status # "removed"
    BY <1>1, <1>2 DEF Listed, Present
  <2>4. CASE j = i
    BY <2>2, <2>3, <2>4, <1>4
  <2>5. CASE k = i
    <3>1. Distinct(w, s.workspaces[j])
      BY <2>2, <2>3, <2>5, <1>4
    <3> QED
      BY <3>1, <2>2, <2>3, <2>5, <1>4 DEF Distinct
  <2>6. CASE j # i /\ k # i
    BY <2>2, <2>6, <1>4 DEF Valid
  <2> QED
    BY <2>4, <2>5, <2>6
<1>5. Valid(t)
  BY <1>3, <1>4 DEF Valid
<1> QED
  BY <1>5 DEF t

\* In particular an open workspace may change everything but its binding, its
\* root and its kind, as long as its record passes the checks.
LEMMA UpdateValid ==
    ASSUME NEW s \in State, Valid(s), NEW i \in Listed(s),
           NEW w \in RegisteredWorkspace, ValidRecord(w, s.codebases),
           w.binding = s.workspaces[i].binding, w.root = s.workspaces[i].root,
           w.virtual = s.workspaces[i].virtual
    PROVE  Valid(With(s, i, w))
<1>1. i \in Workspaces
  BY DEF Listed, Present
<1>2. \A j \in Listed(s) \ {i} : Distinct(w, s.workspaces[j])
  BY DEF Valid, Distinct
<1> QED
  BY <1>1, <1>2, ReplaceValid

\* A workspace may be dropped from a valid registry.
LEMMA DropValid ==
    ASSUME NEW s \in State, Valid(s), NEW i \in Workspaces
    PROVE  Valid(With(s, i, None))
<1> DEFINE t == With(s, i, None)
<1>1. t.codebases = s.codebases /\ t.workspaces = [s.workspaces EXCEPT ![i] = None]
  BY WithType
<1>2. s.workspaces \in [Workspaces -> RegisteredWorkspace \cup {None}]
  BY DEF State
<1> HIDE DEF t
<1>3. \A j \in Present(t) : j \in Present(s) /\ t.workspaces[j] = s.workspaces[j]
  BY <1>1, <1>2 DEF Present
<1>4. \A j \in Listed(t) : j \in Listed(s) /\ t.workspaces[j] = s.workspaces[j]
  BY <1>3 DEF Listed
<1>5. Valid(t)
  BY <1>1, <1>3, <1>4 DEF Valid
<1> QED
  BY <1>5 DEF t

\* A new codebase invalidates nothing.
LEMMA NewCodebaseValid ==
    ASSUME NEW s \in State, Valid(s), NEW c \in Codebases
    PROVE  Valid(NewCodebase(s, c)) /\ NewCodebase(s, c).codebases[c] = "active"
<1> DEFINE t == NewCodebase(s, c)
<1>1. t.workspaces = s.workspaces /\ t.codebases = [s.codebases EXCEPT ![c] = "active"]
  BY NewCodebaseType
<1>2. s.codebases \in [Codebases -> {"none", "active", "removed"}]
  BY DEF State
<1>3. \A d \in Codebases : s.codebases[d] = "active" => t.codebases[d] = "active"
  BY <1>1, <1>2
<1> HIDE DEF t
<1>4. Present(t) = Present(s) /\ Listed(t) = Listed(s)
  BY <1>1 DEF Present, Listed
<1>5. ASSUME NEW i \in Present(s) PROVE ValidRecord(s.workspaces[i], t.codebases)
  <2>1. s.workspaces[i] \in RegisteredWorkspace
    BY PresentType
  <2>2. ValidRecord(s.workspaces[i], s.codebases)
    BY DEF Valid
  <2> QED
    BY <2>1, <2>2, <1>3 DEF ValidRecord, RegisteredWorkspace
<1>6. Valid(t)
  BY <1>1, <1>4, <1>5 DEF Valid
<1>7. t.codebases[c] = "active"
  BY <1>1, <1>2
<1> QED
  BY <1>6, <1>7 DEF t

\* While the members of a codebase are moved one by one, and once all of them
\* have been and it is closed, the registry is valid: the codebase a member
\* moves to was created before.
LEMMA MovedValid ==
    ASSUME registry \in State, Valid(registry), NEW c \in Codebases,
           registry.codebases[c] = "active",
           NEW own, own \in [DOMAIN own -> Codebases],
           NEW M, M = {i \in Present(registry) : registry.workspaces[i].codebase = c},
           DOMAIN own = M \cap Listed(registry),
           \A i \in DOMAIN own : registry.codebases[own[i]] = "none",
           NEW moved \in SUBSET M, NEW created \in SUBSET Codebases,
           \A i \in DOMAIN own \cap moved : own[i] \in created
    PROVE  /\ Valid(Moved(moved, own, created))
           /\ moved = M
                => Valid([Moved(moved, own, created) EXCEPT !.codebases[c] = "removed"])
<1> DEFINE s == Moved(moved, own, created)
           r == [s EXCEPT !.codebases[c] = "removed"]
<1>1. s.workspaces = [i \in Workspaces |->
                       IF i \in moved
                       THEN [registry.workspaces[i] EXCEPT
                               !.codebase = IF i \in DOMAIN own THEN own[i] ELSE None]
                       ELSE registry.workspaces[i]]
      /\ s.codebases = [d \in Codebases |->
                       IF d \in created THEN "active" ELSE registry.codebases[d]]
  BY DEF Moved
<1>2. r.workspaces = s.workspaces /\ r.codebases = [s.codebases EXCEPT ![c] = "removed"]
  BY DEF Moved
<1>3. /\ registry.workspaces \in [Workspaces -> RegisteredWorkspace \cup {None}]
      /\ registry.codebases \in [Codebases -> {"none", "active", "removed"}]
  BY DEF State
<1> HIDE DEF s, r
<1>4. \A i \in M : i \in Workspaces /\ i \in Present(registry)
                   /\ registry.workspaces[i] \in RegisteredWorkspace
  BY PresentType
<1>5. ASSUME NEW i \in Workspaces, i \notin moved
      PROVE  s.workspaces[i] = registry.workspaces[i]
  BY <1>1, <1>5
<1>6. ASSUME NEW i \in moved
      PROVE  /\ s.workspaces[i] \in RegisteredWorkspace
             /\ s.workspaces[i].codebase = IF i \in DOMAIN own THEN own[i] ELSE None
             /\ s.workspaces[i].status = registry.workspaces[i].status
             /\ s.workspaces[i].snapshot = registry.workspaces[i].snapshot
             /\ s.workspaces[i].removed_at = registry.workspaces[i].removed_at
             /\ s.workspaces[i].suspended_at = registry.workspaces[i].suspended_at
             /\ s.workspaces[i].operation = registry.workspaces[i].operation
             /\ s.workspaces[i].binding = registry.workspaces[i].binding
             /\ s.workspaces[i].virtual = registry.workspaces[i].virtual
             /\ s.workspaces[i].root = registry.workspaces[i].root
  <2> DEFINE w == registry.workspaces[i]
             k == IF i \in DOMAIN own THEN own[i] ELSE None
  <2>1. s.workspaces[i] = [w EXCEPT !.codebase = k]
    BY <1>1, <1>4
  <2>2. w \in RegisteredWorkspace /\ k \in Codebases \cup {None}
    BY <1>4
  <2>3. k = IF i \in DOMAIN own THEN own[i] ELSE None
    OBVIOUS
  <2> HIDE DEF w, k
  <2>4. [w EXCEPT !.codebase = k] \in RegisteredWorkspace
    BY <2>2 DEF RegisteredWorkspace
  <2>5. /\ s.workspaces[i].codebase = k
        /\ s.workspaces[i].status = w.status
        /\ s.workspaces[i].snapshot = w.snapshot
        /\ s.workspaces[i].removed_at = w.removed_at
        /\ s.workspaces[i].suspended_at = w.suspended_at
        /\ s.workspaces[i].operation = w.operation
        /\ s.workspaces[i].binding = w.binding
        /\ s.workspaces[i].virtual = w.virtual
        /\ s.workspaces[i].root = w.root
    BY <2>1, <2>2 DEF RegisteredWorkspace
  <2> QED
    BY <2>1, <2>3, <2>4, <2>5 DEF w
<1>7. Present(s) = Present(registry)
  <2>1. ASSUME NEW i \in moved PROVE s.workspaces[i] # None /\ registry.workspaces[i] # None
    <3>1. s.workspaces[i] \in RegisteredWorkspace /\ registry.workspaces[i] \in RegisteredWorkspace
      BY <1>4, <1>6
    <3>2. None \notin RegisteredWorkspace
      BY RegistryAssumption
    <3> QED
      BY <3>1, <3>2
  <2> QED
    BY <2>1, <1>5 DEF Present
<1>8. Listed(s) = Listed(registry)
  BY <1>4, <1>5, <1>6, <1>7 DEF Listed, Present
<1>9. ASSUME NEW i \in Listed(s), NEW j \in Listed(s), i # j
      PROVE  Distinct(s.workspaces[i], s.workspaces[j])
  <2>1. Distinct(registry.workspaces[i], registry.workspaces[j])
    BY <1>8, <1>9 DEF Valid
  <2>2. i \in Workspaces /\ j \in Workspaces
    BY DEF Listed, Present
  <2>3. \A k \in Workspaces :
          /\ s.workspaces[k].binding = registry.workspaces[k].binding
          /\ s.workspaces[k].virtual = registry.workspaces[k].virtual
          /\ s.workspaces[k].root = registry.workspaces[k].root
    BY <1>5, <1>6
  <2> QED
    BY <2>1, <2>2, <2>3 DEF Distinct
<1>10. \A d \in Codebases : d \in created \/ registry.codebases[d] = "active"
                              => s.codebases[d] = "active"
  BY <1>1
<1>11. ASSUME NEW i \in Present(s) PROVE ValidRecord(s.workspaces[i], s.codebases)
  <2>1. ValidRecord(registry.workspaces[i], registry.codebases)
    BY <1>7 DEF Valid
  <2>2. CASE i \in moved
    <3>1. i \in DOMAIN own => own[i] \in Codebases /\ s.codebases[own[i]] = "active"
      BY <2>2, <1>10
    <3>2. i \notin DOMAIN own => registry.workspaces[i].status = "removed"
      BY <2>2, <1>4 DEF Listed
    <3>3. i \in DOMAIN own => own[i] # None
      BY <3>1, RegistryAssumption
    <3> QED
      BY <2>1, <2>2, <3>1, <3>2, <3>3, <1>6 DEF ValidRecord
  <2>3. CASE i \notin moved
    <3>1. i \in Workspaces /\ registry.workspaces[i] \in RegisteredWorkspace
      BY <1>7, PresentType
    <3>2. s.workspaces[i] = registry.workspaces[i]
      BY <2>3, <3>1, <1>5
    <3> QED
      BY <2>1, <3>1, <3>2, <1>10 DEF ValidRecord, RegisteredWorkspace
  <2> QED
    BY <2>2, <2>3
<1>12. Valid(s)
  BY <1>9, <1>11 DEF Valid
<1>13. ASSUME moved = M PROVE Valid(r)
  <2>1. Present(r) = Present(s) /\ Listed(r) = Listed(s)
    BY <1>2 DEF Present, Listed
  <2>2. ASSUME NEW i \in Present(r) PROVE ValidRecord(s.workspaces[i], r.codebases)
    <3>1. ValidRecord(s.workspaces[i], s.codebases)
      BY <2>1, <1>11
    <3>2. s.workspaces[i].codebase \in Codebases \cup {None} /\ s.workspaces[i].codebase # c
      <4>1. CASE i \in M
        <5>1. i \in DOMAIN own => own[i] \in Codebases /\ own[i] # c
          OBVIOUS
        <5> QED
          BY <4>1, <5>1, <1>13, <1>6, RegistryAssumption
      <4>2. CASE i \notin M
        <5>1. i \in Workspaces /\ i \in Present(registry)
              /\ registry.workspaces[i] \in RegisteredWorkspace
          BY <1>7, <2>1, PresentType
        <5>2. registry.workspaces[i].codebase # c
          BY <4>2, <5>1
        <5> QED
          BY <4>2, <5>1, <5>2, <1>5, <1>13 DEF RegisteredWorkspace
      <4> QED
        BY <4>1, <4>2
    <3>3. \A d \in Codebases \ {c} : r.codebases[d] = s.codebases[d]
      BY <1>1, <1>2
    <3> QED
      BY <3>1, <3>2, <3>3 DEF ValidRecord
  <2> QED
    BY <2>1, <2>2, <1>2, <1>9 DEF Valid
<1> QED
  BY <1>12, <1>13 DEF s, r

\* A method that saves valid registries, when no incident has happened, keeps
\* the invariant.
LEMMA SaveSound ==
    ASSUME TypeOK, Sound, NEW final, NEW partial, Save(final, partial),
           incidents' = {} => Valid(final) /\ \A s \in partial : Valid(s)
    PROVE  Sound'
BY DEF Save, Sound

\* Each operation keeps the invariant: one that runs to its end, and one that
\* the process dies in.
LEMMA SoundStep == TypeOK /\ Sound /\ [Next]_vars => Sound'
<1> SUFFICES ASSUME TypeOK, Sound, [Next]_vars PROVE Sound'
  OBVIOUS
<1> USE RegistryAssumption
<1>0. registry \in State
  BY DEF TypeOK
<1>m. ASSUME NEW i \in Workspaces, Mutable(i)
      PROVE  /\ i \in Listed(registry)
             /\ registry.workspaces[i] \in RegisteredWorkspace
             /\ registry.workspaces[i].status \notin {"removing", "removed"}
  BY <1>m, <1>0, PresentType DEF Mutable, Closed, Listed
<1>v. ASSUME NEW i \in Workspaces, Mutable(i), Valid(registry)
      PROVE  ValidRecord(registry.workspaces[i], registry.codebases)
  BY <1>v DEF Valid, Mutable
<1>u. ASSUME NEW i \in Workspaces, Mutable(i), process = "up",
             NEW w \in RegisteredWorkspace, Save(With(registry, i, w), {}),
             w.binding = registry.workspaces[i].binding,
             w.root = registry.workspaces[i].root,
             w.virtual = registry.workspaces[i].virtual,
             incidents' = {} => incidents = {},
             incidents' = {} /\ ValidRecord(registry.workspaces[i], registry.codebases)
               => ValidRecord(w, registry.codebases)
      PROVE  Sound'
  <2>1. ASSUME incidents' = {} PROVE Valid(With(registry, i, w))
    <3>1. Valid(registry)
      BY <2>1, <1>u DEF Sound
    <3>2. ValidRecord(w, registry.codebases)
      BY <3>1, <2>1, <1>u, <1>v
    <3> QED
      BY <3>1, <3>2, <1>u, <1>0, <1>m, UpdateValid
  <2> QED
    BY <2>1, <1>u, SaveSound
<1>1. CASE Load
  BY <1>1, EmptyValid DEF Load, Sound
<1>2. CASE Crash
  BY <1>2 DEF Crash, Sound
<1>3. ASSUME NEW i \in Workspaces, NEW root \in Roots, NEW virtual \in BOOLEAN,
             NEW c \in Codebases, register(i, root, virtual, c)
      PROVE  Sound'
  <2> DEFINE s == NewCodebase(registry, c)
             binding == IF virtual THEN i ELSE root
             w == [status |-> "registering", root |-> root, binding |-> binding,
                   virtual |-> virtual, codebase |-> c, snapshot |-> FALSE,
                   operation |-> None, suspended_at |-> FALSE, removed_at |-> FALSE]
             partial == IF registry.codebases[c] = "none" THEN {s} ELSE {}
  <2>1. w \in RegisteredWorkspace
    BY DEF RegisteredWorkspace, Statuses
  <2>2. s \in State /\ s.workspaces = registry.workspaces
    BY <1>0, NewCodebaseType
  <2>3. Listed(s) = Listed(registry)
    BY <2>2 DEF Listed, Present
  <2>4. \A j \in Listed(s) \ {i} : Distinct(w, s.workspaces[j])
    BY <2>2, <2>3, <1>3 DEF register, Distinct
  <2>5. ASSUME incidents' = {} PROVE Valid(s) /\ Valid(With(s, i, w))
    <3>1. Valid(registry)
      BY <2>5, <1>3 DEF register, Sound
    <3>2. Valid(s) /\ s.codebases[c] = "active"
      BY <3>1, <1>0, NewCodebaseValid
    <3>3. ValidRecord(w, s.codebases)
      BY <3>2 DEF ValidRecord
    <3> HIDE DEF s, w
    <3> QED
      BY <3>2, <3>3, <2>1, <2>2, <2>4, ReplaceValid
  <2>6. Save(With(s, i, w), partial)
    BY <1>3 DEF register
  <2> HIDE DEF s, w
  <2> QED
    BY <2>5, <2>6, SaveSound
<1>4. ASSUME NEW i \in Workspaces, NEW root \in Roots, relocate(i, root)
      PROVE  Sound'
  <2> DEFINE w == [registry.workspaces[i] EXCEPT !.root = root, !.operation = None]
  <2>1. Mutable(i) /\ Save(With(registry, i, w), {})
    BY <1>4 DEF relocate
  <2>2. /\ w \in RegisteredWorkspace
        /\ w.binding = registry.workspaces[i].binding
        /\ w.root = root
        /\ w.virtual = registry.workspaces[i].virtual
    BY ZenonT(30), <2>1, <1>m DEF RegisteredWorkspace
  <2>3. ASSUME incidents' = {} PROVE Valid(With(registry, i, w))
    <3>1. Valid(registry)
      BY <2>3, <1>4 DEF relocate, Sound
    <3>2. ValidRecord(w, registry.codebases)
      BY <3>1, <2>1, <1>v, <1>m DEF ValidRecord, RegisteredWorkspace
    <3>3. \A j \in Listed(registry) \ {i} : registry.workspaces[j].root # root
      BY <1>4 DEF relocate
    <3> HIDE DEF w
    <3>4. \A j \in Listed(registry) \ {i} : Distinct(w, registry.workspaces[j])
      BY <3>1, <3>3, <2>1, <2>2, <1>m DEF Distinct, Valid
    <3> QED
      BY <3>1, <3>2, <3>4, <2>2, <1>0, ReplaceValid
  <2> HIDE DEF w
  <2> QED
    BY <2>1, <2>3, SaveSound
<1>5. CASE updateMetadata
  BY <1>5, SaveSound DEF updateMetadata, Sound
<1>6. ASSUME NEW i \in Workspaces, NEW status \in {"ready", "degraded"},
             markReady(i, status)
      PROVE  Sound'
  BY <1>6, <1>u, <1>m DEF markReady, ValidRecord, RegisteredWorkspace, Statuses
<1>7. ASSUME NEW i \in Workspaces, markStructuralStagePublished(i)
      PROVE  Sound'
  BY ZenonT(60), <1>7, <1>u, <1>m DEF markStructuralStagePublished, ValidRecord, RegisteredWorkspace
<1>8. ASSUME NEW i \in Workspaces, recordScanFailure(i)
      PROVE  Sound'
  BY <1>8, <1>u, <1>m DEF recordScanFailure, ValidRecord, RegisteredWorkspace, Statuses
<1>9. ASSUME NEW i \in Workspaces, NEW op \in Ops, beginReconciliation(i, op)
      PROVE  Sound'
  BY ZenonT(60), <1>9, <1>u, <1>m DEF beginReconciliation, ValidRecord, RegisteredWorkspace, Statuses
<1>10. ASSUME NEW i \in Workspaces, suspend(i)
       PROVE  Sound'
  BY <1>10, <1>u, <1>m DEF suspend, ValidRecord, RegisteredWorkspace, Statuses
<1>11. ASSUME NEW i \in Workspaces, NEW op \in Ops, resume(i, op)
       PROVE  Sound'
  <2> DEFINE w == [registry.workspaces[i] EXCEPT !.status = "indexing",
                                                 !.suspended_at = FALSE,
                                                 !.operation = op]
  <2>1. /\ Mutable(i) /\ process = "up" /\ incidents' = incidents
        /\ Save(With(registry, i, w), {})
    BY <1>11 DEF resume
  <2>2. registry.workspaces[i] \in RegisteredWorkspace
    BY <2>1, <1>m
  <2>3. /\ w \in RegisteredWorkspace
        /\ w.binding = registry.workspaces[i].binding
        /\ w.root = registry.workspaces[i].root
        /\ w.virtual = registry.workspaces[i].virtual
    BY <2>2 DEF RegisteredWorkspace, Statuses
  <2>4. ValidRecord(registry.workspaces[i], registry.codebases)
          => ValidRecord(w, registry.codebases)
    BY <2>1, <2>2, <1>m DEF ValidRecord, RegisteredWorkspace
  <2> HIDE DEF w
  <2> QED
    BY <2>1, <2>3, <2>4, <1>u
<1>12. ASSUME NEW i \in Workspaces, NEW op \in Ops,
              NEW status \in {"ready", "degraded"}, ResumeResult(i, op, status)
       PROVE  Sound'
  <2> DEFINE current == /\ i \in Present(registry)
                        /\ registry.workspaces[i].status = "indexing"
                        /\ registry.workspaces[i].operation = op
             w == [registry.workspaces[i] EXCEPT !.operation = None, !.snapshot = TRUE,
                                                 !.status = status]
  <2>1. process = "up" /\ incidents' = incidents
    BY <1>12 DEF ResumeResult
  <2>2. CASE current
    <3>1. Mutable(i) /\ Save(With(registry, i, w), {})
      BY <1>12, <2>2 DEF ResumeResult, Mutable, Closed
    <3>2. registry.workspaces[i] \in RegisteredWorkspace
      BY <3>1, <1>m
    <3>3. /\ w \in RegisteredWorkspace
          /\ w.binding = registry.workspaces[i].binding
          /\ w.root = registry.workspaces[i].root
          /\ w.virtual = registry.workspaces[i].virtual
      BY <3>2 DEF RegisteredWorkspace, Statuses
    <3>4. ValidRecord(registry.workspaces[i], registry.codebases)
            => ValidRecord(w, registry.codebases)
      BY <3>2, <2>2 DEF ValidRecord, RegisteredWorkspace
    <3> HIDE DEF w
    <3> QED
      BY <2>1, <3>1, <3>3, <3>4, <1>u
  <2>3. CASE ~current
    BY <1>12, <2>3 DEF ResumeResult, Sound
  <2> QED
    BY <2>2, <2>3
<1>13. ASSUME NEW i \in Workspaces, remove(i)
       PROVE  Sound'
  <2> DEFINE w == registry.workspaces[i]
             removing == [w EXCEPT !.operation = None, !.status = "removing"]
             removed == [removing EXCEPT !.status = "removed", !.removed_at = TRUE]
  <2>1. /\ Mutable(i) /\ process = "up"
        /\ incidents' = {} => incidents = {} /\ ~w.suspended_at
        /\ Save(With(registry, i, removed), {With(registry, i, removing)})
    BY <1>13 DEF remove
  <2>2. w \in RegisteredWorkspace /\ i \in Listed(registry)
        /\ w.status \notin {"removing", "removed"}
    BY <2>1, <1>m
  <2>3. ASSUME NEW v \in {removing, removed}
        PROVE  /\ v \in RegisteredWorkspace
               /\ v.binding = w.binding /\ v.root = w.root /\ v.virtual = w.virtual
    <3>1. /\ removing \in RegisteredWorkspace
          /\ removing.binding = w.binding /\ removing.root = w.root
          /\ removing.virtual = w.virtual
      BY <2>2 DEF RegisteredWorkspace, Statuses
    <3>2. /\ removed \in RegisteredWorkspace
          /\ removed.binding = w.binding /\ removed.root = w.root
          /\ removed.virtual = w.virtual
      BY <2>2 DEF RegisteredWorkspace, Statuses
    <3> HIDE DEF removing, removed
    <3> QED
      BY <3>1, <3>2
  <2>4. ASSUME incidents' = {}, NEW v \in {removing, removed}
        PROVE  Valid(With(registry, i, v))
    <3>1. Valid(registry)
      BY <2>4, <2>1 DEF Sound
    <3>2. ValidRecord(w, registry.codebases)
      BY <3>1, <2>1, <1>v
    <3>3. ValidRecord(v, registry.codebases)
      BY ZenonT(60), <3>2, <2>1, <2>2, <2>4 DEF ValidRecord, RegisteredWorkspace
    <3> HIDE DEF removing, removed
    <3> QED
      BY <3>1, <3>3, <2>2, <2>3, <1>0, UpdateValid
  <2> HIDE DEF removing, removed
  <2> QED
    BY <2>1, <2>4, SaveSound
<1>14. ASSUME NEW i \in Workspaces, purge(i)
       PROVE  Sound'
  <2>1. incidents' = {} => Valid(With(registry, i, None))
    BY <1>14, <1>0, DropValid DEF purge, Sound
  <2> QED
    BY <1>14, <2>1, SaveSound DEF purge
<1>15. ASSUME NEW c \in Codebases, createCodebase(c)
       PROVE  Sound'
  <2>1. incidents' = {} => Valid(NewCodebase(registry, c))
    BY <1>15, <1>0, NewCodebaseValid DEF createCodebase, Sound
  <2> QED
    BY <1>15, <2>1, SaveSound DEF createCodebase
<1>16. ASSUME NEW i \in Workspaces, NEW c \in Codebases, assignCodebase(i, c)
       PROVE  Sound'
  <2> DEFINE s == NewCodebase(registry, c)
             w == [registry.workspaces[i] EXCEPT !.codebase = c]
             partial == IF registry.codebases[c] = "none" THEN {s} ELSE {}
  <2>1. /\ Mutable(i) /\ process = "up" /\ incidents' = incidents
        /\ Save(With(s, i, w), partial)
    BY <1>16 DEF assignCodebase
  <2>2. registry.workspaces[i] \in RegisteredWorkspace
    BY <2>1, <1>m
  <2>3. s \in State /\ s.workspaces = registry.workspaces
    BY <1>0, NewCodebaseType
  <2>4. i \in Listed(s)
    BY <2>1, <2>3, <1>m DEF Listed, Present
  <2>5. /\ w \in RegisteredWorkspace /\ w.binding = registry.workspaces[i].binding
        /\ w.root = registry.workspaces[i].root
        /\ w.virtual = registry.workspaces[i].virtual
    BY <2>2 DEF RegisteredWorkspace
  <2>6. ASSUME incidents' = {} PROVE Valid(s) /\ Valid(With(s, i, w))
    <3>1. Valid(registry)
      BY <2>6, <2>1 DEF Sound
    <3>2. Valid(s) /\ s.codebases[c] = "active"
      BY <3>1, <1>0, NewCodebaseValid
    <3>3. ValidRecord(w, s.codebases)
      BY <3>1, <3>2, <2>1, <2>2, <1>v DEF ValidRecord, RegisteredWorkspace
    <3> HIDE DEF s, w
    <3> QED
      BY <3>2, <3>3, <2>3, <2>4, <2>5, UpdateValid
  <2> HIDE DEF s, w
  <2> QED
    BY <2>1, <2>6, SaveSound
<1>17. ASSUME NEW c \in Codebases, NEW members \in SUBSET Workspaces,
              NEW own \in [members -> Codebases], removeCodebase(c, own)
       PROVE  Sound'
  <2> DEFINE M == Members(c)
             new(S) == {own[i] : i \in DOMAIN own \cap S}
             step(moved, next) == Moved(moved, own, new(moved \cup {next}))
             steps == {step(moved, next) : moved \in SUBSET M, next \in DOMAIN own}
             created == {own[i] : i \in DOMAIN own}
  <2>1. /\ process = "up" /\ incidents' = incidents /\ registry.codebases[c] = "active"
        /\ DOMAIN own = M \cap Listed(registry)
        /\ \A i \in DOMAIN own : registry.codebases[own[i]] = "none"
    BY <1>17 DEF removeCodebase
  <2>2. Save(Dissolved(c, own), Dissolving(c, own))
    BY <1>17 DEF removeCodebase
  <2>3. own \in [DOMAIN own -> Codebases]
    OBVIOUS
  <2>4. M = {i \in Present(registry) : registry.workspaces[i].codebase = c}
    BY DEF Members
  <2>5. ASSUME incidents' = {}
        PROVE  Valid(Dissolved(c, own)) /\ \A s \in Dissolving(c, own) : Valid(s)
    <3>1. Valid(registry)
      BY <2>5, <2>1 DEF Sound
    <3>2. created \in SUBSET Codebases /\ \A i \in DOMAIN own \cap M : own[i] \in created
      BY <2>3
    <3>3. Dissolved(c, own) = [Moved(M, own, created) EXCEPT !.codebases[c] = "removed"]
      BY DEF Dissolved
    <3>4. Valid(Dissolved(c, own))
      <4> HIDE DEF created, M
      <4>1. M \in SUBSET M /\ registry \in State
        BY <1>0
      <4>2. Valid([Moved(M, own, created) EXCEPT !.codebases[c] = "removed"])
        BY <4>1, <3>1, <3>2, <2>1, <2>3, <2>4, MovedValid
      <4> QED
        BY <4>2, <3>3
    <3>5. ASSUME NEW moved \in SUBSET M, NEW next \in DOMAIN own
          PROVE  Valid(step(moved, next))
      <4> DEFINE n == new(moved \cup {next})
      <4>1. n \in SUBSET Codebases /\ \A i \in DOMAIN own \cap moved : own[i] \in n
        BY <2>3
      <4> HIDE DEF n, M
      <4>2. Valid(Moved(moved, own, n))
        BY <3>1, <4>1, <2>1, <2>3, <2>4, <1>0, MovedValid
      <4> QED
        BY <4>2 DEF n
    <3>6. Dissolving(c, own) = steps
      BY DEF Dissolving
    <3> HIDE DEF step
    <3>7. \A s \in steps : Valid(s)
      BY <3>5
    <3> QED
      BY <3>4, <3>6, <3>7
  <2> QED
    BY <2>2, <2>5, SaveSound
<1>18. CASE UNCHANGED vars
  BY <1>18 DEF vars, Sound
<1> QED
  BY <1>1, <1>2, <1>3, <1>4, <1>5, <1>6, <1>7, <1>8, <1>9, <1>10, <1>11, <1>12,
     <1>13, <1>14, <1>15, <1>16, <1>17, <1>18 DEF Next

\* The file the daemon leaves behind, after any sequence of operations and
\* wherever the process died, passes validatePersistedState at the next
\* start, for any number of workspaces, codebases, roots and crashes; a
\* failed first scan and a suspended workspace reconciled or removed are the
\* only exceptions.
THEOREM NextStartAccepts == Spec => []Reloadable
<1>1. Init => Sound
  BY EmptyValid DEF Init, Sound
<1>2. Sound => Reloadable
  BY DEF Sound, Reloadable
<1> QED
  BY <1>1, <1>2, RegistryTypes, SoundStep, PTL DEF Spec

=============================================================================
