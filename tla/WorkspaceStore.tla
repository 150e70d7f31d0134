---------------------------- MODULE WorkspaceStore ----------------------------
(***************************************************************************)
(* What the storage layer promises the callers that open the database of a *)
(* workspace: it is at one place, and whoever has it open reads it there;  *)
(* it is moved or deleted in one step, when nobody has it open, and moved  *)
(* only before and deleted only after the workspace is removed; a deleted  *)
(* database does not come back.  A store that is broken promises nothing.  *)
(***************************************************************************)
CONSTANTS Users, Places, Nowhere

VARIABLES place,     \* where the database is, Nowhere once it is deleted
          reads,     \* the place a user has open
          removed,   \* the workspace is removed, its database kept for a while
          broken

Unused == \A u \in Users : reads[u] = Nowhere

StoreInit ==
    /\ place \in Places
    /\ reads = [u \in Users |-> Nowhere]
    /\ removed = FALSE /\ broken = FALSE

Attach(u) ==
    /\ place # Nowhere
    /\ reads' = [reads EXCEPT ![u] = place]
    /\ UNCHANGED <<place, removed, broken>>

\* A user closes the database; the users of a process that dies all do.
Detach ==
    /\ \A u \in Users : reads'[u] \in {reads[u], Nowhere}
    /\ UNCHANGED <<place, removed, broken>>

Relocate ==
    /\ ~removed /\ Unused
    /\ place # Nowhere /\ place' \in Places
    /\ UNCHANGED <<reads, removed, broken>>

Remove == removed' = TRUE /\ UNCHANGED <<place, reads, broken>>

Delete ==
    /\ removed /\ Unused
    /\ place' = Nowhere
    /\ UNCHANGED <<reads, removed, broken>>

Break == broken' = TRUE

StoreNext == (\E u \in Users : Attach(u)) \/ Detach \/ Relocate \/ Remove \/ Delete \/ Break

StoreSpec == StoreInit /\ [][StoreNext]_<<place, reads, removed, broken>>

\* Whoever has the database open reads it where it is, until the store breaks.
ReadsDatabase == broken \/ \A u \in Users : reads[u] \in {place, Nowhere}

=============================================================================
